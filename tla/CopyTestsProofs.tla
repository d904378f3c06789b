--------------------------- MODULE CopyTestsProofs ---------------------------
(***************************************************************************)
(* Proofs about the copying routine of the C tests, for every call a test  *)
(* makes and every single call, every size of words and capabilities and   *)
(* every pair of alignments.  The inductive invariant says which bytes     *)
(* have been written when a turn of a loop begins (Written), what they and *)
(* the tags hold, and what each phase leaves to the next.  For the tests   *)
(* themselves a script is typed: each step knows the structure copied from *)
(* and each check follows the copy that makes it true.                     *)
(***************************************************************************)
EXTENDS CopyTests, SequenceTheorems, TLAPS

\* The memory a test or a single call works in, and its granules.
Size ==
  CASE test = "none" -> 2 * (MaxCaps * sizes[2] + 2 * CallWord)
    [] test = "libc_memmove" -> 10 * sizes[2]
    [] OTHER -> 2 * Sizeof
Memory == 0 .. Size - 1
Granules == {a \in Memory : a % sizes[2] = 0}

\* The arguments of a call: ranges in memory, and no overlap for the
\* functions that do not handle it.
Fns == {"memcpy", "memcpy_c", "memmove", "bcopy"}
ArgsOK(fn, d, s, n) ==
  /\ fn \in Fns /\ d \in Nat /\ s \in Nat /\ n \in Nat
  /\ d + n <= Size /\ s + n <= Size
  /\ fn \in {"memcpy", "memcpy_c"} => Disjoint(d, s, n)

D == call.dst0
S == call.src0
Length == call.length

\* How far the copy has come: the end of what is written when copying up,
\* its start when copying down.
Cursor == IF Up THEN dst + loop.t ELSE dst + loop.t + loop.unit
From == IF Up THEN D ELSE Cursor
To == IF Up THEN Cursor ELSE D + Length
Written(a) == From <= a /\ a < To

\* The bytes the loop under way has still to copy.
LoopFrom == IF Up THEN Cursor ELSE dst
LoopTo == IF Up THEN dst ELSE Cursor

\* The number of bytes no loop has been set up for yet.
Todo == IF Up THEN D + Length - dst ELSE dst - D

\* A granule of the destination that is copied as a whole from a granule.
Whole(g) == g % P = 0 /\ D <= g /\ g + P <= D + Length /\ (S - D) % P = 0

\* A loop has whole units left, and one of bytes or words leaves the whole
\* granules of the destination alone.
LoopInv ==
  \/ loop = NoLoop
  \/ /\ loop = [unit |-> loop.unit, t |-> loop.t, last |-> loop.last, inc |-> loop.inc]
     /\ loop.unit \in {1, W, P} /\ loop.t \in Int /\ loop.t % loop.unit = 0
     /\ dst % loop.unit = 0 /\ src % loop.unit = 0
     /\ IF Up THEN loop.t < 0 /\ loop.last = -loop.unit /\ loop.inc = loop.unit
              ELSE loop.t >= 0 /\ loop.last = 0 /\ loop.inc = -loop.unit
     /\ loop.unit # P =>
          \A g \in Memory : Whole(g) => g + P <= LoopFrom \/ LoopTo <= g

\* The pointers move together and stay in the range.
PointersInv ==
  /\ dst \in Int /\ src \in Int /\ len \in Nat
  /\ src - S = dst - D
  /\ Todo >= 0 /\ From <= To /\ D <= From /\ To <= D + Length

BytesInv ==
  mem = [a \in Memory |-> IF Written(a) THEN old.mem[S + (a - D)] ELSE old.mem[a]]

\* A granule that is written to is tagged when all of it is copied from a
\* tagged granule.
Meets(a) == From < To /\ a < To /\ From < a + P
TagsInv ==
  \A a \in Granules :
    a \in tag <=> IF Meets(a)
                  THEN D <= a /\ a + P <= D + Length /\ S + (a - D) \in old.tag
                  ELSE a \in old.tag

\* What the phases leave to each other.
On(m) == dst % m = 0 /\ src % m = 0
PhaseInv ==
  /\ pc = "align" => loop = NoLoop /\ Todo = Length
  /\ pc \in {"align", "words", "ptrs"} => Todo = len
  /\ pc = "words" => len = 0 \/ (On(W) /\ Length - len < W)
  /\ pc = "ptrs" => len = 0 \/ (On(W) /\ (len < W \/ On(P)))
  /\ pc = "tail" => /\ Todo = len % P
                    /\ Todo = 0 \/ \E m \in {W, P} : On(m) /\ Todo < m
  /\ pc = "return" => Todo = 0

\* The state between the phases and inside a loop.
Untouched == mem = old.mem /\ tag = old.tag /\ loop = NoLoop
Working == Length > 0 /\ S # D /\ LoopInv /\ PointersInv /\ BytesInv /\ TagsInv
CallOK ==
  /\ ArgsOK(call.fn, D, S, Length) /\ W = sizes[1] /\ P = sizes[2]
  /\ old.mem \in [Memory -> Int] /\ old.tag \subseteq Granules

RoutineInv ==
  /\ pc \in Phases \cup {"idle", "done"}
  /\ pc \in {"idle", "done"} => loop = NoLoop
  /\ pc \in Phases => CallOK
  /\ pc = "call" => Untouched /\ dst = D /\ src = S /\ len = Length
  /\ pc \in Phases \ {"call"} =>
       \/ pc = "return" /\ (Length = 0 \/ S = D) /\ Untouched
       \/ Working /\ PhaseInv

\* The build, the places of the structures and the memory.
BuildOK ==
  /\ test \in Tests \cup {"none"}
  /\ \E w, c \in Nat \ {0} : sizes = <<w, c>> /\ c % w = 0 /\ (test # "none" => 32 % c = 0 /\ c > 1)
  /\ IF test = "none" THEN \E d, s \in Nat : base = <<d, s>>
     ELSE IF test = "libc_memmove" THEN base = <<0>>
     ELSE base \in {<<0, Sizeof>>, <<Sizeof, 0>>}
MemoryOK == mem \in [Memory -> Int] /\ tag \subseteq Granules

\* Every call a script still makes has such arguments, and every capability
\* it stores goes to a granule.
StepRecords ==
  [op : {"copy"}, fn : Fns, to : {1, 2}, d : Nat, from : {1, 2}, s : Nat, n : Nat]
    \cup [op : {"check"}, t : {1, 2}, start : Nat, end : Nat]
    \cup [op : {"invalidate", "shifted", "fill"}, t : {1, 2}]
    \cup [op : {"sety"}, t : {1, 2}, x : {1, 2}]
    \cup [op : {"digits", "checkdigits"}]
StepOK(q) ==
  /\ q.op = "copy" => ArgsOK(q.fn, base[q.to] + q.d, base[q.from] + q.s, q.n)
  /\ q.op \in {"invalidate", "fill"} => base[q.t] \in Int
  /\ q.op = "sety" => base[q.t] + Y \in Granules /\ base[q.x] \in Int
Steps == {q \in StepRecords : StepOK(q)}

CopyInv == BuildOK /\ MemoryOK /\ script \in Seq(Steps) /\ RoutineInv

-----------------------------------------------------------------------------

\* Multiples of m, and the remainder on division by it.
LEMMA Multiples ==
  ASSUME NEW m \in Nat \ {0}, NEW x \in Int, NEW y \in Int, x % m = 0, y % m = 0
  PROVE  /\ (x + y) % m = 0
         /\ (x - y) % m = 0
         /\ x < y => x + m <= y
<1>1. x = m * (x \div m) /\ y = m * (y \div m) /\ x \div m \in Int /\ y \div m \in Int
  OBVIOUS
<1>2. ASSUME NEW k \in Int PROVE (m * k) % m = 0
  BY <1>2
<1>3. x + y = m * ((x \div m) + (y \div m)) /\ x - y = m * ((x \div m) - (y \div m))
  BY <1>1
<1>4. (x + y) % m = 0 /\ (x - y) % m = 0
  <2>1. (x \div m) + (y \div m) \in Int /\ (x \div m) - (y \div m) \in Int
    BY <1>1
  <2> QED BY <1>2, <1>3, <2>1
<1>5. ASSUME x < y PROVE x + m <= y
  <2>1. (y \div m) - (x \div m) > 0
    <3> SUFFICES ASSUME (y \div m) - (x \div m) <= 0 PROVE FALSE
      BY <1>1
    <3>1. m * ((y \div m) - (x \div m)) <= 0
      BY <1>1
    <3>2. y - x = m * ((y \div m) - (x \div m))
      BY <1>1
    <3> QED BY <1>5, <3>1, <3>2
  <2>2. m * ((y \div m) - (x \div m)) >= m
    BY <1>1, <2>1
  <2>3. y - x = m * ((y \div m) - (x \div m))
    BY <1>1
  <2> QED BY <2>2, <2>3
<1> QED BY <1>4, <1>5

\* Multiples: their sum,
LEMMA MultipleSum ==
  ASSUME NEW m \in Nat \ {0}, NEW x \in Int, NEW y \in Int, x % m = 0, y % m = 0
  PROVE  (x + y) % m = 0
BY Multiples

\* ... their difference,
LEMMA MultipleDifference ==
  ASSUME NEW m \in Nat \ {0}, NEW x \in Int, NEW y \in Int, x % m = 0, y % m = 0
  PROVE  (x - y) % m = 0
BY Multiples

\* ... and the least distance of two.
LEMMA MultipleGap ==
  ASSUME NEW m \in Nat \ {0}, NEW x \in Int, NEW y \in Int, x % m = 0, y % m = 0, x < y
  PROVE  x + m <= y
BY Multiples

\* Division with remainder, for a dividend of either sign.
LEMMA Remainder ==
  ASSUME NEW m \in Nat \ {0}, NEW x \in Int
  PROVE  /\ x % m \in 0 .. m - 1
         /\ (x - (x % m)) % m = 0
         /\ x \div m \in Int
         /\ x = (x \div m) * m + (x % m)
         /\ x >= 0 => x \div m \in Nat
         /\ 0 <= x /\ x < m => x \div m = 0 /\ x % m = x
<1>1. x % m \in 0 .. m - 1 /\ x \div m \in Int /\ x = m * (x \div m) + (x % m)
  OBVIOUS
<1>2. m * (x \div m) = (x \div m) * m
  BY <1>1
<1>3. ASSUME NEW k \in Int PROVE (m * k) % m = 0
  BY <1>3
<1>4. x - (x % m) = m * (x \div m)
  BY <1>1
<1>5. (x - (x % m)) % m = 0
  BY <1>1, <1>3, <1>4
<1>6. ASSUME x >= 0 PROVE x \div m \in Nat
  BY <1>6, <1>1
<1>7. ASSUME 0 <= x, x < m PROVE x \div m = 0 /\ x % m = x
  BY <1>7
<1> QED BY <1>1, <1>2, <1>5, <1>6, <1>7

\* A product is a multiple of its factor.
LEMMA Product ==
  ASSUME NEW m \in Nat \ {0}, NEW k \in Int
  PROVE  (k * m) \in Int /\ (k * m) % m = 0 /\ k * m = m * k /\ (k - 1) * m = k * m - m
<1>1. (m * k) % m = 0 /\ k * m = m * k
  OBVIOUS
<1> QED BY <1>1

\* Equal remainders, and a difference that is a multiple.
LEMMA Congruent ==
  ASSUME NEW m \in Nat \ {0}, NEW x \in Int, NEW y \in Int
  PROVE  x % m = y % m <=> (x - y) % m = 0
<1> DEFINE p == x % m
           q == y % m
           a == x - p
           b == y - q
<1>1. p \in 0 .. m - 1 /\ q \in 0 .. m - 1 /\ a \in Int /\ b \in Int
  BY Remainder
<1>2. a % m = 0 /\ b % m = 0 /\ 0 % m = 0
  <2>1. a % m = 0
    BY Remainder
  <2>2. b % m = 0
    BY Remainder
  <2>3. 0 % m = 0
    OBVIOUS
  <2> QED BY <2>1, <2>2, <2>3
<1>3. x - y = (a - b) + (p - q)
  BY <1>1
<1> HIDE DEF p, q, a, b
<1>4. (a - b) % m = 0
  BY <1>1, <1>2, Multiples
<1>5. ASSUME p = q PROVE (x - y) % m = 0
  <2>1. x - y = a - b
    BY <1>1, <1>3, <1>5
  <2> QED BY <1>4, <2>1
<1>6. ASSUME (x - y) % m = 0 PROVE p = q
  <2>1. ((x - y) - (a - b)) % m = 0
    <3>1. x - y \in Int /\ a - b \in Int
      BY <1>1
    <3> QED BY <1>4, <1>6, <3>1, Multiples
  <2>2. (x - y) - (a - b) = p - q
    BY <1>1, <1>3
  <2>3. (p - q) % m = 0 /\ p - q \in Int
    BY <1>1, <2>1, <2>2
  <2>4. ~(0 < p - q) /\ ~(p - q < 0)
    <3>1. 0 < p - q => 0 + m <= p - q
      BY <1>2, <2>3, Multiples
    <3>2. p - q < 0 => p - q + m <= 0
      BY <1>2, <2>3, Multiples
    <3> QED BY <1>1, <3>1, <3>2
  <2> QED BY <1>1, <2>4
<1> QED BY <1>5, <1>6 DEF p, q

\* Multiples of a multiple of w are multiples of w.
LEMMA Coarser ==
  ASSUME NEW w \in Nat \ {0}, NEW p \in Nat \ {0}, p % w = 0, NEW x \in Int, x % p = 0
  PROVE  x % w = 0
<1>1. p = w * (p \div w) /\ p \div w \in Int /\ x = p * (x \div p) /\ x \div p \in Int
  OBVIOUS
<1> DEFINE k == p \div w
           j == x \div p
<1>2. x = w * (k * j) /\ k * j \in Int
  <2>1. k \in Int /\ j \in Int /\ p = w * k /\ x = p * j
    BY <1>1
  <2> HIDE DEF k, j
  <2>2. x = (w * k) * j
    BY <2>1
  <2>3. (w * k) * j = w * (k * j)
    BY <2>1
  <2> QED BY <2>1, <2>2, <2>3
<1>3. ASSUME NEW i \in Int PROVE (w * i) % w = 0
  BY <1>3
<1> QED BY <1>2, <1>3

\* What is left of a multiple of w when multiples of p are taken away.
LEMMA CoarserRemainder ==
  ASSUME NEW w \in Nat \ {0}, NEW p \in Nat \ {0}, p % w = 0, NEW x \in Int, x % w = 0
  PROVE  (x % p) % w = 0 /\ w <= p
<1> DEFINE r == x % p
           a == x - r
<1>1. r \in Int /\ a \in Int /\ a % p = 0 /\ r = x - a
  <2>1. r \in Int
    BY Remainder
  <2>2. a % p = 0
    BY Remainder
  <2> QED BY <2>1, <2>2
<1> HIDE DEF r, a
<1>2. a % w = 0
  BY <1>1, Coarser
<1>3. (x - a) % w = 0
  BY <1>1, <1>2, Multiples
<1>4. 0 % w = 0
  BY Remainder
<1>5. w <= p
  BY <1>4, Multiples
<1> QED BY <1>1, <1>3, <1>5 DEF r

\* A boundary less than m above d lies below every multiple of m from d on,
\* and one less than m below e above every multiple of m up to e.
LEMMA BoundaryAbove ==
  ASSUME NEW m \in Nat \ {0}, NEW b \in Int, b % m = 0, NEW x \in Int, x % m = 0,
         NEW d \in Int, b - d < m, d <= x
  PROVE  b <= x
<1>1. x < b => x + m <= b
  BY MultipleGap
<1> QED BY <1>1

\* A boundary at most e is at most b, the last one before e.
LEMMA BoundaryBelow ==
  ASSUME NEW m \in Nat \ {0}, NEW b \in Int, b % m = 0, NEW x \in Int, x % m = 0,
         NEW e \in Int, e - b < m, x <= e
  PROVE  x <= b
<1>1. b < x => b + m <= x
  BY MultipleGap
<1> QED BY <1>1

-----------------------------------------------------------------------------

\* What depends on the call and the build alone.
LEMMA Frame ==
  ASSUME UNCHANGED <<call, test, sizes>>
  PROVE  /\ D' = D /\ S' = S /\ Length' = Length /\ W' = W /\ P' = P
         /\ Up' = Up /\ Memory' = Memory /\ Granules' = Granules /\ Size' = Size
BY DEF D, S, Length, W, P, Up, handle_overlap, Memory, Granules, Size, Sizeof

\* The sizes of a build.
LEMMA BuildFacts ==
  ASSUME BuildOK
  PROVE  /\ sizes[1] \in Nat \ {0} /\ sizes[2] \in Nat \ {0} /\ sizes[2] % sizes[1] = 0
         /\ Size \in Nat /\ Sizeof \in Nat /\ Sizeof = 64 + sizes[2]
<1>1. sizes[1] \in Nat \ {0} /\ sizes[2] \in Nat \ {0} /\ sizes[2] % sizes[1] = 0
  BY DEF BuildOK
<1>2. MaxCaps * sizes[2] \in Nat /\ CallWord \in Nat
  BY <1>1, CopyTestsAssumption
<1> QED BY <1>1, <1>2 DEF Size, Sizeof, Pad

\* What a call knows: its sizes, and that the direction is safe.
LEMMA CallFacts ==
  ASSUME BuildOK, CallOK
  PROVE  /\ W \in Nat \ {0} /\ P \in Nat \ {0} /\ P % W = 0 /\ W <= P
         /\ D \in Nat /\ S \in Nat /\ Length \in Nat /\ Size \in Nat
         /\ D + Length <= Size /\ S + Length <= Size
         /\ Up /\ S # D => D < S \/ D + Length <= S \/ S + Length <= D
         /\ ~Up /\ S # D => S < D
<1>1. W \in Nat \ {0} /\ P \in Nat \ {0} /\ P % W = 0 /\ Size \in Nat
  BY BuildFacts DEF CallOK
<1>2. W <= P
  BY <1>1, CoarserRemainder
<1>3. /\ D \in Nat /\ S \in Nat /\ Length \in Nat
      /\ D + Length <= Size /\ S + Length <= Size
  BY DEF CallOK, ArgsOK
<1>4. Up /\ S # D => D < S \/ D + Length <= S \/ S + Length <= D
  BY DEF CallOK, ArgsOK, Disjoint, Up, handle_overlap, D, S, Fns, Length
<1>5. ~Up /\ S # D => S < D
  BY <1>3 DEF Up, D, S
<1> QED BY <1>1, <1>2, <1>3, <1>4, <1>5

\* A unit fits whole capabilities.
LEMMA UnitFacts ==
  ASSUME BuildOK, CallOK, NEW u \in {1, W, P}
  PROVE  u \in Nat \ {0} /\ P % u = 0 /\ u <= P
<1>1. W \in Nat \ {0} /\ P \in Nat \ {0} /\ P % W = 0 /\ W <= P
  BY CallFacts
<1>2. P % 1 = 0 /\ P % P = 0
  BY <1>1
<1> QED BY <1>1, <1>2

\* A loop is set up over k units: nothing is written yet, and both pointers
\* have moved over all of them.
LEMMA LoopStart ==
  ASSUME BuildOK, CallOK, Working, loop = NoLoop,
         NEW k \in Nat \ {0}, NEW u \in {1, W, P}, MipsLoop(k, u), On(u), k * u <= Todo,
         u # P => \A g \in Memory : Whole(g) =>
           IF Up THEN g + P <= dst \/ dst + k * u <= g
                 ELSE g + P <= dst - k * u \/ dst <= g,
         len' \in Nat, UNCHANGED <<mem, tag, call, old, test, sizes>>
  PROVE  /\ Working'
         /\ Todo' = Todo - k * u
         /\ dst' = IF Up THEN dst + k * u ELSE dst - k * u
         /\ src' = IF Up THEN src + k * u ELSE src - k * u
         /\ dst' % u = 0 /\ src' % u = 0
<1> DEFINE n == k * u
<1>1. /\ D \in Nat /\ S \in Nat /\ Length \in Nat /\ dst \in Int /\ src \in Int
      /\ u \in Nat \ {0} /\ src - S = dst - D /\ Todo >= 0 /\ From <= To /\ D <= From
      /\ To <= D + Length
  BY CallFacts, UnitFacts DEF Working, PointersInv
<1>2. n \in Nat /\ n >= u /\ n % u = 0 /\ (k - 1) * u = n - u
  <2>1. n \in Int /\ n % u = 0 /\ (k - 1) * u = n - u
    BY <1>1, Product
  <2>2. (k - 1) * u >= 0
    BY <1>1
  <2> QED BY <1>1, <2>1, <2>2
<1>3. /\ D' = D /\ S' = S /\ Length' = Length /\ W' = W /\ P' = P
      /\ Up' = Up /\ Memory' = Memory /\ Granules' = Granules
  BY Frame
<1>4. /\ dst' = IF Up THEN dst + n ELSE dst - n
      /\ src' = IF Up THEN src + n ELSE src - n
      /\ loop' = IF Up THEN [unit |-> u, t |-> -n, last |-> -u, inc |-> u]
                 ELSE [unit |-> u, t |-> n - u, last |-> 0, inc |-> -u]
  BY <1>2 DEF MipsLoop, MipsLoopUp, MipsLoopDown
<1> HIDE DEF n
<1>5. Cursor = dst /\ Cursor' = dst
  BY <1>1, <1>2, <1>3, <1>4 DEF Cursor, NoLoop
<1>6. From' = From /\ To' = To
  BY <1>3, <1>5 DEF From, To
<1>7. Todo' = Todo - n /\ n <= Todo
  BY <1>1, <1>2, <1>3, <1>4 DEF Todo, n
<1>8. PointersInv'
  BY <1>1, <1>2, <1>3, <1>4, <1>6, <1>7 DEF PointersInv, Todo
<1>9. BytesInv' /\ TagsInv'
  BY <1>3, <1>6 DEF Working, BytesInv, TagsInv, Written, Meets
<1>11. dst' % u = 0 /\ src' % u = 0
  <2>1. dst % u = 0 /\ src % u = 0
    BY DEF On
  <2>2. dst \in Int /\ src \in Int /\ n \in Int /\ u \in Nat \ {0} /\ n % u = 0
    BY <1>1, <1>2
  <2>3. (dst + n) % u = 0 /\ (src + n) % u = 0
    BY <2>1, <2>2, MultipleSum
  <2>4. (dst - n) % u = 0 /\ (src - n) % u = 0
    BY <2>1, <2>2, MultipleDifference
  <2> QED BY <1>4, <2>3, <2>4
<1>10. LoopInv'
  <2>2. (-n) % u = 0 /\ (n - u) % u = 0
    <3>1. 0 % u = 0 /\ u % u = 0
      BY <1>1
    <3>2. (0 - n) % u = 0 /\ (n - u) % u = 0
      BY <1>1, <1>2, <3>1, Multiples
    <3> QED BY <1>2, <3>2
  <2>3. ASSUME u # P, NEW g \in Memory, Whole(g)
        PROVE  IF Up THEN g + P <= dst \/ dst + n <= g ELSE g + P <= dst - n \/ dst <= g
    BY <2>3 DEF n
  <2>4. u # P => \A g \in Memory : Whole(g) =>
          g + P <= LoopFrom' \/ LoopTo' <= g
    BY <1>3, <1>4, <1>5, <2>3 DEF LoopFrom, LoopTo
  <2>5. \A g : Whole(g)' = Whole(g)
    BY <1>3 DEF Whole
  <2> QED BY <1>1, <1>2, <1>3, <1>4, <1>11, <2>2, <2>4, <2>5 DEF LoopInv
<1> QED BY <1>3, <1>4, <1>7, <1>8, <1>9, <1>10, <1>11 DEF Working, n

\* A turn of a loop: the accesses are in bounds and aligned, the unit that is
\* read has not been written to, and what is written grows by the unit.
LEMMA TurnWorks ==
  ASSUME BuildOK, MemoryOK, CallOK, Working, Turn, UNCHANGED <<test, sizes>>
  PROVE  /\ Working' /\ MemoryOK' /\ UNCHANGED <<pc, dst>>
         /\ \A a \in Memory \ (D .. D + Length - 1) : mem'[a] = mem[a]
         /\ \E d \in D .. D + Length - 1 : \A a : a # d - (d % P) => (a \in tag' <=> a \in tag)
<1> DEFINE u == loop.unit
           t == loop.t
           d == dst + t
           s == src + t
<1>0. loop # NoLoop /\ UNCHANGED <<call, dst, src, len, old>>
  BY DEF Turn
<1>1. /\ u \in {1, W, P} /\ t \in Int /\ t % u = 0 /\ dst % u = 0 /\ src % u = 0
      /\ loop = [unit |-> u, t |-> t, last |-> loop.last, inc |-> loop.inc]
      /\ IF Up THEN t < 0 /\ loop.last = -u /\ loop.inc = u
               ELSE t >= 0 /\ loop.last = 0 /\ loop.inc = -u
      /\ u # P => \A g \in Memory : Whole(g) => g + P <= LoopFrom \/ LoopTo <= g
  BY <1>0 DEF Working, LoopInv
<1>2. /\ W \in Nat \ {0} /\ P \in Nat \ {0} /\ D \in Nat /\ S \in Nat /\ Length \in Nat
      /\ Size \in Nat /\ D + Length <= Size /\ S + Length <= Size
      /\ Up => D < S \/ D + Length <= S \/ S + Length <= D
      /\ ~Up => S < D
  BY CallFacts DEF Working
<1>3. u \in Nat \ {0} /\ P % u = 0 /\ u <= P
  BY <1>1, UnitFacts
<1>4. /\ dst \in Int /\ src \in Int /\ len \in Nat /\ src - S = dst - D
      /\ Todo >= 0 /\ From <= To /\ D <= From /\ To <= D + Length
  BY DEF Working, PointersInv
<1>5. /\ D' = D /\ S' = S /\ Length' = Length /\ W' = W /\ P' = P
      /\ Up' = Up /\ Memory' = Memory /\ Granules' = Granules
  BY <1>0, Frame
<1>6. mem \in [Memory -> Int] /\ Memory = 0 .. Size - 1 /\ tag \subseteq Granules
  BY DEF MemoryOK, Memory
<1>7. 0 % u = 0 /\ u % u = 0
  BY <1>3
<1>8. /\ Up => t + u <= 0 /\ Cursor = d
      /\ ~Up => (t # 0 => u <= t) /\ Cursor = d + u
  <2>1. t < 0 => t + u <= 0
    BY <1>1, <1>3, <1>7, MultipleGap
  <2>2. 0 < t => 0 + u <= t
    <3>1. t \in Int /\ t % u = 0
      BY <1>1
    <3> HIDE DEF t, u
    <3> QED BY <1>3, <1>7, <3>1, MultipleGap
  <2> QED BY <1>1, <1>3, <1>4, <2>1, <2>2 DEF Cursor
<1>9. d \in Int /\ s \in Int /\ d % u = 0 /\ s % u = 0 /\ s - S = d - D
  <2>1. d % u = 0
    BY <1>1, <1>3, <1>4, Multiples
  <2>2. s % u = 0
    BY <1>1, <1>3, <1>4, Multiples
  <2> QED BY <1>1, <1>2, <1>4, <2>1, <2>2
<1> HIDE DEF u, t, d, s
<1>10. /\ D <= d /\ d + u <= D + Length /\ S <= s /\ s + u <= S + Length
       /\ LoopFrom <= d /\ d + u <= LoopTo
  BY <1>1, <1>2, <1>3, <1>4, <1>8, <1>9 DEF From, To, Todo, LoopFrom, LoopTo, d
<1>11. /\ Accessible(d, u, Bounds(call.dst0))
       /\ Accessible(s, u, Bounds(call.src0))
  <2>1. ASSUME NEW a \in d .. d + u - 1 PROVE a \in Bounds(call.dst0)
    <3>1. a \in DOMAIN mem /\ D <= a /\ a < D + Length
      BY <1>2, <1>3, <1>6, <1>9, <1>10
    <3> QED BY <3>1 DEF Bounds, D, Length
  <2>2. ASSUME NEW a \in s .. s + u - 1 PROVE a \in Bounds(call.src0)
    <3>1. a \in DOMAIN mem /\ S <= a /\ a < S + Length
      BY <1>2, <1>3, <1>6, <1>9, <1>10
    <3> QED BY <3>1 DEF Bounds, S, Length
  <2> QED BY <1>9, <2>1, <2>2 DEF Accessible
<1>12. /\ Move(d, s, u) /\ UNCHANGED pc
       /\ loop' = IF loop.t = loop.last THEN NoLoop ELSE [loop EXCEPT !.t = @ + loop.inc]
  BY <1>11 DEF Turn, AtLast, d, s, t, u
<1>13. Cursor' = IF Up THEN d + u ELSE d
  <2>1. CASE loop.t = loop.last
    <3>1. Cursor' = dst
      BY <1>0, <1>4, <1>12, <2>1 DEF Cursor, NoLoop
    <3> QED BY <1>1, <1>3, <1>4, <2>1, <3>1 DEF d, t
  <2>2. CASE loop.t # loop.last
    <3>1. loop' = [unit |-> u, t |-> t + loop.inc, last |-> loop.last, inc |-> loop.inc]
      BY <1>1, <1>12, <2>2 DEF t
    <3> QED BY <1>0, <1>1, <1>3, <1>4, <1>5, <3>1 DEF Cursor, d
  <2> QED BY <2>1, <2>2
<1>14. /\ From' = IF Up THEN D ELSE d
       /\ To' = IF Up THEN d + u ELSE D + Length
       /\ From = IF Up THEN D ELSE d + u
       /\ To = IF Up THEN d ELSE D + Length
  BY <1>5, <1>8, <1>13 DEF From, To
<1>15. PointersInv'
  <2>1. Todo' = Todo
    BY <1>0, <1>5 DEF Todo
  <2> QED BY <1>0, <1>2, <1>3, <1>4, <1>5, <1>9, <1>10, <1>14, <2>1 DEF PointersInv
<1>16. LoopInv'
  <2>1. CASE loop.t = loop.last
    BY <1>12, <2>1 DEF LoopInv
  <2>2. CASE loop.t # loop.last
    <3>1. loop' = [unit |-> u, t |-> t + loop.inc, last |-> loop.last, inc |-> loop.inc]
      BY <1>1, <1>12, <2>2 DEF t
    <3>2. (t + loop.inc) % u = 0 /\ t + loop.inc \in Int
      <4>1. (t + u) % u = 0 /\ (t - u) % u = 0
        BY <1>1, <1>3, <1>7, Multiples
      <4> QED BY <1>1, <1>3, <4>1
    <3>3. IF Up THEN t + loop.inc < 0 ELSE t + loop.inc >= 0
      BY <1>1, <1>3, <1>8, <2>2 DEF t
    <3>4. LoopFrom <= LoopFrom' /\ LoopTo' <= LoopTo /\ LoopFrom' \in Int /\ LoopTo' \in Int
          /\ LoopFrom \in Int /\ LoopTo \in Int
      BY <1>0, <1>3, <1>4, <1>5, <1>8, <1>9, <1>13 DEF LoopFrom, LoopTo
    <3>5. u # P => \A g \in Memory : Whole(g)' => g + P <= LoopFrom' \/ LoopTo' <= g
      <4> SUFFICES ASSUME u # P, NEW g \in Memory, Whole(g)'
                   PROVE  g + P <= LoopFrom' \/ LoopTo' <= g
        OBVIOUS
      <4>1. Whole(g) /\ g \in Int
        BY <1>2, <1>5 DEF Whole, Memory
      <4>2. g + P <= LoopFrom \/ LoopTo <= g
        BY <1>1, <4>1
      <4> QED BY <1>2, <3>4, <4>1, <4>2
    <3> QED BY <1>0, <1>1, <1>5, <3>1, <3>2, <3>3, <3>5 DEF LoopInv
  <2> QED BY <2>1, <2>2
<1>17. ASSUME NEW a \in Int
       PROVE  Written(a)' <=> Written(a) \/ (d <= a /\ a < d + u)
  BY <1>2, <1>3, <1>9, <1>10, <1>14 DEF Written
<1>18. ASSUME NEW a \in Int, s <= a, a < s + u
       PROVE  ~Written(a) /\ a \in Memory /\ mem[a] = old.mem[a]
  <2>1. ~Written(a)
    BY <1>2, <1>3, <1>9, <1>10, <1>14, <1>18 DEF Written
  <2>2. a \in Memory
    BY <1>2, <1>3, <1>6, <1>9, <1>10, <1>18
  <2> QED BY <2>1, <2>2 DEF Working, BytesInv
<1>19. mem' = [a \in Memory |-> IF d <= a /\ a < d + u THEN mem[s + (a - d)] ELSE mem[a]]
  BY <1>6, <1>12 DEF Move
<1>20. BytesInv'
  <2>1. ASSUME NEW a \in Memory
        PROVE  mem'[a] = IF Written(a)' THEN old.mem[S + (a - D)] ELSE old.mem[a]
    <3>0. a \in Int
      BY <1>6
    <3>1. CASE d <= a /\ a < d + u
      <4>1. s + (a - d) = S + (a - D) /\ s + (a - d) \in Int
            /\ s <= s + (a - d) /\ s + (a - d) < s + u
        BY <1>2, <1>3, <1>9, <3>0, <3>1
      <4>2. mem[s + (a - d)] = old.mem[s + (a - d)]
        BY <1>18, <4>1
      <4> QED BY <1>17, <1>19, <3>0, <3>1, <4>1, <4>2
    <3>2. CASE ~(d <= a /\ a < d + u)
      <4>1. Written(a)' <=> Written(a)
        BY <1>17, <3>0, <3>2
      <4>2. mem'[a] = mem[a]
        BY <1>19, <3>2
      <4> QED BY <4>1, <4>2 DEF Working, BytesInv
    <3> QED BY <3>1, <3>2
  <2>2. mem' = [a \in Memory |-> IF Written(a)' THEN old.mem[S + (a - D)] ELSE old.mem[a]]
    BY <1>19, <2>1
  <2> QED BY <1>0, <1>5, <2>2 DEF BytesInv, Written
<1>21. mem' \in [Memory -> Int]
  <2>1. ASSUME NEW a \in Memory PROVE mem'[a] \in Int
    <3>1. CASE d <= a /\ a < d + u
      <4>1. s + (a - d) \in Memory
        BY <1>2, <1>3, <1>6, <1>9, <1>10, <3>1
      <4> QED BY <1>6, <1>19, <3>1, <4>1
    <3>2. CASE ~(d <= a /\ a < d + u)
      BY <1>6, <1>19, <3>2
    <3> QED BY <3>1, <3>2
  <2> QED BY <1>19, <2>1
<1>22. d - (d % P) \in Int
  BY <1>2, <1>9, Remainder
<1>23. PICK g \in Int : g = d - (d % P)
  BY <1>22
<1>24. g % P = 0 /\ g <= d /\ d < g + P /\ d + u <= g + P
  <2>1. d % P \in 0 .. P - 1
    BY <1>2, <1>9, Remainder
  <2>2. g % P = 0
    BY <1>2, <1>9, <1>23, Remainder
  <2>3. g <= d /\ d < g + P
    BY <1>2, <1>9, <1>23, <2>1
  <2>4. (g + P) % u = 0
    <3>1. P \in Nat \ {0} /\ P % u = 0
      BY <1>2, <1>3
    <3>2. g % u = 0
      BY <1>3, <2>2, <3>1, Coarser
    <3>3. ASSUME NEW p \in Int, p % u = 0 PROVE (g + p) % u = 0
      BY <1>3, <3>2, <3>3, MultipleSum
    <3> QED BY <3>1, <3>3
  <2>5. g + P \in Int
    BY <1>2
  <2> QED BY <1>3, <1>9, <2>2, <2>3, <2>4, <2>5, MultipleGap
<1>25. tag' = (tag \ {g}) \cup (IF u = P /\ s \in tag THEN {d} ELSE {})
  BY <1>12, <1>23 DEF Move
<1>26. u = P => d = g
  BY <1>9, <1>23
<1>27. ASSUME NEW a \in Granules, a # g
       PROVE  (Meets(a)' <=> Meets(a)) /\ (a \in tag' <=> a \in tag)
  <2>1. a \in Int /\ a % P = 0
    BY <1>2, <1>6 DEF Granules, CallOK
  <2>2. a + P <= g \/ g + P <= a
    <3>1. a < g => a + P <= g
      BY <1>2, <1>24, <2>1, Multiples
    <3>2. g < a => g + P <= a
      BY <1>2, <1>24, <2>1, Multiples
    <3> QED BY <1>24, <1>27, <2>1, <3>1, <3>2
  <2>3. a + P <= d \/ d + u <= a
    BY <1>2, <1>3, <1>9, <1>24, <2>1, <2>2
  <2>4. Meets(a)' <=> Meets(a)
    BY <1>2, <1>3, <1>4, <1>5, <1>9, <1>10, <1>14, <2>1, <2>3 DEF Meets
  <2>5. a \in tag' <=> a \in tag
    BY <1>25, <1>26, <1>27
  <2> QED BY <2>4, <2>5
<1>28. g \in Granules =>
         (g \in tag' <=> D <= g /\ g + P <= D + Length /\ S + (g - D) \in old.tag)
  <2>1. CASE u = P
    <3>1. s % P = 0 /\ s \in Granules
      <4>1. s % P = 0
        BY <1>9, <2>1
      <4>2. s \in Memory
        BY <1>2, <1>3, <1>6, <1>9, <1>10
      <4> QED BY <4>1, <4>2 DEF Granules, CallOK
    <3>2. ~Meets(s)
      BY <1>2, <1>3, <1>9, <1>10, <1>14, <2>1 DEF Meets
    <3>3. s \in tag <=> s \in old.tag
      BY <3>1, <3>2 DEF Working, TagsInv
    <3>4. S + (g - D) = s
      BY <1>2, <1>9, <1>26, <2>1
    <3> QED BY <1>10, <1>25, <1>26, <2>1, <3>3, <3>4
  <2>2. CASE u # P
    <3>1. g \notin tag'
      BY <1>25, <2>2
    <3>2. ASSUME g \in Granules, D <= g, g + P <= D + Length, S + (g - D) \in old.tag
          PROVE  FALSE
      <4>1. (S + (g - D)) % P = 0 /\ S + (g - D) \in Int /\ g \in Memory
        BY <1>2, <1>24, <3>2 DEF CallOK, Granules
      <4>2. ((S + (g - D)) - g) % P = 0
        BY <1>2, <1>24, <4>1, Multiples
      <4>3. (S + (g - D)) - g = S - D
        BY <1>2, <1>24
      <4>4. Whole(g)
        BY <1>24, <3>2, <4>2, <4>3 DEF Whole
      <4>5. g + P <= LoopFrom \/ LoopTo <= g
        BY <1>1, <2>2, <4>1, <4>4
      <4>6. LoopFrom \in Int /\ LoopTo \in Int
        BY <1>3, <1>4, <1>8, <1>9 DEF LoopFrom, LoopTo
      <4> QED BY <1>2, <1>3, <1>9, <1>10, <1>24, <4>5, <4>6
    <3> QED BY <3>1, <3>2
  <2> QED BY <2>1, <2>2
<1>29. Meets(g)'
  <2>1. From' <= d /\ d + u <= To' /\ From' \in Int /\ To' \in Int
    BY <1>2, <1>3, <1>9, <1>10, <1>14
  <2>2. From' < To' /\ g < To' /\ From' < g + P
    BY <1>2, <1>3, <1>9, <1>24, <2>1
  <2> QED BY <1>5, <2>2 DEF Meets
<1>30. TagsInv'
  <2>1. ASSUME NEW a \in Granules
        PROVE  a \in tag' <=> IF Meets(a)'
                  THEN D <= a /\ a + P <= D + Length /\ S + (a - D) \in old.tag
                  ELSE a \in old.tag
    <3>1. CASE a = g
      BY <1>28, <1>29, <3>1
    <3>2. CASE a # g
      BY <1>27, <3>2 DEF Working, TagsInv
    <3> QED BY <3>1, <3>2
  <2> QED BY <1>0, <1>5, <2>1 DEF TagsInv, Meets
<1>31. tag' \subseteq Granules
  <2>1. u = P => d \in Granules
    <3>1. d \in Memory
      BY <1>2, <1>3, <1>6, <1>9, <1>10
    <3> QED BY <1>9, <3>1 DEF Granules, CallOK
  <2> QED BY <1>6, <1>25, <2>1
<1>32. ASSUME NEW a \in Memory \ (D .. D + Length - 1) PROVE mem'[a] = mem[a]
  <2>1. a \in Int /\ ~(d <= a /\ a < d + u)
    BY <1>2, <1>3, <1>6, <1>9, <1>10
  <2> QED BY <1>19, <2>1
<1>33. /\ d \in D .. D + Length - 1
       /\ \A a : a # d - (d % P) => (a \in tag' <=> a \in tag)
  <2>1. d \in D .. D + Length - 1
    BY <1>2, <1>3, <1>9, <1>10
  <2>2. \A a : a # g => (a \in tag' <=> a \in tag)
    BY <1>25, <1>26
  <2> QED BY <1>23, <2>1, <2>2
<1>34. Working' /\ MemoryOK' /\ UNCHANGED <<pc, dst>>
  BY <1>0, <1>5, <1>12, <1>15, <1>16, <1>20, <1>21, <1>30, <1>31 DEF Working, MemoryOK
<1> QED BY <1>32, <1>33, <1>34

\* The bounds of a whole granule are boundaries of words and capabilities.
LEMMA WholeFacts ==
  ASSUME BuildOK, CallOK, NEW g \in Memory, Whole(g), NEW m \in {W, P}
  PROVE  /\ g \in Int /\ g + P \in Int /\ D <= g /\ g + P <= D + Length
         /\ g % m = 0 /\ (g + P) % m = 0 /\ (S - D) % m = 0
<1>1. /\ W \in Nat \ {0} /\ P \in Nat \ {0} /\ P % W = 0 /\ P % P = 0
      /\ D \in Nat /\ S \in Nat /\ Size \in Nat
  BY CallFacts
<1>2. /\ g \in Int /\ g % P = 0 /\ (S - D) % P = 0 /\ S - D \in Int /\ g + P \in Int
      /\ D <= g /\ g + P <= D + Length
  BY <1>1 DEF Memory, Whole
<1>3. g % W = 0 /\ (S - D) % W = 0
  BY <1>1, <1>2, Coarser
<1>4. ASSUME NEW q \in Nat \ {0}, NEW p \in Int, p % q = 0, g % q = 0 PROVE (g + p) % q = 0
  BY <1>2, <1>4, MultipleSum
<1>5. (g + P) % W = 0
  BY <1>1, <1>3, <1>4
<1>6. (g + P) % P = 0
  <2>1. ASSUME NEW q \in Nat \ {0}, g % q = 0 PROVE (g + q) % q = 0
    <3>1. q % q = 0 /\ q \in Int
      OBVIOUS
    <3> QED BY <1>4, <2>1, <3>1
  <2> QED BY <1>1, <1>2, <2>1
<1> QED BY <1>2, <1>3, <1>5, <1>6

\* A phase that sets up no loop.
LEMMA NoLoopStart ==
  ASSUME Working, UNCHANGED <<mem, tag, call, old, test, sizes, dst, src, len, loop>>
  PROVE  Working' /\ Todo' = Todo /\ \A m : On(m)' = On(m)
<1>1. /\ D' = D /\ S' = S /\ Length' = Length /\ W' = W /\ P' = P
      /\ Up' = Up /\ Memory' = Memory /\ Granules' = Granules
  BY Frame
<1>2. Cursor' = Cursor /\ Todo' = Todo
  BY <1>1 DEF Cursor, Todo
<1>3. From' = From /\ To' = To /\ LoopFrom' = LoopFrom /\ LoopTo' = LoopTo
  BY <1>1, <1>2 DEF From, To, LoopFrom, LoopTo
<1>4. LoopInv'
  BY <1>1, <1>3 DEF Working, LoopInv, Whole
<1>5. PointersInv'
  BY <1>1, <1>2, <1>3 DEF Working, PointersInv
<1>6. BytesInv' /\ TagsInv'
  BY <1>1, <1>3 DEF Working, BytesInv, TagsInv, Written, Meets
<1> QED BY <1>1, <1>2, <1>4, <1>5, <1>6 DEF Working, On

\* The pointers at the start of a phase.
LEMMA PhaseFacts ==
  ASSUME BuildOK, CallOK, Working
  PROVE  /\ W \in Nat \ {0} /\ P \in Nat \ {0} /\ P % W = 0 /\ W <= P
         /\ D \in Nat /\ S \in Nat /\ Length \in Nat /\ Length > 0
         /\ dst \in Int /\ src \in Int /\ len \in Nat /\ src - dst = S - D
         /\ Todo >= 0 /\ (Up => dst + Todo = D + Length) /\ (~Up => dst - Todo = D)
<1>1. /\ W \in Nat \ {0} /\ P \in Nat \ {0} /\ P % W = 0 /\ W <= P
      /\ D \in Nat /\ S \in Nat /\ Length \in Nat
  BY CallFacts
<1>2. dst \in Int /\ src \in Int /\ len \in Nat /\ src - S = dst - D /\ Todo >= 0
  BY DEF Working, PointersInv
<1> QED BY <1>1, <1>2 DEF Todo, Working

\* Moving both pointers to the boundary above or below.
LEMMA ToBoundary ==
  ASSUME NEW m \in Nat \ {0}, NEW x \in Int, NEW y \in Int, x % m = y % m
  PROVE  /\ (x + (m - (y % m))) % m = 0
         /\ (x - (y % m)) % m = 0
<1> DEFINE r == y % m
           b == x - r
<1>1. r \in 0 .. m - 1 /\ b \in Int
  BY Remainder
<1>2. b % m = 0
  <2>1. b = x - (x % m)
    OBVIOUS
  <2>2. (x - (x % m)) % m = 0
    BY Remainder
  <2> QED BY <2>1, <2>2
<1>3. x + (m - r) = b + m
  BY <1>1
<1>4. m % m = 0
  OBVIOUS
<1> HIDE DEF r, b
<1>5. (b + m) % m = 0
  <2>1. ASSUME NEW k \in Int, k % m = 0 PROVE (b + k) % m = 0
    BY <1>1, <1>2, <2>1, MultipleSum
  <2> QED BY <1>4, <2>1
<1> QED BY <1>2, <1>3, <1>5 DEF r, b

\* What the phase of words may rely on,
LEMMA WordsNext ==
  ASSUME pc' = "words", Todo' = len', len' = 0 \/ (On(W)' /\ Length' - len' < W')
  PROVE  PhaseInv'
BY DEF PhaseInv

\* Bytes: they end at a boundary of words or at the end of the copy, and are
\* too few for a whole granule.
LEMMA AlignStep ==
  ASSUME BuildOK, CallOK, Working, PhaseInv, Align, UNCHANGED <<test, sizes>>
  PROVE  Working' /\ PhaseInv' /\ pc' = "words"
<1>1. /\ pc = "align" /\ pc' = "words" /\ loop = NoLoop /\ Todo = Length /\ Todo = len
      /\ UNCHANGED <<mem, tag, call, old, test, sizes>>
  BY DEF Align, Phase, PhaseInv
<1>2. /\ W \in Nat \ {0} /\ P \in Nat \ {0} /\ P % W = 0 /\ W <= P
      /\ D \in Nat /\ S \in Nat /\ Length \in Nat /\ Length > 0
      /\ dst \in Int /\ src \in Int /\ len \in Nat /\ src - dst = S - D
      /\ (Up => dst = D) /\ (~Up => dst = D + Length)
  BY <1>1, PhaseFacts
<1>3. /\ W' = W /\ P' = P /\ Length' = Length
  BY <1>1, Frame
<1>4. CASE ~Unaligned(W)
  <2>1. UNCHANGED <<dst, src, len, loop>> /\ On(W)
    BY <1>4 DEF Align, NoLoopNow, Unaligned, On
  <2>2. Working' /\ Todo' = Todo /\ On(W)'
    BY <1>1, <1>3, <2>1, NoLoopStart DEF On
  <2>3. len' = Length /\ Length - len' < W
    BY <1>1, <1>2, <2>1
  <2> QED BY <1>1, <1>3, <2>1, <2>2, <2>3, WordsNext
<1>5. CASE Unaligned(W)
  <2> DEFINE n == IF Up THEN AlignBytesUp ELSE AlignBytesDown
             r == src % W
  <2>1. MipsLoop(n, 1) /\ len' = len - n
    BY <1>5 DEF Align
  <2>2. r \in 0 .. W - 1
    BY <1>2, Remainder
  <2>3. ~Misfit(W) => dst % W = r /\ r # 0
    BY <1>5 DEF Misfit, Unaligned
  <2>4. /\ n = len \/ n < len
        /\ n = len => \/ Misfit(W) \/ (Up /\ len < W) \/ (~Up /\ len <= W)
        /\ n < len => ~Misfit(W) /\ n = (IF Up THEN W - r ELSE r)
    BY <1>2, <2>2, <2>3 DEF AlignBytesUp, AlignBytesDown
  <2>5. n \in Nat \ {0} /\ n <= len /\ (n < len => n < W)
    BY <1>1, <1>2, <2>2, <2>4, <2>3
  <2> HIDE DEF n
  <2>6. ~Misfit(W) => /\ (dst + (W - r)) % W = 0 /\ (src + (W - r)) % W = 0
                      /\ (dst - r) % W = 0 /\ (src - r) % W = 0
    BY <1>2, <2>3, ToBoundary
  <2> HIDE DEF r
  <2>7. Misfit(W) => (S - D) % W # 0
    <3>1. src % W = dst % W <=> (src - dst) % W = 0
      BY <1>2, Congruent
    <3> QED BY <1>2, <3>1 DEF Misfit
  <2>8. ASSUME NEW g \in Memory, Whole(g)
        PROVE  IF Up THEN dst + n <= g ELSE g + P <= dst - n
    <3>1. /\ g \in Int /\ g + P \in Int /\ D <= g /\ g + P <= D + Length
          /\ g % W = 0 /\ (g + P) % W = 0 /\ (S - D) % W = 0
      BY <2>8, WholeFacts
    <3>2. ~Misfit(W)
      BY <2>7, <3>1
    <3>3. CASE n = len
      <4>1. ~Up /\ g + P = dst
        BY <1>1, <1>2, <2>4, <3>1, <3>2, <3>3
      <4>2. dst % W = 0
        BY <3>1, <4>1
      <4> QED BY <2>3, <3>2, <4>2
    <3>4. CASE n < len /\ Up
      <4>1. dst + n \in Int /\ (dst + n) % W = 0
        BY <1>2, <2>4, <2>5, <2>6, <3>2, <3>4
      <4>2. (dst + n) - D < W
        BY <1>2, <2>5, <3>4
      <4> QED BY <1>2, <3>1, <3>4, <4>1, <4>2, BoundaryAbove
    <3>5. CASE n < len /\ ~Up
      <4>1. dst - n \in Int /\ (dst - n) % W = 0
        BY <1>2, <2>4, <2>5, <2>6, <3>2, <3>5
      <4>2. (D + Length) - (dst - n) < W /\ D + Length \in Int
        BY <1>2, <2>5, <3>5
      <4> QED BY <1>2, <3>1, <3>5, <4>1, <4>2, BoundaryBelow
    <3> QED BY <1>2, <2>4, <2>5, <3>3, <3>4, <3>5
  <2>9. On(1) /\ n * 1 = n
    BY <1>2, <2>5 DEF On
  <2>10. /\ Working' /\ Todo' = Todo - n
         /\ dst' = (IF Up THEN dst + n ELSE dst - n)
         /\ src' = (IF Up THEN src + n ELSE src - n)
    <3>1. len' \in Nat
      BY <1>2, <2>1, <2>5
    <3>2. 1 \in {1, W, P} /\ n * 1 <= Todo
      BY <1>1, <2>5, <2>9
    <3>3. \A g \in Memory : Whole(g) =>
            IF Up THEN g + P <= dst \/ dst + n * 1 <= g ELSE g + P <= dst - n * 1 \/ dst <= g
      BY <2>8, <2>9
    <3> HIDE DEF Working, MipsLoop, Whole, On, Todo
    <3>4. /\ Working' /\ Todo' = Todo - n * 1
          /\ dst' = (IF Up THEN dst + n * 1 ELSE dst - n * 1)
          /\ src' = (IF Up THEN src + n * 1 ELSE src - n * 1)
      BY <1>1, <2>1, <2>5, <2>9, <3>1, <3>2, <3>3, LoopStart
    <3> QED BY <2>9, <3>4
  <2>11. n < len => On(W)'
    BY <1>3, <2>4, <2>6, <2>10 DEF On
  <2>12. Todo' = len' /\ len' = Length - n /\ (len' = 0 \/ n < W)
    BY <1>1, <1>2, <2>1, <2>4, <2>5, <2>10
  <2>13. len' = 0 \/ (On(W)' /\ Length' - len' < W')
    <3>1. CASE n = len
      BY <1>2, <2>1, <2>5, <3>1
    <3>2. CASE n < len
      <4>1. Length - len' < W
        BY <1>1, <1>2, <2>1, <2>5, <3>2
      <4> QED BY <1>3, <2>11, <3>2, <4>1
    <3> QED BY <2>4, <3>1, <3>2
  <2> QED BY <1>1, <2>10, <2>12, <2>13, WordsNext
<1> QED BY <1>4, <1>5

\* Counting in units of m.
LEMMA Counted ==
  ASSUME NEW m \in Nat \ {0}, NEW x \in Nat
  PROVE  /\ x \div m \in Nat /\ (x \div m) * m = x - (x % m) /\ (x \div m) * m \in Nat
         /\ x \div m = 0 => x < m /\ x % m = x
         /\ x % m = 0 => (x \div m) * m = x
<1> DEFINE k == x \div m
<1>1. x % m \in 0 .. m - 1 /\ k \in Nat /\ x = k * m + (x % m)
  <2>1. x % m \in 0 .. m - 1
    BY Remainder
  <2>2. k \in Nat
    BY Remainder
  <2>3. x = k * m + (x % m)
    BY Remainder
  <2> QED BY <2>1, <2>2, <2>3
<1>2. k * m \in Int
  BY <1>1
<1>3. k = 0 => k * m = 0
  BY <1>1
<1> HIDE DEF k
<1>4. k * m = x - (x % m) /\ k * m \in Nat
  <2>1. k * m >= 0
    BY <1>1
  <2> QED BY <1>1, <1>2, <2>1
<1> QED BY <1>1, <1>2, <1>3, <1>4 DEF k

\* What the phase of capabilities may rely on.
LEMMA PtrsNext ==
  ASSUME pc' = "ptrs", Todo' = len', len' = 0 \/ (On(W)' /\ (len' < W' \/ On(P)'))
  PROVE  PhaseInv'
BY DEF PhaseInv

\* Words: they end at a boundary of capabilities or where no word is left, and
\* touch no whole granule that a capability could be copied to.
LEMMA WordsStep ==
  ASSUME BuildOK, CallOK, Working, PhaseInv, Words, UNCHANGED <<test, sizes>>
  PROVE  Working' /\ PhaseInv' /\ pc' = "ptrs"
<1>1. /\ pc = "words" /\ pc' = "ptrs" /\ loop = NoLoop /\ Todo = len
      /\ len = 0 \/ (On(W) /\ Length - len < W)
      /\ UNCHANGED <<mem, tag, call, old, test, sizes>>
  BY DEF Words, Phase, PhaseInv
<1>2. /\ W \in Nat \ {0} /\ P \in Nat \ {0} /\ P % W = 0 /\ W <= P
      /\ D \in Nat /\ S \in Nat /\ Length \in Nat /\ Length > 0
      /\ dst \in Int /\ src \in Int /\ len \in Nat /\ src - dst = S - D
      /\ (Up => dst + len = D + Length) /\ (~Up => dst - len = D)
  BY <1>1, PhaseFacts
<1>3. /\ W' = W /\ P' = P /\ Length' = Length
  BY <1>1, Frame
<1> DEFINE n == IF ~bigptr \/ ~Unaligned(P) THEN 0
                ELSE IF Up THEN WordCountUp ELSE WordCountDown
           q == src % P
           Rest == Misfit(P) \/ len < P
           B == IF Up THEN P - q ELSE q
<1>4. q \in 0 .. P - 1
  BY <1>2, Remainder
<1>5. bigptr /\ Unaligned(P) => n = (IF Rest THEN len \div W ELSE B \div W)
  BY DEF WordCountUp, WordCountDown
<1>6. ~Misfit(P) /\ Unaligned(P) => dst % P = q /\ q # 0
  BY DEF Misfit, Unaligned
<1>7. len = 0 => n = 0
  <2>1. 0 \div W = 0
    BY <1>2, Remainder
  <2> QED BY <1>2, <1>5, <2>1
<1>8. On(W) /\ ~Misfit(P) /\ Unaligned(P) => B \in Nat \ {0} /\ B % W = 0 /\ B < P
  <2> SUFFICES ASSUME On(W), ~Misfit(P), Unaligned(P)
               PROVE  B \in Nat \ {0} /\ B % W = 0 /\ B < P
    OBVIOUS
  <2>1. q % W = 0
    BY <1>2, CoarserRemainder DEF On
  <2>2. q \in Int /\ P \in Int
    BY <1>2, <1>4
  <2> HIDE DEF q
  <2>3. (P - q) % W = 0
    <3>1. ASSUME NEW p \in Int, p % W = 0 PROVE (p - q) % W = 0
      BY <1>2, <2>1, <2>2, <3>1, MultipleDifference
    <3> QED BY <1>2, <2>2, <3>1
  <2> QED BY <1>2, <1>4, <1>6, <2>1, <2>3
<1>9. CASE n = 0
  <2>1. UNCHANGED <<dst, src, len, loop>>
    BY <1>9 DEF Words, NoLoopNow
  <2>2. Working' /\ Todo' = Todo /\ (On(W)' <=> On(W)) /\ (On(P)' <=> On(P))
    BY <1>1, <1>3, <2>1, NoLoopStart DEF On
  <2>3. len = 0 \/ (On(W) /\ (len < W \/ On(P)))
    <3>1. CASE ~bigptr
      <4>1. P = W
        BY <1>2, <3>1 DEF bigptr
      <4> QED BY <1>1, <4>1
    <3>2. CASE ~Unaligned(P)
      BY <1>1, <3>2 DEF Unaligned, On
    <3>3. CASE bigptr /\ Unaligned(P) /\ Rest
      <4>1. len \div W = 0
        BY <1>5, <1>9, <3>3
      <4>2. len < W
        BY <1>2, <4>1, Counted
      <4> QED BY <1>1, <4>2
    <3>4. CASE bigptr /\ Unaligned(P) /\ ~Rest /\ len # 0
      <4>1. B \in Nat \ {0} /\ B % W = 0 /\ B \div W = 0
        BY <1>1, <1>5, <1>8, <1>9, <3>4
      <4> HIDE DEF B
      <4>2. B < W /\ B % W = B
        BY <1>2, <4>1, Counted
      <4> QED BY <4>1, <4>2
    <3> QED BY <3>1, <3>2, <3>3, <3>4
  <2>4. len' = 0 \/ (On(W)' /\ (len' < W' \/ On(P)'))
    BY <1>3, <2>1, <2>2, <2>3
  <2> QED BY <1>1, <2>1, <2>2, <2>4, PtrsNext
<1>10. CASE n # 0
  <2> DEFINE x == n * W
  <2>1. /\ bigptr /\ Unaligned(P) /\ len # 0 /\ On(W) /\ Length - len < W
        /\ MipsLoop(n, W) /\ len' = len - x
    <3>1. bigptr /\ Unaligned(P) /\ len # 0
      BY <1>7, <1>10
    <3>2. MipsLoop(n, W) /\ len' = len - x
      BY <1>10 DEF Words
    <3> QED BY <1>1, <3>1, <3>2
  <2>2. dst % W = 0 /\ src % W = 0
    BY <2>1 DEF On
  <2>3. /\ n \in Nat \ {0} /\ x \in Nat /\ x <= len
        /\ Rest => len - x < W
        /\ ~Rest => x = B
    <3>1. CASE Rest
      <4>1. n = len \div W
        BY <1>5, <2>1, <3>1
      <4>2. n \in Nat /\ x = len - (len % W) /\ x \in Nat
        <5>1. len \div W \in Nat /\ (len \div W) * W = len - (len % W)
              /\ (len \div W) * W \in Nat
          BY <1>2, Counted
        <5> HIDE DEF n
        <5> QED BY <4>1, <5>1
      <4>3. len % W \in 0 .. W - 1
        BY <1>2, Remainder
      <4> HIDE DEF n, x
      <4> QED BY <1>2, <1>10, <3>1, <4>2, <4>3
    <3>2. CASE ~Rest
      <4>1. B \in Nat \ {0} /\ B % W = 0 /\ B < P /\ n = B \div W
        BY <1>5, <1>8, <2>1, <3>2
      <4> HIDE DEF B
      <4>2. n \in Nat /\ x = B
        BY <1>2, <4>1, Counted
      <4> HIDE DEF n, x
      <4> QED BY <1>2, <1>10, <3>2, <4>1, <4>2
    <3> QED BY <3>1, <3>2
  <2>4. ~Rest => /\ (dst + (P - q)) % P = 0 /\ (src + (P - q)) % P = 0
                 /\ (dst - q) % P = 0 /\ (src - q) % P = 0
    BY <1>2, <1>6, <2>1, ToBoundary
  <2>5. ~Rest => B < P /\ B \in Nat
    BY <1>8, <2>1
  <2> HIDE DEF n, x, q, B
  <2>6. ASSUME NEW g \in Memory, Whole(g)
        PROVE  IF Up THEN dst + x <= g ELSE g + P <= dst - x
    <3>1. /\ g \in Int /\ g + P \in Int /\ D <= g /\ g + P <= D + Length
          /\ g % W = 0 /\ (g + P) % W = 0
      BY <2>6, WholeFacts
    <3>2. g % P = 0 /\ (g + P) % P = 0 /\ (S - D) % P = 0
      BY <2>6, WholeFacts
    <3>3. ~Misfit(P)
      <4>1. src % P = dst % P <=> (src - dst) % P = 0
        BY <1>2, Congruent
      <4> QED BY <1>2, <3>2, <4>1 DEF Misfit
    <3>4. CASE Up
      <4>1. dst - D < W
        BY <1>2, <2>1, <3>4
      <4>2. dst <= g
        <5>1. W \in Nat \ {0} /\ dst \in Int /\ dst % W = 0 /\ D \in Int
          BY <1>2, <2>2
        <5>2. g \in Int /\ g % W = 0 /\ D <= g
          BY <3>1
        <5> QED BY <4>1, <5>1, <5>2, BoundaryAbove
      <4>3. ~Rest
        BY <1>2, <3>1, <3>3, <3>4, <4>2
      <4>4. dst + x \in Int /\ (dst + x) % P = 0 /\ (dst + x) - dst < P
        BY <1>2, <2>3, <2>4, <2>5, <3>4, <4>3 DEF B
      <4>5. dst + x <= g
        BY <1>2, <3>1, <3>2, <4>2, <4>4, BoundaryAbove
      <4> QED BY <3>4, <4>5
    <3>5. CASE ~Up
      <4>1. (D + Length) - dst < W /\ D + Length \in Int
        BY <1>2, <2>1, <3>5
      <4>2. g + P <= dst
        BY <1>2, <2>2, <3>1, <4>1, BoundaryBelow
      <4>3. ~Rest
        BY <1>2, <3>1, <3>3, <3>5, <4>2
      <4>4. dst - x \in Int /\ (dst - x) % P = 0 /\ dst - (dst - x) < P
        BY <1>2, <2>3, <2>4, <2>5, <3>5, <4>3 DEF B
      <4>5. g + P <= dst - x
        BY <1>2, <3>1, <3>2, <4>2, <4>4, BoundaryBelow
      <4> QED BY <3>5, <4>5
    <3> QED BY <3>4, <3>5
  <2>7. /\ Working' /\ Todo' = Todo - x
        /\ dst' = (IF Up THEN dst + x ELSE dst - x)
        /\ src' = (IF Up THEN src + x ELSE src - x)
        /\ dst' % W = 0 /\ src' % W = 0
    <3>1. x <= Todo /\ len' \in Nat /\ W \in {1, W, P}
      BY <1>1, <1>2, <2>1, <2>3
    <3>2. \A g \in Memory : Whole(g) =>
            IF Up THEN g + P <= dst \/ dst + x <= g ELSE g + P <= dst - x \/ dst <= g
      BY <2>6
    <3> QED BY <1>1, <2>1, <2>3, <3>1, <3>2, LoopStart DEF x
  <2>8. ~Rest => dst' % P = 0 /\ src' % P = 0
    BY <2>3, <2>4, <2>7 DEF B
  <2>9. On(W)' /\ (len' < W' \/ On(P)')
    BY <1>3, <2>1, <2>3, <2>7, <2>8 DEF On
  <2>10. Todo' = len'
    BY <1>1, <2>1, <2>7
  <2> QED BY <1>1, <2>7, <2>9, <2>10, PtrsNext
<1> QED BY <1>9, <1>10

\* What the last phase may rely on.
LEMMA TailNext ==
  ASSUME pc' = "tail", Todo' = (len % P)', NEW m, m \in {W', P'},
         Todo' = 0 \/ (dst' % m = 0 /\ src' % m = 0 /\ Todo' < m)
  PROVE  PhaseInv'
BY DEF PhaseInv, On

\* Capabilities: both pointers are aligned, or there is no capability left.
LEMMA PtrsStep ==
  ASSUME BuildOK, CallOK, Working, PhaseInv, Ptrs, UNCHANGED <<test, sizes>>
  PROVE  Working' /\ PhaseInv' /\ pc' = "tail"
<1>1. /\ pc = "ptrs" /\ pc' = "tail" /\ loop = NoLoop /\ Todo = len /\ len' = len
      /\ len = 0 \/ (On(W) /\ (len < W \/ On(P)))
      /\ UNCHANGED <<mem, tag, call, old, test, sizes>>
  BY DEF Ptrs, Phase, PhaseInv
<1>2. W \in Nat \ {0} /\ P \in Nat \ {0} /\ W <= P /\ len \in Nat
  BY <1>1, PhaseFacts
<1>3. W' = W /\ P' = P
  BY <1>1, Frame
<1> DEFINE k == len \div P
           x == k * P
<1>4. k \in Nat /\ x = len - (len % P) /\ x \in Nat /\ (k = 0 => len < P /\ len % P = len)
  BY <1>2, Counted
<1>5. len % P \in 0 .. P - 1
  BY <1>2, Remainder
<1>6. len < P => k = 0
  BY <1>2, Remainder
<1>7. CASE k = 0
  <2>1. UNCHANGED <<dst, src, loop>>
    BY <1>7 DEF Ptrs, NoLoopNow
  <2>2. Working' /\ Todo' = Todo
    BY <1>1, <2>1, NoLoopStart
  <2>3. Todo' = len /\ len' % P' = len /\ len < P
    BY <1>1, <1>3, <1>4, <1>7, <2>2
  <2>4. PICK m \in {W, P} : len = 0 \/ (dst % m = 0 /\ src % m = 0 /\ len < m)
    BY <1>1, <2>3 DEF On
  <2> QED BY <1>1, <1>3, <2>1, <2>2, <2>3, <2>4, TailNext
<1>8. CASE k # 0
  <2>1. MipsLoop(k, P) /\ On(P) /\ k \in Nat \ {0}
    BY <1>1, <1>2, <1>4, <1>6, <1>8 DEF Ptrs
  <2> HIDE DEF k
  <2>2. x <= Todo /\ P \in {1, W, P} /\ len' \in Nat
    BY <1>1, <1>2, <1>4, <1>5
  <2>3. Working' /\ Todo' = Todo - x /\ dst' % P = 0 /\ src' % P = 0
    BY <1>1, <2>1, <2>2, LoopStart
  <2> HIDE DEF x
  <2>4. Todo' = len % P /\ Todo' < P
    BY <1>1, <1>2, <1>4, <1>5, <2>3
  <2> QED BY <1>1, <1>3, <2>3, <2>4, TailNext
<1> QED BY <1>7, <1>8

\* The bytes left over are too few for a whole granule.
LEMMA TailStep ==
  ASSUME BuildOK, CallOK, Working, PhaseInv, TailBytes, UNCHANGED <<test, sizes>>
  PROVE  Working' /\ PhaseInv' /\ pc' = "return"
<1>1. /\ pc = "tail" /\ pc' = "return" /\ loop = NoLoop /\ Todo = len % P /\ len' = len
      /\ Todo = 0 \/ \E m \in {W, P} : On(m) /\ Todo < m
      /\ UNCHANGED <<mem, tag, call, old, test, sizes>>
  BY DEF TailBytes, Phase, PhaseInv
<1>2. /\ W \in Nat \ {0} /\ P \in Nat \ {0} /\ len \in Nat /\ dst \in Int /\ src \in Int
      /\ D \in Nat /\ Length \in Nat
      /\ (Up => dst + Todo = D + Length) /\ (~Up => dst - Todo = D)
  BY <1>1, PhaseFacts
<1>3. Todo \in Nat
  BY <1>1, <1>2, Remainder
<1>4. CASE Todo = 0
  <2>1. UNCHANGED <<dst, src, loop>>
    BY <1>1, <1>4 DEF TailBytes, NoLoopNow
  <2>2. Working' /\ Todo' = 0
    BY <1>1, <1>4, <2>1, NoLoopStart
  <2> QED BY <1>1, <2>2 DEF PhaseInv
<1>5. CASE Todo # 0
  <2> DEFINE n == len % P
  <2>1. MipsLoop(n, 1) /\ n = Todo
    BY <1>1, <1>5 DEF TailBytes
  <2> HIDE DEF n
  <2>2. PICK m \in {W, P} : dst % m = 0 /\ Todo < m
    BY <1>1, <1>5 DEF On
  <2>3. ASSUME NEW g \in Memory, Whole(g)
        PROVE  IF Up THEN g + P <= dst ELSE dst <= g
    <3>1. /\ g \in Int /\ g + P \in Int /\ D <= g /\ g + P <= D + Length
          /\ g % m = 0 /\ (g + P) % m = 0
      BY <2>2, <2>3, WholeFacts
    <3>2. m \in Nat \ {0} /\ D \in Int /\ D + Length \in Int
      BY <1>2
    <3>3. CASE Up
      <4>1. (D + Length) - dst < m
        BY <1>2, <1>3, <2>2, <3>2, <3>3
      <4>2. g + P <= dst
        BY <1>2, <2>2, <3>1, <3>2, <4>1, BoundaryBelow
      <4> QED BY <3>3, <4>2
    <3>4. CASE ~Up
      <4>1. dst - D < m
        BY <1>2, <1>3, <2>2, <3>2, <3>4
      <4>2. dst <= g
        BY <1>2, <2>2, <3>1, <3>2, <4>1, BoundaryAbove
      <4> QED BY <3>4, <4>2
    <3> QED BY <3>3, <3>4
  <2>4. On(1) /\ n * 1 = n /\ n \in Nat \ {0}
    BY <1>2, <1>3, <1>5, <2>1 DEF On
  <2>5. Working' /\ Todo' = Todo - n * 1
    <3>1. 1 \in {1, W, P} /\ n * 1 <= Todo /\ len' \in Nat
      BY <1>1, <1>2, <1>3, <2>1, <2>4
    <3>2. \A g \in Memory : Whole(g) =>
            IF Up THEN g + P <= dst \/ dst + n * 1 <= g ELSE g + P <= dst - n * 1 \/ dst <= g
      BY <2>3
    <3> QED BY <1>1, <2>1, <2>4, <3>1, <3>2, LoopStart
  <2>6. Todo' = 0
    BY <1>3, <2>1, <2>4, <2>5
  <2> QED BY <1>1, <2>5, <2>6 DEF PhaseInv
<1> QED BY <1>4, <1>5

\* The call begins: nothing to do, or nothing done yet.
LEMMA BeginStep ==
  ASSUME BuildOK, MemoryOK, CallOK, Untouched, dst = D, src = S, len = Length,
         Begin, UNCHANGED <<test, sizes>>
  PROVE  \/ pc' = "return" /\ (Length' = 0 \/ S' = D') /\ Untouched'
         \/ pc' = "align" /\ Working' /\ PhaseInv'
<1>1. /\ W \in Nat \ {0} /\ P \in Nat \ {0} /\ D \in Nat /\ S \in Nat /\ Length \in Nat
  BY CallFacts
<1>2. UNCHANGED <<mem, tag, call, len, loop, old>> /\ loop = NoLoop
  BY DEF Begin, Untouched
<1>3. /\ D' = D /\ S' = S /\ Length' = Length /\ W' = W /\ P' = P
      /\ Up' = Up /\ Memory' = Memory /\ Granules' = Granules
  BY <1>2, Frame
<1>4. CASE NothingToDo
  BY <1>2, <1>3, <1>4 DEF Begin, NothingToDo, Untouched, D, S
<1>5. CASE ~NothingToDo
  <2>1. /\ pc' = "align" /\ Length > 0 /\ S # D
        /\ dst' = (IF Up THEN D ELSE D + Length)
        /\ src' = (IF Up THEN S ELSE S + Length)
    BY <1>1, <1>5 DEF Begin, NothingToDo, D, S
  <2>2. Cursor' = dst'
    BY <1>1, <1>2, <2>1 DEF Cursor, NoLoop
  <2>3. From' = dst' /\ To' = dst' /\ Todo' = Length
    BY <1>1, <1>3, <2>1, <2>2 DEF From, To, Todo
  <2>4. PointersInv'
    BY <1>1, <1>2, <1>3, <2>1, <2>3 DEF PointersInv
  <2>5. BytesInv'
    <3>1. old.mem = [a \in Memory |-> old.mem[a]]
      BY DEF CallOK
    <3>2. ASSUME NEW a \in Memory PROVE ~Written(a)'
      <4>1. dst' \in Int /\ a \in Int
        BY <1>1, <2>1 DEF Memory
      <4> QED BY <2>3, <4>1 DEF Written
    <3>3. mem' = old.mem /\ old' = old
      BY <1>2 DEF Untouched
    <3> QED BY <1>3, <3>1, <3>2, <3>3 DEF BytesInv
  <2>6. TagsInv'
    <3>1. ASSUME NEW a PROVE ~Meets(a)'
      BY <1>1, <2>1, <2>3 DEF Meets
    <3>2. tag' = old.tag /\ old' = old
      BY <1>2 DEF Untouched
    <3> QED BY <1>3, <3>1, <3>2 DEF TagsInv
  <2>7. LoopInv'
    BY <1>2 DEF LoopInv
  <2> QED BY <1>2, <1>3, <2>1, <2>3, <2>4, <2>5, <2>6, <2>7 DEF Working, PhaseInv
<1> QED BY <1>4, <1>5

-----------------------------------------------------------------------------

\* The routine keeps the invariant.
LEMMA RoutineStep == CopyInv /\ Routine => CopyInv'
<1> SUFFICES ASSUME CopyInv, Routine PROVE CopyInv'
  OBVIOUS
<1>1. /\ BuildOK /\ MemoryOK /\ script \in Seq(Steps) /\ RoutineInv
      /\ CopyNext /\ UNCHANGED <<test, sizes, base, script>>
  BY DEF CopyInv, Routine
<1>2. UNCHANGED <<call, old>>
  BY <1>1 DEF CopyNext, Begin, Align, Words, Ptrs, TailBytes, Phase, Turn, Return
<1>3. /\ D' = D /\ S' = S /\ Length' = Length /\ W' = W /\ P' = P
      /\ Up' = Up /\ Memory' = Memory /\ Granules' = Granules /\ Size' = Size
  BY <1>1, <1>2, Frame
<1>4. BuildOK' /\ script' \in Seq(Steps') /\ (CallOK' <=> CallOK)
  <2>1. BuildOK'
    BY <1>1 DEF BuildOK, Sizeof
  <2>2. Steps' = Steps
    BY <1>1, <1>3 DEF Steps, StepOK, ArgsOK
  <2>3. CallOK' <=> CallOK
    BY <1>1, <1>2, <1>3 DEF CallOK, ArgsOK
  <2> QED BY <1>1, <2>1, <2>2, <2>3
<1>5. ASSUME UNCHANGED <<mem, tag>> PROVE MemoryOK'
  BY <1>1, <1>3, <1>5 DEF MemoryOK
<1>6. CASE Begin
  <2>1. pc = "call" /\ CallOK /\ Untouched /\ dst = D /\ src = S /\ len = Length
    BY <1>1, <1>6 DEF RoutineInv, Begin, Phases
  <2>2. \/ pc' = "return" /\ (Length' = 0 \/ S' = D') /\ Untouched'
        \/ pc' = "align" /\ Working' /\ PhaseInv'
    BY <1>1, <1>6, <2>1, BeginStep
  <2>3. RoutineInv'
    BY <1>4, <2>1, <2>2 DEF RoutineInv, Phases
  <2> QED BY <1>4, <1>5, <1>6, <2>3 DEF CopyInv, Begin
<1>7. ASSUME pc \in {"align", "words", "ptrs", "tail"} PROVE CallOK /\ Working /\ PhaseInv
  BY <1>1, <1>7 DEF RoutineInv, Phases
<1>8. ASSUME CallOK, Working', PhaseInv', pc' \in {"words", "ptrs", "tail", "return"}
      PROVE  RoutineInv'
  BY <1>4, <1>8 DEF RoutineInv, Phases
<1>9. CASE Align
  <2>1. Working' /\ PhaseInv' /\ pc' = "words" /\ CallOK
    BY <1>1, <1>7, <1>9, AlignStep DEF Align, Phase
  <2> QED BY <1>4, <1>5, <1>8, <1>9, <2>1 DEF CopyInv, Align, Phase
<1>10. CASE Words
  <2>1. Working' /\ PhaseInv' /\ pc' = "ptrs" /\ CallOK
    BY <1>1, <1>7, <1>10, WordsStep DEF Words, Phase
  <2> QED BY <1>4, <1>5, <1>8, <1>10, <2>1 DEF CopyInv, Words, Phase
<1>11. CASE Ptrs
  <2>1. Working' /\ PhaseInv' /\ pc' = "tail" /\ CallOK
    BY <1>1, <1>7, <1>11, PtrsStep DEF Ptrs, Phase
  <2> QED BY <1>4, <1>5, <1>8, <1>11, <2>1 DEF CopyInv, Ptrs, Phase
<1>12. CASE TailBytes
  <2>1. Working' /\ PhaseInv' /\ pc' = "return" /\ CallOK
    BY <1>1, <1>7, <1>12, TailStep DEF TailBytes, Phase
  <2> QED BY <1>4, <1>5, <1>8, <1>12, <2>1 DEF CopyInv, TailBytes, Phase
<1>13. CASE Turn
  <2>1. loop # NoLoop /\ UNCHANGED <<dst, src, len>>
    BY <1>13 DEF Turn
  <2>2. CallOK /\ Working /\ PhaseInv /\ pc \in {"words", "ptrs", "tail", "return"}
    BY <1>1, <2>1 DEF RoutineInv, Phases, Untouched, PhaseInv
  <2>3. Working' /\ MemoryOK' /\ pc' = pc
    BY <1>1, <1>13, <2>2, TurnWorks
  <2>4. Todo' = Todo /\ \A m : On(m)' = On(m)
    BY <1>3, <2>1 DEF Todo, On
  <2>5. PhaseInv'
    <3>1. W' = W /\ P' = P /\ Length' = Length /\ dst' = dst /\ src' = src
          /\ len' = len /\ Todo' = Todo
      BY <1>3, <2>1, <2>4
    <3> QED BY <2>2, <2>3, <3>1 DEF PhaseInv, On
  <2> QED BY <1>4, <1>8, <2>2, <2>3, <2>5 DEF CopyInv
<1>14. CASE Return
  <2>1. pc' = "done" /\ loop' = NoLoop /\ UNCHANGED <<mem, tag>>
    BY <1>14 DEF Return
  <2>2. RoutineInv'
    BY <2>1 DEF RoutineInv, Phases
  <2> QED BY <1>4, <1>5, <2>1, <2>2 DEF CopyInv
<1> QED BY <1>1, <1>6, <1>9, <1>10, <1>11, <1>12, <1>13, <1>14 DEF CopyNext

\* A step of the script is one of Steps, and the script behind it is a script.
LEMMA ScriptTail ==
  ASSUME CopyInv, NEW op, At(op), Taken
  PROVE  /\ Step \in Steps /\ Step.op = op /\ pc = "idle" /\ loop = NoLoop
         /\ BuildOK' /\ script' \in Seq(Steps') /\ Memory' = Memory /\ Granules' = Granules
<1>1. script \in Seq(Steps) /\ script # <<>> /\ UNCHANGED <<test, sizes, base>>
      /\ script' = Tail(script) /\ RoutineInv /\ pc = "idle" /\ BuildOK
  BY DEF CopyInv, At, Taken
<1>2. Step \in Steps /\ Tail(script) \in Seq(Steps)
  BY <1>1 DEF Step
<1>3. Memory' = Memory /\ Granules' = Granules /\ Size' = Size
  BY <1>1 DEF Memory, Granules, Size, Sizeof
<1>4. Steps' = Steps /\ BuildOK'
  BY <1>1, <1>3 DEF Steps, StepOK, ArgsOK, BuildOK, Sizeof, Y, Pad
<1> QED BY <1>1, <1>2, <1>3, <1>4 DEF RoutineInv, At, Step

\* A step of the test itself, outside of the routine.
LEMMA QuietStep ==
  ASSUME CopyInv, NEW op, At(op), Taken, Quiet,
         mem' \in [Memory -> Int], tag' \subseteq Granules
  PROVE  CopyInv'
<1>1. /\ pc = "idle" /\ loop = NoLoop /\ BuildOK' /\ script' \in Seq(Steps')
      /\ Memory' = Memory /\ Granules' = Granules
  BY ScriptTail
<1>2. pc' = "idle" /\ loop' = NoLoop
  BY <1>1 DEF Quiet
<1>3. RoutineInv'
  BY <1>2 DEF RoutineInv, Phases
<1> QED BY <1>1, <1>3 DEF CopyInv, MemoryOK

\* A test or a single call enters the routine with arguments that are in
\* memory.
LEMMA CallStep == CopyInv /\ Call => CopyInv'
<1> SUFFICES ASSUME CopyInv, Call PROVE CopyInv'
  OBVIOUS
<1>1. /\ Step \in Steps /\ Step.op = "copy" /\ BuildOK' /\ script' \in Seq(Steps')
      /\ Memory' = Memory /\ Granules' = Granules
  BY ScriptTail DEF Call
<1>2. MemoryOK /\ UNCHANGED <<mem, tag, test, sizes, base>>
  BY DEF CopyInv, Call, Enter, Taken
<1>3. ArgsOK(Step.fn, base[Step.to] + Step.d, base[Step.from] + Step.s, Step.n)
  BY <1>1 DEF Steps, StepOK
<1>4. /\ call' = [fn |-> Step.fn, dst0 |-> base[Step.to] + Step.d,
                  src0 |-> base[Step.from] + Step.s, length |-> Step.n,
                  wsize |-> sizes[1], psize |-> sizes[2]]
      /\ pc' = "call" /\ old' = [mem |-> mem, tag |-> tag]
      /\ dst' = call'.dst0 /\ src' = call'.src0 /\ len' = call'.length
      /\ loop' = NoLoop
  BY DEF Call, Enter
<1>5. Size' = Size
  BY <1>2 DEF Size, Sizeof
<1>6. /\ call'.fn = Step.fn /\ D' = base[Step.to] + Step.d /\ S' = base[Step.from] + Step.s
      /\ Length' = Step.n /\ W' = sizes[1] /\ P' = sizes[2]
      /\ old'.mem = mem /\ old'.tag = tag
  BY <1>4 DEF D, S, Length, W, P
<1>7. CallOK'
  BY <1>1, <1>2, <1>3, <1>5, <1>6 DEF CallOK, ArgsOK, MemoryOK
<1>8. Untouched' /\ dst' = D' /\ src' = S' /\ len' = Length'
  BY <1>2, <1>4, <1>6 DEF Untouched, D, S, Length
<1>9. RoutineInv'
  BY <1>4, <1>7, <1>8 DEF RoutineInv, Phases
<1> QED BY <1>1, <1>2, <1>9 DEF CopyInv, MemoryOK

\* The steps of the tests keep the invariant.
LEMMA TestStep ==
  ASSUME CopyInv,
         \/ Returned \/ InvalidateStruct \/ Fill \/ AssignY \/ CheckStruct
         \/ CheckShifted \/ FillDigits \/ CheckDigits
  PROVE  CopyInv'
<1>1. BuildOK /\ mem \in [Memory -> Int] /\ tag \subseteq Granules /\ DOMAIN mem = Memory
  BY DEF CopyInv, MemoryOK
<1>2. sizes[2] \in Nat \ {0} /\ Size \in Nat /\ Sizeof \in Nat /\ Memory = 0 .. Size - 1
  BY <1>1, BuildFacts DEF Memory
<1>3. CASE Returned
  <2>1. /\ pc' = "idle" /\ loop' = NoLoop /\ UNCHANGED <<mem, tag, test, sizes, base, script>>
    BY <1>3 DEF Returned, CopyInv, RoutineInv
  <2>2. RoutineInv'
    BY <2>1 DEF RoutineInv, Phases
  <2>3. Memory' = Memory /\ Granules' = Granules /\ Size' = Size
    BY <2>1 DEF Memory, Granules, Size, Sizeof
  <2>4. Steps' = Steps /\ BuildOK'
    BY <1>1, <2>1, <2>3 DEF Steps, StepOK, ArgsOK, BuildOK, Sizeof, Y, Pad
  <2> QED BY <2>1, <2>2, <2>3, <2>4 DEF CopyInv, MemoryOK
<1>4. CASE InvalidateStruct
  <2> DEFINE o == base[Step.t]
  <2>1. mem' = [mem EXCEPT ![o] = 165] /\ tag' = tag \ {o}
    BY <1>4 DEF InvalidateStruct, Invalid
  <2> HIDE DEF o
  <2>2. mem' \in [Memory -> Int]
    <3>1. CASE o \in Memory
      BY <1>1, <2>1, <3>1
    <3>2. CASE o \notin Memory
      <4>1. mem' = mem
        BY <1>1, <2>1, <3>2
      <4> QED BY <1>1, <4>1
    <3> QED BY <3>1, <3>2
  <2>3. tag' \subseteq Granules
    BY <1>1, <2>1
  <2> QED BY <1>4, <2>2, <2>3, QuietStep DEF InvalidateStruct
<1>5. CASE Fill
  <2>1. base[Step.t] \in Int
    BY <1>5, ScriptTail DEF Fill, Steps, StepOK
  <2>2. mem' \in [Memory -> Int]
    <3> DEFINE o == base[Step.t]
               v(a) == IF a - o \in 0 .. Pad - 1 THEN a - o
                       ELSE IF a - o \in Pad1 .. Sizeof - 1 THEN a - o - Pad1 ELSE mem[a]
    <3>1. mem' = [a \in Memory |-> v(a)]
      BY <1>1, <1>5 DEF Fill
    <3>2. ASSUME NEW a \in Memory PROVE v(a) \in Int
      <4>1. mem[a] \in Int /\ a \in Int /\ Pad1 \in Int
        BY <1>1, <1>2 DEF Pad1, Pad
      <4>2. a - o \in Int /\ a - o - Pad1 \in Int
        BY <2>1, <4>1
      <4> HIDE DEF o
      <4> QED BY <4>1, <4>2
    <3> HIDE DEF v
    <3> QED BY <3>1, <3>2
  <2>3. tag' \subseteq Granules
    BY <1>1, <1>5 DEF Fill
  <2> QED BY <1>5, <2>2, <2>3, QuietStep DEF Fill
<1>6. CASE AssignY
  <2>1. base[Step.t] + Y \in Granules /\ base[Step.x] \in Int
    BY <1>6, ScriptTail DEF AssignY, Steps, StepOK
  <2>2. mem' \in [Memory -> Int]
    <3> DEFINE o == base[Step.t] + Y
               v(b) == IF b - o \in 0 .. sizes[2] - 1 THEN CapByte(base[Step.x], b - o) ELSE mem[b]
    <3>1. mem' = [b \in Memory |-> v(b)]
      BY <1>1, <1>6 DEF AssignY, StoreCap
    <3>2. o \in Int
      BY <1>2, <2>1 DEF Granules
    <3>3. ASSUME NEW b \in Memory PROVE v(b) \in Int
      <4>1. mem[b] \in Int /\ b \in Int
        BY <1>1, <1>2
      <4>2. b - o \in Int /\ CapByte(base[Step.x], b - o) \in Int
        BY <2>1, <3>2, <4>1 DEF CapByte
      <4> HIDE DEF o
      <4> QED BY <4>1, <4>2
    <3> HIDE DEF v
    <3> QED BY <3>1, <3>3
  <2>3. tag' \subseteq Granules
    BY <1>1, <1>6, <2>1 DEF AssignY, StoreCap
  <2> QED BY <1>6, <2>2, <2>3, QuietStep DEF AssignY
<1>7. CASE CheckStruct
  BY <1>1, <1>7, QuietStep DEF CheckStruct
<1>8. CASE CheckShifted
  BY <1>1, <1>8, QuietStep DEF CheckShifted
<1>9. CASE FillDigits
  <2>1. mem' \in [Memory -> Int]
    <3>1. ASSUME NEW a \in Memory PROVE CapByte(a \div sizes[2], a % sizes[2]) \in Int
      BY <1>2 DEF CapByte
    <3> QED BY <1>1, <1>9, <3>1 DEF FillDigits
  <2>2. tag' \subseteq Granules
    BY <1>1, <1>9 DEF FillDigits, Granules
  <2> QED BY <1>9, <2>1, <2>2, QuietStep DEF FillDigits
<1>10. CASE CheckDigits
  BY <1>1, <1>10, QuietStep DEF CheckDigits
<1> QED BY <1>3, <1>4, <1>5, <1>6, <1>7, <1>8, <1>9, <1>10

-----------------------------------------------------------------------------

\* Sequences over a set: two joined,
LEMMA Joined ==
  ASSUME NEW X, NEW s \in Seq(X), NEW t \in Seq(X)
  PROVE  s \o t \in Seq(X)
OBVIOUS

\* ... and one element.
LEMMA One ==
  ASSUME NEW X, NEW x \in X
  PROVE  <<x>> \in Seq(X)
OBVIOUS

\* A test that works on the two structures.
StructTest == BuildOK /\ test \notin {"none", "libc_memmove"}

\* The structures lie side by side, in either order, and y is a granule.
LEMMA StructFacts ==
  ASSUME StructTest, NEW t \in {1, 2}
  PROVE  /\ Sizeof \in Nat /\ Sizeof >= 65 /\ Size = 2 * Sizeof
         /\ base[t] \in {0, Sizeof} /\ base[t] + Y \in Granules
         /\ \A u \in {1, 2} : u # t => base[u] = Sizeof - base[t]
<1>1. sizes[2] \in Nat \ {0} /\ Sizeof = 64 + sizes[2] /\ 32 % sizes[2] = 0
  BY BuildFacts DEF StructTest, BuildOK
<1>2. Size = 2 * Sizeof
  BY DEF StructTest, Size
<1>3. base \in {<<0, Sizeof>>, <<Sizeof, 0>>}
  BY DEF StructTest, BuildOK
<1>4. base[t] \in {0, Sizeof} /\ \A u \in {1, 2} : u # t => base[u] = Sizeof - base[t]
  BY <1>1, <1>3
<1>5. (base[t] + 32) % sizes[2] = 0
  <2>1. ASSUME NEW c \in Nat \ {0}, 32 % c = 0
        PROVE  32 % c = 0 /\ (32 + 32) % c = 0 /\ ((32 + 32) + c) % c = 0
               /\ (((32 + 32) + c) + 32) % c = 0
    <3>1. 32 \in Int /\ c \in Int /\ c % c = 0
      OBVIOUS
    <3>2. (32 + 32) % c = 0 /\ 32 + 32 \in Int
      BY <2>1, <3>1, MultipleSum
    <3>3. ASSUME NEW x \in Int, NEW y \in Int, x % c = 0, y % c = 0 PROVE (x + y) % c = 0
      BY <3>3, MultipleSum
    <3>4. ((32 + 32) + c) % c = 0 /\ (32 + 32) + c \in Int
      BY <3>1, <3>2, <3>3
    <3>5. (((32 + 32) + c) + 32) % c = 0
      BY <2>1, <3>1, <3>3, <3>4
    <3> QED BY <2>1, <3>2, <3>4, <3>5
  <2>2. (((32 + 32) + sizes[2]) + 32) % sizes[2] = 0
    BY <1>1, <2>1
  <2> QED BY <1>1, <1>4, <2>2
<1>6. base[t] + Y \in Memory /\ base[t] + Y = base[t] + 32
  BY <1>1, <1>2, <1>4 DEF Memory, Y, Pad
<1>7. base[t] + Y \in Granules
  BY <1>5, <1>6 DEF Granules
<1>8. Sizeof \in Nat /\ Sizeof >= 65
  BY <1>1
<1> QED BY <1>2, <1>4, <1>7, <1>8

\* A copy from one structure to the other.
LEMMA StructCopy ==
  ASSUME StructTest, NEW fn \in Fns, NEW to \in {1, 2}, NEW from \in {1, 2}, to # from,
         NEW d \in Nat, NEW s \in Nat, NEW n \in Nat, d + n <= Sizeof, s + n <= Sizeof
  PROVE  Copy(fn, to, d, from, s, n) \in Seq(Steps)
<1> DEFINE q == [op |-> "copy", fn |-> fn, to |-> to, d |-> d, from |-> from, s |-> s, n |-> n]
<1>1. /\ Sizeof \in Nat /\ Size = 2 * Sizeof /\ base[to] \in {0, Sizeof}
      /\ base[from] = Sizeof - base[to]
  BY StructFacts
<1>2. ArgsOK(fn, base[to] + d, base[from] + s, n)
  BY <1>1 DEF ArgsOK, Disjoint
<1>3. q \in StepRecords
  BY DEF StepRecords
<1>4. StepOK(q)
  BY <1>2 DEF StepOK
<1> QED BY <1>3, <1>4, One DEF Steps, Copy

\* The other steps on the structures.
LEMMA StructSteps ==
  ASSUME StructTest, NEW t \in {1, 2}, NEW x \in {1, 2}, NEW a \in Nat, NEW b \in Nat
  PROVE  /\ Check(t, a, b) \in Seq(Steps) /\ Invalidate(t) \in Seq(Steps)
         /\ Shifted(t) \in Seq(Steps) /\ FillStruct(t) \in Seq(Steps)
         /\ SetY(t, x) \in Seq(Steps)
<1>1. base[t] \in Int /\ base[x] \in Int /\ base[t] + Y \in Granules
  BY StructFacts
<1>2. [op |-> "check", t |-> t, start |-> a, end |-> b] \in Steps
  BY DEF Steps, StepRecords, StepOK
<1>3. [op |-> "invalidate", t |-> t] \in Steps
  BY <1>1 DEF Steps, StepRecords, StepOK
<1>4. [op |-> "shifted", t |-> t] \in Steps
  BY DEF Steps, StepRecords, StepOK
<1>5. [op |-> "fill", t |-> t] \in Steps
  BY <1>1 DEF Steps, StepRecords, StepOK
<1>6. [op |-> "sety", t |-> t, x |-> x] \in Steps
  BY <1>1 DEF Steps, StepRecords, StepOK
<1> QED BY <1>2, <1>3, <1>4, <1>5, <1>6, One
        DEF Check, Invalidate, Shifted, FillStruct, SetY

\* The parts the tests are put together from.
LEMMA Parts ==
  ASSUME StructTest, NEW fn \in Fns, NEW to \in {1, 2}, NEW from \in {1, 2}, to # from
  PROVE  /\ Aligned(fn, to, from) \in Seq(Steps) /\ Ends(fn, to, from) \in Seq(Steps)
         /\ Differs(fn, to, from) \in Seq(Steps) /\ Round(fn, to, from) \in Seq(Steps)
<1>1. Sizeof \in Nat /\ Sizeof >= 65
  BY StructFacts
<1>2. /\ Check(to, 0, Pad) \in Seq(Steps) /\ Check(to, 3, Pad) \in Seq(Steps)
      /\ Check(to, 0, Pad - 3) \in Seq(Steps) /\ Check(to, 3, Pad - 3) \in Seq(Steps)
      /\ Invalidate(to) \in Seq(Steps) /\ Shifted(to) \in Seq(Steps)
  <2>1. ASSUME NEW a \in Nat, NEW b \in Nat PROVE Check(to, a, b) \in Seq(Steps)
    BY StructSteps
  <2>2. Invalidate(to) \in Seq(Steps) /\ Shifted(to) \in Seq(Steps)
    BY StructSteps
  <2>3. Pad \in Nat /\ Pad - 3 \in Nat
    BY DEF Pad
  <2> QED BY <2>1, <2>2, <2>3
<1>3. /\ Copy(fn, to, 0, from, 0, Sizeof) \in Seq(Steps)
      /\ Copy(fn, to, 3, from, 3, Sizeof - 3) \in Seq(Steps)
      /\ Copy(fn, to, 0, from, 0, Sizeof - 3) \in Seq(Steps)
      /\ Copy(fn, to, 3, from, 3, Sizeof - 6) \in Seq(Steps)
      /\ Copy(fn, to, 0, from, 1, Sizeof - 1) \in Seq(Steps)
  <2>1. ASSUME NEW d \in Nat, NEW s \in Nat, NEW n \in Nat, d + n <= Sizeof, s + n <= Sizeof
        PROVE  Copy(fn, to, d, from, s, n) \in Seq(Steps)
    BY <2>1, StructCopy
  <2>2. /\ Sizeof - 1 \in Nat /\ Sizeof - 3 \in Nat /\ Sizeof - 6 \in Nat
        /\ 0 + Sizeof <= Sizeof /\ 3 + (Sizeof - 3) <= Sizeof /\ 3 + (Sizeof - 6) <= Sizeof
        /\ 0 + (Sizeof - 3) <= Sizeof /\ 0 + (Sizeof - 1) <= Sizeof /\ 1 + (Sizeof - 1) <= Sizeof
    BY <1>1
  <2> QED BY <1>1, <2>1, <2>2
<1>4. Aligned(fn, to, from) \in Seq(Steps)
  BY <1>2, <1>3, Joined DEF Aligned
<1>5. Ends(fn, to, from) \in Seq(Steps)
  BY <1>2, <1>3, Joined DEF Ends
<1>6. Differs(fn, to, from) \in Seq(Steps)
  BY <1>2, <1>3, Joined DEF Differs
<1>7. Round(fn, to, from) \in Seq(Steps)
  BY <1>2, <1>4, <1>5, <1>6, Joined DEF Round
<1> QED BY <1>4, <1>5, <1>6, <1>7

\* Every test makes calls on ranges in memory only.
LEMMA StructScript == StructTest => Script \in Seq(Steps)
<1> SUFFICES ASSUME StructTest PROVE Script \in Seq(Steps)
  OBVIOUS
<1>1. Sizeof \in Nat /\ Sizeof >= 65
  BY StructFacts
<1>2. /\ Invalidate(1) \in Seq(Steps) /\ Invalidate(2) \in Seq(Steps)
      /\ FillStruct(1) \in Seq(Steps) /\ SetY(1, 2) \in Seq(Steps) /\ SetY(2, 1) \in Seq(Steps)
      /\ Check(2, 0, Pad) \in Seq(Steps) /\ Check(2, 3, Pad - 3) \in Seq(Steps)
      /\ Check(1, 12, 12) \in Seq(Steps)
  <2>1. ASSUME NEW t \in {1, 2}, NEW a \in Nat, NEW b \in Nat
        PROVE  Check(t, a, b) \in Seq(Steps)
    BY StructSteps
  <2>2. ASSUME NEW t \in {1, 2}, NEW x \in {1, 2}
        PROVE  /\ Invalidate(t) \in Seq(Steps) /\ FillStruct(t) \in Seq(Steps)
               /\ SetY(t, x) \in Seq(Steps)
    BY StructSteps
  <2>3. Pad \in Nat /\ Pad - 3 \in Nat
    BY DEF Pad
  <2> QED BY <2>1, <2>2, <2>3
<1>3. Setup \in Seq(Steps)
  BY <1>2, Joined DEF Setup
<1>4. ASSUME NEW fn \in Fns
      PROVE  /\ Round(fn, 2, 1) \in Seq(Steps) /\ Round(fn, 1, 2) \in Seq(Steps)
             /\ Aligned(fn, 1, 2) \in Seq(Steps) /\ Ends(fn, 1, 2) \in Seq(Steps)
             /\ Differs(fn, 1, 2) \in Seq(Steps)
             /\ Copy(fn, 2, 0, 1, 0, Sizeof) \in Seq(Steps)
             /\ Copy(fn, 2, 3, 1, 3, Sizeof - 6) \in Seq(Steps)
             /\ Copy(fn, 1, 12, 2, 12, Sizeof - 16) \in Seq(Steps)
             /\ TurnAround(fn) \in Seq(Steps)
  <2>1. /\ Round(fn, 2, 1) \in Seq(Steps) /\ Round(fn, 1, 2) \in Seq(Steps)
        /\ Aligned(fn, 1, 2) \in Seq(Steps) /\ Ends(fn, 1, 2) \in Seq(Steps)
        /\ Differs(fn, 1, 2) \in Seq(Steps)
    BY Parts
  <2>2. /\ Copy(fn, 2, 0, 1, 0, Sizeof) \in Seq(Steps)
        /\ Copy(fn, 2, 3, 1, 3, Sizeof - 6) \in Seq(Steps)
        /\ Copy(fn, 1, 12, 2, 12, Sizeof - 16) \in Seq(Steps)
    <3>1. Copy(fn, 2, 0, 1, 0, Sizeof) \in Seq(Steps)
      BY <1>1, StructCopy
    <3>2. Copy(fn, 2, 3, 1, 3, Sizeof - 6) \in Seq(Steps)
      BY <1>1, StructCopy
    <3>3. Copy(fn, 1, 12, 2, 12, Sizeof - 16) \in Seq(Steps)
      BY <1>1, StructCopy
    <3> QED BY <3>1, <3>2, <3>3
  <2>3. TurnAround(fn) \in Seq(Steps)
    BY <1>2, <2>2, Joined DEF TurnAround
  <2> QED BY <2>1, <2>2, <2>3
<1>5. "memcpy" \in Fns /\ "memcpy_c" \in Fns /\ "memmove" \in Fns /\ "bcopy" \in Fns
  BY DEF Fns
<1>6. clang_hybrid_memcpy \in Seq(Steps)
  BY <1>2, <1>3, <1>4, <1>5, Joined DEF clang_hybrid_memcpy
<1>7. clang_hybrid_bcopy \in Seq(Steps)
  BY <1>3, <1>4, <1>5, Joined DEF clang_hybrid_bcopy
<1>8. clang_hybrid_memmove \in Seq(Steps)
  BY <1>2, <1>3, <1>4, <1>5, Joined DEF clang_hybrid_memmove
<1>9. libc_memcpy \in Seq(Steps)
  BY <1>2, <1>3, <1>4, <1>5, Joined DEF libc_memcpy
<1>10. test \in {"clang_hybrid_memcpy", "clang_hybrid_memmove", "clang_hybrid_bcopy",
                 "libc_memcpy"}
  BY CopyTestsAssumption DEF StructTest, BuildOK
<1> QED BY <1>6, <1>7, <1>8, <1>9, <1>10 DEF Script

\* libc_memmove moves the last eight pointers of the buffer to its start.
LEMMA BufferScript == BuildOK /\ test = "libc_memmove" => Script \in Seq(Steps)
<1> SUFFICES ASSUME BuildOK, test = "libc_memmove" PROVE Script \in Seq(Steps)
  OBVIOUS
<1> DEFINE c == sizes[2]
<1>1. c \in Nat \ {0} /\ base = <<0>> /\ Size = 10 * c
  BY BuildFacts DEF BuildOK, Size
<1>2. [op |-> "digits"] \in Steps /\ [op |-> "checkdigits"] \in Steps
  BY DEF Steps, StepRecords, StepOK
<1>3. Copy("memmove", 1, 0, 1, 2 * c, 8 * c) \in Seq(Steps)
  <2> DEFINE q == [op |-> "copy", fn |-> "memmove", to |-> 1, d |-> 0, from |-> 1,
                   s |-> 2 * c, n |-> 8 * c]
  <2>1. ArgsOK("memmove", base[1] + 0, base[1] + 2 * c, 8 * c)
    BY <1>1 DEF ArgsOK, Fns
  <2>2. q \in StepRecords
    BY <1>1 DEF StepRecords, Fns
  <2>3. StepOK(q)
    BY <2>1 DEF StepOK
  <2> QED BY <2>2, <2>3, One DEF Steps, Copy
<1>4. libc_memmove \in Seq(Steps)
  BY <1>2, <1>3, One, Joined DEF libc_memmove
<1> QED BY <1>4 DEF Script

\* Every test and every single call starts in the invariant.
LEMMA CopyInit == Init => CopyInv
<1> SUFFICES ASSUME Init PROVE CopyInv
  OBVIOUS
<1>1. pc = "idle" /\ loop = NoLoop /\ (TestInit \/ CallInit)
  BY DEF Init
<1>2. RoutineInv
  BY <1>1 DEF RoutineInv, Phases
<1>3. CASE TestInit
  <2>1. test # "none"
    BY <1>3, CopyTestsAssumption DEF TestInit
  <2>2. BuildOK
    <3>1. PICK c \in CapSizes : sizes = <<WordSize, c>>
      BY <1>3 DEF TestInit
    <3>2. WordSize \in Nat \ {0} /\ c \in Nat \ {0} /\ c % WordSize = 0 /\ 32 % c = 0 /\ c > 1
      BY CopyTestsAssumption
    <3>3. test \in Tests /\ IF test = "libc_memmove" THEN base = <<0>>
                            ELSE base \in {<<0, Sizeof>>, <<Sizeof, 0>>}
      BY <1>3 DEF TestInit
    <3> QED BY <2>1, <3>1, <3>2, <3>3 DEF BuildOK
  <2>3. mem = [a \in Memory |-> Junk] /\ tag \in {{}, {a \in DOMAIN mem : a % sizes[2] = 0}}
    BY <1>3, <2>1 DEF TestInit, Memory, Size
  <2>4. MemoryOK
    BY <2>3 DEF MemoryOK, Granules, Junk
  <2>5. script \in Seq(Steps)
    BY <1>3, <2>1, <2>2, StructScript, BufferScript DEF TestInit, StructTest
  <2> QED BY <1>2, <2>2, <2>4, <2>5 DEF CopyInv
<1>4. CASE CallInit
  <2>1. PICK c \in CallCaps, fn \in Fns :
          \E d, s, n \in 0 .. (MaxCaps * c + 2 * CallWord) - 1 :
            /\ test = "none" /\ sizes = <<CallWord, c>> /\ base = <<d, s>>
            /\ fn \in {"memcpy", "memcpy_c"} => Disjoint(d, s, n)
            /\ mem = [a \in 0 .. 2 * (MaxCaps * c + 2 * CallWord) - 1 |-> a]
            /\ tag = IF c > CallWord THEN {a \in DOMAIN mem : a % c = 0} ELSE {}
            /\ script = Copy(fn, 1, 0, 2, 0, n)
    BY <1>4 DEF CallInit, Fns
  <2> DEFINE top == MaxCaps * c + 2 * CallWord
  <2>2. PICK d \in 0 .. top - 1, s \in 0 .. top - 1, n \in 0 .. top - 1 :
            /\ test = "none" /\ sizes = <<CallWord, c>> /\ base = <<d, s>>
            /\ fn \in {"memcpy", "memcpy_c"} => Disjoint(d, s, n)
            /\ mem = [a \in 0 .. 2 * top - 1 |-> a]
            /\ tag = IF c > CallWord THEN {a \in DOMAIN mem : a % c = 0} ELSE {}
            /\ script = Copy(fn, 1, 0, 2, 0, n)
    BY <2>1
  <2>3. CallWord \in Nat \ {0} /\ c \in Nat \ {0} /\ c % CallWord = 0 /\ top \in Nat
    <3>1. CallWord \in Nat \ {0} /\ c \in Nat \ {0} /\ c % CallWord = 0 /\ MaxCaps \in Nat
      BY CopyTestsAssumption
    <3>2. MaxCaps * c \in Nat
      BY <3>1
    <3> QED BY <3>1, <3>2
  <2>4. Size = 2 * top /\ Memory = 0 .. 2 * top - 1
    BY <2>2, <2>3 DEF Size, Memory
  <2> HIDE DEF top
  <2>5. d \in Nat /\ s \in Nat /\ n \in Nat
    BY <2>2, <2>3
  <2>6. BuildOK
    BY <2>2, <2>3, <2>5 DEF BuildOK
  <2>7. MemoryOK
    <3>1. mem = [a \in Memory |-> a] /\ Memory \subseteq Int
      BY <2>2, <2>3, <2>4
    <3>2. mem \in [Memory -> Int]
      BY <3>1
    <3>3. tag \subseteq Granules
      BY <2>2, <3>1 DEF Granules
    <3> QED BY <3>2, <3>3 DEF MemoryOK
  <2>8. script \in Seq(Steps)
    <3> DEFINE q == [op |-> "copy", fn |-> fn, to |-> 1, d |-> 0, from |-> 2, s |-> 0, n |-> n]
    <3>1. base[1] = d /\ base[2] = s
      BY <2>2
    <3>2. d + n <= Size /\ s + n <= Size
      BY <2>2, <2>3, <2>4
    <3>3. ArgsOK(fn, base[1] + 0, base[2] + 0, n)
      BY <2>2, <2>5, <3>1, <3>2 DEF ArgsOK
    <3>4. q \in StepRecords
      BY <2>1, <2>5 DEF StepRecords
    <3>5. StepOK(q)
      BY <3>3 DEF StepOK
    <3> QED BY <2>2, <3>4, <3>5, One DEF Steps, Copy
  <2> QED BY <1>2, <2>6, <2>7, <2>8 DEF CopyInv
<1> QED BY <1>1, <1>3, <1>4

\* The inductive invariant of the copying tests and of the routine they call.
THEOREM CopyInvariance == Spec => []CopyInv
<1>1. CopyInv /\ [Next]_vars => CopyInv'
  <2> SUFFICES ASSUME CopyInv, [Next]_vars PROVE CopyInv'
    OBVIOUS
  <2>1. CASE Routine
    BY <2>1, RoutineStep
  <2>2. CASE Call
    BY <2>2, CallStep
  <2>3. CASE \/ Returned \/ InvalidateStruct \/ Fill \/ AssignY \/ CheckStruct
             \/ CheckShifted \/ FillDigits \/ CheckDigits
    BY <2>3, TestStep
  <2>4. CASE UNCHANGED vars
    <3>1. /\ UNCHANGED <<mem, tag, call, pc, dst, src, len, loop, old>>
          /\ UNCHANGED <<test, sizes, base, script>>
      BY <2>4 DEF vars, copyVars
    <3>2. BuildOK /\ MemoryOK /\ script \in Seq(Steps) /\ RoutineInv
      BY DEF CopyInv
    <3>3. /\ D' = D /\ S' = S /\ Length' = Length /\ W' = W /\ P' = P
          /\ Up' = Up /\ Memory' = Memory /\ Granules' = Granules /\ Size' = Size
      BY <3>1, Frame
    <3>4. BuildOK' /\ MemoryOK' /\ Steps' = Steps /\ (CallOK => CallOK')
      BY <3>1, <3>2, <3>3
      DEF BuildOK, MemoryOK, Sizeof, Steps, StepOK, ArgsOK, CallOK, Y, Pad
    <3>5. Working /\ PhaseInv => Working' /\ PhaseInv'
      <4> SUFFICES ASSUME Working, PhaseInv PROVE Working' /\ PhaseInv'
        OBVIOUS
      <4>1. Working' /\ Todo' = Todo
        BY <3>1, NoLoopStart
      <4>2. PhaseInv'
        BY <3>1, <3>3, <4>1 DEF PhaseInv, On
      <4> QED BY <4>1, <4>2
    <3>6. RoutineInv'
      BY <3>1, <3>2, <3>3, <3>4, <3>5 DEF RoutineInv, Untouched
    <3> QED BY <3>1, <3>2, <3>4, <3>6 DEF CopyInv
  <2> QED BY <2>1, <2>2, <2>3, <2>4 DEF Next
<1> QED BY <1>1, CopyInit, PTL DEF Spec

\* memcpy.c, MIPSLOOP and the counts of the phases: no call leaves the bounds
\* of dst and src or makes an unaligned access, for every size of words and
\* capabilities, alignment and length.
THEOREM RoutineNeverTraps == Spec => []NeverTraps
<1>1. CopyInv => NeverTraps
  BY DEF CopyInv, RoutineInv, Phases, NeverTraps
<1> QED BY <1>1, CopyInvariance, PTL

\* A granule with a byte that is written is one the destination touches.
LEMMA MeetsTouched ==
  ASSUME BuildOK, CallOK, Working, NEW a \in Granules, Meets(a)
  PROVE  a \in AbstractCall!Touched(call)
<1>1. /\ P \in Nat \ {0} /\ D \in Nat /\ Length \in Nat /\ Size \in Nat
      /\ AbstractCall!Target(call) = D .. D + Length - 1
  BY CallFacts DEF AbstractCall!Target, D, Length
<1>2. a \in Int /\ a % P = 0
  BY <1>1 DEF Granules, CallOK, Memory
<1>3. From \in Int /\ To \in Int /\ D <= From /\ To <= D + Length
  <2>1. CASE loop = NoLoop
    BY <1>1, <2>1 DEF Working, PointersInv, From, To, Cursor, NoLoop
  <2>2. CASE loop # NoLoop
    <3>1. loop.unit \in {1, W, P} /\ loop.t \in Int /\ W \in Int
      BY <2>2, CallFacts DEF Working, LoopInv
    <3> QED BY <1>1, <3>1 DEF Working, PointersInv, From, To, Cursor
  <2> QED BY <2>1, <2>2
<1>4. PICK b \in Int : b = IF a < From THEN From ELSE a
  BY <1>2, <1>3
<1>5. b \in D .. D + Length - 1 /\ a <= b /\ b < a + P
  BY <1>1, <1>2, <1>3, <1>4 DEF Meets
<1>6. b % P \in 0 .. P - 1
  BY <1>1, Remainder
<1>7. (b - (b % P)) % P = 0
  BY <1>1, Remainder
<1>8. b - (b % P) \in Int
  BY <1>1, <1>6
<1>9. PICK g \in Int : g = b - (b % P)
  BY <1>8
<1>10. g < a => g + P <= a
  BY <1>1, <1>2, <1>7, <1>9, MultipleGap
<1>11. a < g => a + P <= g
  BY <1>1, <1>2, <1>7, <1>9, MultipleGap
<1>12. b - (b % P) = a
  BY <1>1, <1>2, <1>5, <1>6, <1>9, <1>10, <1>11
<1> QED BY <1>1, <1>5, <1>12 DEF AbstractCall!Touched, AbstractCall!Granule, P

\* At the return everything is copied, and the tags are those of whole granules.
LEMMA ReturnCopied ==
  ASSUME CopyInv, Return
  PROVE  /\ mem = AbstractCall!CopiedBytes(call, old.mem)
         /\ tag = AbstractCall!CopiedTags(call, old.tag)
<1>1. /\ pc = "return" /\ loop = NoLoop /\ BuildOK /\ MemoryOK /\ CallOK
      /\ \/ (Length = 0 \/ S = D) /\ Untouched
         \/ Working /\ PhaseInv
  BY DEF CopyInv, RoutineInv, Return, Phases
<1>2. /\ P \in Nat \ {0} /\ D \in Nat /\ S \in Nat /\ Length \in Nat /\ Size \in Nat
      /\ Memory = 0 .. Size - 1 /\ old.mem \in [Memory -> Int] /\ DOMAIN old.mem = Memory
      /\ old.tag \subseteq Granules /\ tag \subseteq Granules
      /\ D + Length <= Size /\ Granules = {a \in Memory : a % P = 0}
  BY <1>1, CallFacts DEF CallOK, MemoryOK, Memory, Granules
<1>3. AbstractCall!Target(call) = D .. D + Length - 1
  BY DEF AbstractCall!Target, D, Length
<1>4. AbstractCall!CopiedBytes(call, old.mem) =
        [a \in Memory |-> IF a \in D .. D + Length - 1 THEN old.mem[S + (a - D)] ELSE old.mem[a]]
  BY <1>2, <1>3 DEF AbstractCall!CopiedBytes, D, S
<1>5. CASE (Length = 0 \/ S = D) /\ Untouched
  <2>1. ASSUME NEW a \in Memory
        PROVE  (IF a \in D .. D + Length - 1 THEN old.mem[S + (a - D)] ELSE old.mem[a]) = old.mem[a]
    BY <1>2, <1>5
  <2>2. mem = AbstractCall!CopiedBytes(call, old.mem)
    BY <1>2, <1>4, <1>5, <2>1 DEF Untouched
  <2>3. tag = AbstractCall!CopiedTags(call, old.tag)
    BY <1>5 DEF AbstractCall!CopiedTags, AbstractCall!Trivial, Untouched, D, S, Length
  <2> QED BY <2>2, <2>3
<1>6. CASE Working /\ PhaseInv
  <2>1. From = D /\ To = D + Length /\ Length > 0 /\ S # D
    <3>1. Todo = 0 /\ dst \in Int /\ Length > 0 /\ S # D
      BY <1>1, <1>6 DEF Working, PhaseInv, PointersInv
    <3>2. Cursor = dst
      BY <1>1, <3>1 DEF Cursor, NoLoop
    <3> QED BY <1>2, <3>1, <3>2 DEF From, To, Todo
  <2>2. mem = AbstractCall!CopiedBytes(call, old.mem)
    <3>1. ASSUME NEW a \in Memory PROVE Written(a) <=> a \in D .. D + Length - 1
      BY <1>2, <2>1 DEF Written
    <3>2. mem = [a \in Memory |-> IF Written(a) THEN old.mem[S + (a - D)] ELSE old.mem[a]]
      BY <1>6 DEF Working, BytesInv
    <3> QED BY <1>4, <3>1, <3>2
  <2>3. ASSUME NEW a \in Granules
        PROVE  /\ Meets(a) <=> a \in AbstractCall!Touched(call)
               /\ a .. a + P - 1 \subseteq D .. D + Length - 1 <=> D <= a /\ a + P <= D + Length
    <3>1. a \in Int /\ a % P = 0
      BY <1>2
    <3>2. ASSUME Meets(a) PROVE a \in AbstractCall!Touched(call)
      BY <1>1, <1>6, <3>2, MeetsTouched
    <3>3. ASSUME a \in AbstractCall!Touched(call) PROVE Meets(a)
      <4>1. PICK b \in D .. D + Length - 1 : a = b - (b % P)
        BY <1>3, <3>3 DEF AbstractCall!Touched, AbstractCall!Granule, P
      <4>2. b % P \in 0 .. P - 1
        BY <1>2, Remainder
      <4> QED BY <1>2, <2>1, <3>1, <4>1, <4>2 DEF Meets
    <3>4. a .. a + P - 1 \subseteq D .. D + Length - 1 <=> D <= a /\ a + P <= D + Length
      <4>1. a \in a .. a + P - 1 /\ a + P - 1 \in a .. a + P - 1
        BY <1>2, <3>1
      <4>2. ASSUME a .. a + P - 1 \subseteq D .. D + Length - 1
            PROVE  D <= a /\ a + P <= D + Length
        <5>1. a \in D .. D + Length - 1 /\ a + P - 1 \in D .. D + Length - 1
          BY <4>1, <4>2
        <5> QED BY <1>2, <3>1, <5>1
      <4>3. ASSUME D <= a, a + P <= D + Length, NEW b \in a .. a + P - 1
            PROVE  b \in D .. D + Length - 1
        BY <1>2, <3>1, <4>3
      <4> QED BY <4>2, <4>3
    <3> QED BY <3>2, <3>3, <3>4
  <2>4. AbstractCall!Touched(call) \cap Memory \subseteq Granules
    <3>1. ASSUME NEW b \in D .. D + Length - 1 PROVE (b - (b % P)) % P = 0
      <4>1. b \in Int
        BY <1>2
      <4> QED BY <1>2, <4>1, Remainder
    <3> QED BY <1>2, <1>3, <3>1 DEF AbstractCall!Touched, AbstractCall!Granule, P
  <2>5. tag = AbstractCall!CopiedTags(call, old.tag)
    <3> DEFINE T == AbstractCall!Touched(call)
               K == {g \in T : /\ g .. g + P - 1 \subseteq D .. D + Length - 1
                               /\ S + (g - D) \in old.tag}
    <3>1. AbstractCall!CopiedTags(call, old.tag) = (old.tag \ T) \cup K
      BY <1>3, <2>1
      DEF AbstractCall!CopiedTags, AbstractCall!Trivial, D, S, Length, P
    <3>2. K \subseteq Granules
      <4> SUFFICES ASSUME NEW g \in K PROVE g \in Granules
        OBVIOUS
      <4>1. PICK b \in D .. D + Length - 1 : g = b - (b % P)
        BY <1>3 DEF AbstractCall!Touched, AbstractCall!Granule, P
      <4>2. b \in Int
        BY <1>2
      <4>3. b % P \in 0 .. P - 1
        BY <1>2, <4>2, Remainder
      <4>4. g \in Int /\ g \in g .. g + P - 1
        BY <1>2, <4>1, <4>2, <4>3
      <4>5. g \in D .. D + Length - 1
        BY <4>4
      <4>6. g \in Memory
        BY <1>2, <4>4, <4>5
      <4> QED BY <2>4, <4>6
    <3>3. ASSUME NEW a \in Granules PROVE a \in tag <=> a \in (old.tag \ T) \cup K
      BY <1>6, <2>3 DEF Working, TagsInv
    <3> QED BY <1>2, <3>1, <3>2, <3>3
  <2> QED BY <2>2, <2>5
<1> QED BY <1>1, <1>5, <1>6

\* A turn changes only the destination, and the tags of granules it touches.
LEMMA TurnInTarget ==
  ASSUME CopyInv, Turn, UNCHANGED <<test, sizes>>
  PROVE  AbstractCall!Work
<1>1. BuildOK /\ MemoryOK /\ RoutineInv /\ loop # NoLoop /\ UNCHANGED <<call, old>>
  BY DEF CopyInv, Turn
<1>2. CallOK /\ Working /\ pc \in Phases
  BY <1>1 DEF RoutineInv, Phases, Untouched
<1>3. /\ MemoryOK' /\ UNCHANGED pc
      /\ \A a \in Memory \ (D .. D + Length - 1) : mem'[a] = mem[a]
      /\ \E d \in D .. D + Length - 1 : \A a : a # d - (d % P) => (a \in tag' <=> a \in tag)
  BY <1>1, <1>2, TurnWorks
<1>4. Memory' = Memory /\ DOMAIN mem = Memory /\ DOMAIN mem' = Memory'
  BY <1>1, <1>3, Frame DEF MemoryOK
<1>5. AbstractCall!Target(call) = D .. D + Length - 1
  BY DEF AbstractCall!Target, D, Length
<1>6. tag \ tag' \subseteq AbstractCall!Touched(call)
      /\ tag' \ tag \subseteq AbstractCall!Touched(call)
  <2>1. PICK d \in D .. D + Length - 1 : \A a : a # d - (d % P) => (a \in tag' <=> a \in tag)
    BY <1>3
  <2>2. d - (d % P) \in AbstractCall!Touched(call)
    BY <1>5 DEF AbstractCall!Touched, AbstractCall!Granule, P
  <2> QED BY <2>1, <2>2
<1>7. pc \notin {"idle", "done"}
  BY <1>2 DEF Phases
<1> QED BY <1>1, <1>3, <1>4, <1>5, <1>6, <1>7 DEF AbstractCall!Work

\* memcpy.c implements the abstract copy for every call: the turns of its
\* loops change only the destination, and its return finds it copied, bytes
\* and tags, forwards and backwards.
THEOREM CopyRefinement == Spec => ImplementsAbstractCopy
<1>1. Init => AbstractCall!Init
  BY DEF Init, AbstractCall!Init
<1>2. CopyInv /\ [Next]_vars => [AbstractCall!Next]_(AbstractCall!vars)
  <2> SUFFICES ASSUME CopyInv, [Next]_vars
               PROVE  \/ AbstractCall!Next
                      \/ UNCHANGED <<mem, tag, call, pc \notin {"idle", "done"}, old>>
    BY DEF AbstractCall!vars
  <2>1. ASSUME Routine, ~Turn, ~Return
        PROVE  UNCHANGED <<mem, tag, call, pc \notin {"idle", "done"}, old>>
    BY <2>1 DEF Routine, CopyNext, Begin, Align, Words, Ptrs, TailBytes, Phase
  <2>2. ASSUME Routine, Turn PROVE AbstractCall!Next
    BY <2>2, TurnInTarget DEF Routine, AbstractCall!Next
  <2>3. ASSUME Routine, Return PROVE AbstractCall!Next
    <3>1. pc = "return" /\ pc' = "done" /\ UNCHANGED <<mem, tag, call, old>>
      BY <2>3 DEF Return
    <3> QED BY <2>3, <3>1, ReturnCopied DEF AbstractCall!Next, AbstractCall!Finish
  <2>4. ASSUME Call PROVE AbstractCall!Next
    BY <2>4 DEF Call, Enter, AbstractCall!Next, AbstractCall!Caller
  <2>5. ASSUME \/ Returned \/ InvalidateStruct \/ Fill \/ AssignY \/ CheckStruct
               \/ CheckShifted \/ FillDigits \/ CheckDigits
        PROVE  AbstractCall!Next
    <3>1. pc \in {"idle", "done"} /\ pc' = "idle"
      BY <2>5 DEF Returned, InvalidateStruct, Fill, AssignY, CheckStruct, CheckShifted,
                  FillDigits, CheckDigits, At, Quiet
    <3> QED BY <3>1 DEF AbstractCall!Next, AbstractCall!Caller
  <2>6. CASE UNCHANGED vars
    BY <2>6 DEF vars, copyVars
  <2> QED BY <2>1, <2>2, <2>3, <2>4, <2>5, <2>6 DEF Next
<1> QED BY <1>1, <1>2, CopyInvariance, PTL
        DEF Spec, ImplementsAbstractCopy, AbstractCall!Spec

-----------------------------------------------------------------------------
\* The memcpy tests check that a call returns the destination.
ReturnsDst == test \in {"clang_hybrid_memcpy", "libc_memcpy"}

\* The copy of libc_memmove.
DigitsCopy(q) ==
  q.to = 1 /\ q.d = 0 /\ q.from = 1 /\ q.s = 2 * sizes[2] /\ q.n = 8 * sizes[2]

\* A step a test may take when structure a is the one it copies from (3: the
\* buffer of digits; 0: none): it leaves that structure alone.
Fits(q, a) ==
  /\ q.op = "copy" =>
       /\ ReturnsDst => q.fn # "bcopy"
       /\ \/ /\ a \in {1, 2} /\ q.from = a /\ q.to = 3 - a
             /\ q.d + q.n <= Sizeof /\ q.s + q.n <= Sizeof
          \/ a = 3 /\ DigitsCopy(q)
  /\ q.op = "invalidate" => a \in {0, 1, 2} /\ q.t # a
  /\ q.op = "fill" => a = 0
  /\ q.op \in {"fill", "sety"} => test # "libc_memmove"
  /\ q.op = "digits" => test = "libc_memmove"

\* The structure to copy from behind step q.
After(q, a) ==
  IF q.op = "sety" THEN q.t
  ELSE IF q.op = "digits" THEN 3
  ELSE IF q.op = "copy" /\ a = 3 THEN 0 ELSE a

\* Steps that rely on the one before them, and what makes q such a one for r.
Dependent == {"check", "shifted", "sety", "checkdigits"}
Justifies(q, r) ==
  /\ r.op = "check" =>
       /\ q.op = "copy" /\ q.to = r.t /\ q.d = q.s /\ q.d <= r.start /\ q.d <= Y
       /\ Pad1 + r.end <= q.d + q.n
  /\ r.op = "shifted" =>
       q.op = "copy" /\ q.to = r.t /\ q.d = 0 /\ q.s = 1 /\ q.n = Sizeof - 1
  /\ r.op = "sety" =>
       /\ r.x = 3 - r.t
       /\ \/ q.op = "fill" /\ q.t = r.t
          \/ q.op = "copy" /\ q.to = r.t /\ q.d = 0 /\ q.s = 0 /\ q.n = Sizeof
  /\ r.op = "checkdigits" => q.op = "copy" /\ DigitsCopy(q)

\* A script s, with the structure f[i] copied from at its i-th step: every
\* step fits, and what one relies on its predecessor has established.
Typed(s, f) ==
  /\ f \in [Nat -> 0 .. 3]
  /\ \A i \in 1 .. Len(s) : Fits(s[i], f[i]) /\ f[i + 1] = After(s[i], f[i])
  /\ \A i \in 2 .. Len(s) : s[i].op \in Dependent => Justifies(s[i - 1], s[i])

\* A piece of script that starts with structure a to copy from, relying on
\* nothing before it, and ends with structure b.
Block(a, b) ==
  {s \in Seq(Steps) :
     /\ s # <<>> /\ s[1].op \notin Dependent
     /\ \E f : Typed(s, f) /\ f[1] = a /\ f[Len(s) + 1] = b}

\* Two blocks joined at the structure they share are a block.
LEMMA BlockJoin ==
  ASSUME NEW a, NEW b, NEW c, NEW s \in Block(a, b), NEW t \in Block(b, c)
  PROVE  s \o t \in Block(a, c)
<1>1. s \in Seq(Steps) /\ t \in Seq(Steps) /\ s # <<>> /\ t # <<>>
      /\ s[1].op \notin Dependent /\ t[1].op \notin Dependent
  BY DEF Block
<1> DEFINE n == Len(s)
           m == Len(t)
           u == s \o t
<1>2. /\ n \in Nat \ {0} /\ m \in Nat \ {0} /\ u \in Seq(Steps) /\ Len(u) = n + m
      /\ \A i \in 1 .. n : u[i] = s[i]
      /\ \A i \in 1 .. m : u[n + i] = t[i]
  BY <1>1
<1>3. PICK f : Typed(s, f) /\ f[1] = a /\ f[n + 1] = b
  BY DEF Block
<1>4. PICK g : Typed(t, g) /\ g[1] = b /\ g[m + 1] = c
  BY DEF Block
<1>5. f \in [Nat -> 0 .. 3] /\ g \in [Nat -> 0 .. 3]
  BY <1>3, <1>4 DEF Typed
<1> DEFINE h == [i \in Nat |-> IF i <= n THEN f[i] ELSE g[i - n]]
<1>6. h \in [Nat -> 0 .. 3]
  BY <1>2, <1>5
<1>7. /\ \A i \in 1 .. n + 1 : h[i] = f[i]
      /\ \A i \in 1 .. m + 1 : h[n + i] = g[i]
  BY <1>2, <1>3, <1>4
<1> HIDE DEF h, u, n, m
<1>8. ASSUME NEW i \in 1 .. n + m
      PROVE  Fits(u[i], h[i]) /\ h[i + 1] = After(u[i], h[i])
  <2>1. CASE i <= n
    <3>1. u[i] = s[i] /\ h[i] = f[i] /\ h[i + 1] = f[i + 1] /\ i \in 1 .. n
      BY <1>2, <1>7, <2>1
    <3> QED BY <1>3, <3>1 DEF Typed, n
  <2>2. CASE i > n
    <3>1. PICK j \in 1 .. m : i = n + j
      <4>1. i - n \in 1 .. m /\ i = n + (i - n)
        BY <1>2, <2>2
      <4> QED BY <4>1
    <3>2. u[i] = t[j] /\ h[i] = g[j] /\ h[i + 1] = g[j + 1]
      <4>1. j + 1 \in 1 .. m + 1 /\ i + 1 = n + (j + 1) /\ j \in 1 .. m + 1
        BY <1>2, <3>1
      <4> QED BY <1>2, <1>7, <3>1, <4>1
    <3> QED BY <1>4, <3>2 DEF Typed, m
  <2> QED BY <1>2, <2>1, <2>2
<1>9. ASSUME NEW i \in 2 .. n + m, u[i].op \in Dependent PROVE Justifies(u[i - 1], u[i])
  <2>1. CASE i <= n
    <3>1. u[i] = s[i] /\ u[i - 1] = s[i - 1] /\ i \in 2 .. n
      BY <1>2, <2>1
    <3> QED BY <1>3, <1>9, <3>1 DEF Typed, n
  <2>2. CASE i > n
    <3>1. PICK j \in 1 .. m : i = n + j
      <4>1. i - n \in 1 .. m /\ i = n + (i - n)
        BY <1>2, <2>2
      <4> QED BY <4>1
    <3>2. u[i] = t[j]
      BY <1>2, <3>1
    <3>3. j # 1
      BY <1>1, <1>9, <3>2
    <3>4. j \in 2 .. m /\ u[i - 1] = t[j - 1]
      <4>1. j - 1 \in 1 .. m /\ i - 1 = n + (j - 1)
        BY <1>2, <3>1, <3>3
      <4> QED BY <1>2, <3>3, <4>1
    <3> QED BY <1>4, <1>9, <3>2, <3>4 DEF Typed, m
  <2> QED BY <1>2, <2>1, <2>2
<1>10. Typed(u, h)
  BY <1>2, <1>6, <1>8, <1>9 DEF Typed
<1>11. h[1] = a /\ h[Len(u) + 1] = c
  <2>1. 1 \in 1 .. n + 1 /\ m + 1 \in 1 .. m + 1 /\ Len(u) + 1 = n + (m + 1)
    BY <1>2
  <2> QED BY <1>3, <1>4, <1>7, <2>1
<1>12. u # <<>> /\ u[1].op \notin Dependent
  <2>1. 1 \in 1 .. n /\ Len(u) # 0
    BY <1>2
  <2> QED BY <1>1, <1>2, <2>1
<1>13. u \in Block(a, c)
  BY <1>2, <1>10, <1>11, <1>12 DEF Block
<1> QED BY <1>13 DEF u

\* The operator \o groups to the left.
LEMMA BlockMore ==
  ASSUME NEW a, NEW b, NEW c, NEW s \in Block(a, b),
         NEW t \in Seq(Steps), NEW u \in Seq(Steps), t \o u \in Block(b, c)
  PROVE  (s \o t) \o u \in Block(a, c)
<1>1. s \in Seq(Steps)
  BY DEF Block
<1>2. (s \o t) \o u = s \o (t \o u)
  BY <1>1
<1> QED BY <1>2, BlockJoin

\* A step that relies on nothing is a block,
LEMMA BlockOne ==
  ASSUME NEW q \in Steps, NEW a \in 0 .. 3, Fits(q, a), q.op \notin Dependent, After(q, a) \in 0 .. 3
  PROVE  <<q>> \in Block(a, After(q, a))
<1> DEFINE s == <<q>>
           f == [i \in Nat |-> IF i = 1 THEN a ELSE After(q, a)]
<1>1. s \in Seq(Steps) /\ Len(s) = 1 /\ s[1] = q /\ s # <<>>
  OBVIOUS
<1>2. f \in [Nat -> 0 .. 3] /\ f[1] = a /\ f[2] = After(q, a)
  OBVIOUS
<1> HIDE DEF s, f
<1>3. Typed(s, f)
  BY <1>1, <1>2 DEF Typed
<1>4. s \in Block(a, After(q, a))
  <2>1. f[Len(s) + 1] = After(q, a) /\ s[1].op \notin Dependent
    BY <1>1, <1>2
  <2> QED BY <1>1, <1>2, <1>3, <2>1 DEF Block
<1> QED BY <1>4 DEF s

\* ... and so is one with a step that it justifies.
LEMMA BlockTwo ==
  ASSUME NEW q \in Steps, NEW r \in Steps, NEW a \in 0 .. 3, NEW b \in 0 .. 3,
         Fits(q, a), q.op \notin Dependent, After(q, a) = b,
         Fits(r, b), After(r, b) \in 0 .. 3, Justifies(q, r)
  PROVE  <<q>> \o <<r>> \in Block(a, After(r, b))
<1> DEFINE s == <<q>> \o <<r>>
           f == [i \in Nat |-> IF i = 1 THEN a ELSE IF i = 2 THEN b ELSE After(r, b)]
<1>1. s \in Seq(Steps) /\ Len(s) = 2 /\ s[1] = q /\ s[2] = r /\ s # <<>>
  OBVIOUS
<1>2. f \in [Nat -> 0 .. 3] /\ f[1] = a /\ f[2] = b /\ f[3] = After(r, b)
  OBVIOUS
<1> HIDE DEF s, f
<1>3. \A i \in 1 .. Len(s) : Fits(s[i], f[i]) /\ f[i + 1] = After(s[i], f[i])
  <2>1. 1 .. 2 = {1, 2}
    OBVIOUS
  <2> QED BY <1>1, <1>2, <2>1
<1>4. \A i \in 2 .. Len(s) : s[i].op \in Dependent => Justifies(s[i - 1], s[i])
  <2>1. 2 .. 2 = {2} /\ 2 - 1 = 1
    OBVIOUS
  <2> QED BY <1>1, <2>1
<1>5. Typed(s, f)
  BY <1>2, <1>3, <1>4 DEF Typed
<1>6. s \in Block(a, After(r, b))
  <2>1. f[Len(s) + 1] = After(r, b) /\ s[1].op \notin Dependent
    BY <1>1, <1>2
  <2> QED BY <1>1, <1>2, <1>5, <2>1 DEF Block
<1> QED BY <1>6 DEF s

\* What is left of a script behind its first step.
LEMMA TypedTail ==
  ASSUME NEW s \in Seq(Steps), s # <<>>, NEW f, Typed(s, f)
  PROVE  /\ Head(s) = s[1] /\ s[1] \in Steps /\ Fits(s[1], f[1]) /\ f[1] \in 0 .. 3
         /\ Tail(s) \in Seq(Steps)
         /\ Tail(s) # <<>> => Tail(s)[1] \in Steps
         /\ Tail(s) # <<>> /\ Tail(s)[1].op \in Dependent => Justifies(s[1], Tail(s)[1])
         /\ \E g : Typed(Tail(s), g) /\ g[1] = After(s[1], f[1])
<1> DEFINE t == Tail(s)
           g == [i \in Nat |-> f[i + 1]]
<1>1. /\ Len(s) \in Nat \ {0} /\ Head(s) = s[1] /\ s[1] \in Steps /\ t \in Seq(Steps)
      /\ Len(t) = Len(s) - 1
  OBVIOUS
<1>2. \A i \in 1 .. Len(t) : t[i] = s[i + 1] /\ t[i] \in Steps
  OBVIOUS
<1>3. f \in [Nat -> 0 .. 3] /\ Fits(s[1], f[1]) /\ f[1] \in 0 .. 3 /\ f[2] = After(s[1], f[1])
  BY <1>1 DEF Typed
<1>4. g \in [Nat -> 0 .. 3] /\ \A i \in Nat : g[i] = f[i + 1]
  BY <1>3
<1>5. t # <<>> => Len(t) >= 1 /\ t[1] = s[2] /\ t[1] \in Steps
  <2>1. t # <<>> => Len(t) # 0
    BY <1>1
  <2> QED BY <1>1, <1>2, <2>1
<1> HIDE DEF t, g
<1>6. t # <<>> /\ t[1].op \in Dependent => Justifies(s[1], t[1])
  <2> SUFFICES ASSUME t # <<>>, t[1].op \in Dependent PROVE Justifies(s[1], t[1])
    OBVIOUS
  <2>1. 2 \in 2 .. Len(s) /\ s[2].op \in Dependent /\ 2 - 1 = 1
    BY <1>1, <1>5
  <2>2. Justifies(s[2 - 1], s[2])
    BY <2>1 DEF Typed
  <2> QED BY <1>5, <2>1, <2>2
<1>7. ASSUME NEW i \in 1 .. Len(t)
      PROVE  Fits(t[i], g[i]) /\ g[i + 1] = After(t[i], g[i])
  <2>1. i + 1 \in 1 .. Len(s) /\ i \in Nat /\ i + 1 \in Nat
    BY <1>1
  <2>2. t[i] = s[i + 1] /\ g[i] = f[i + 1] /\ g[i + 1] = f[(i + 1) + 1]
    BY <1>2, <1>4, <2>1
  <2> QED BY <2>1, <2>2 DEF Typed
<1>8. ASSUME NEW i \in 2 .. Len(t), t[i].op \in Dependent PROVE Justifies(t[i - 1], t[i])
  <2>1. i + 1 \in 2 .. Len(s) /\ i \in 1 .. Len(t) /\ i - 1 \in 1 .. Len(t)
        /\ (i + 1) - 1 = i /\ (i - 1) + 1 = i
    BY <1>1
  <2>2. t[i] = s[i + 1] /\ t[i - 1] = s[i]
    BY <1>2, <2>1
  <2>3. Justifies(s[(i + 1) - 1], s[i + 1])
    BY <1>8, <2>1, <2>2 DEF Typed
  <2> QED BY <2>1, <2>2, <2>3
<1>9. Typed(t, g)
  BY <1>4, <1>7, <1>8 DEF Typed
<1>10. g[1] = After(s[1], f[1])
  BY <1>3, <1>4
<1> QED BY <1>1, <1>3, <1>5, <1>6, <1>9, <1>10 DEF t

\* A copy between the structures and the check behind it.
LEMMA CopyBlock ==
  ASSUME StructTest, NEW fn \in Fns, ReturnsDst => fn # "bcopy",
         NEW to \in {1, 2}, NEW from \in {1, 2}, to # from,
         NEW d \in Nat, NEW s \in Nat, NEW n \in Nat, d + n <= Sizeof, s + n <= Sizeof
  PROVE  /\ Copy(fn, to, d, from, s, n) \in Block(from, from)
         /\ \A start, end \in Nat :
              d = s /\ d <= start /\ d <= Y /\ Pad1 + end <= d + n =>
                Copy(fn, to, d, from, s, n) \o Check(to, start, end) \in Block(from, from)
         /\ d = 0 /\ s = 1 /\ n = Sizeof - 1 =>
              Copy(fn, to, d, from, s, n) \o Shifted(to) \in Block(from, from)
         /\ d = 0 /\ s = 0 /\ n = Sizeof =>
              Copy(fn, to, d, from, s, n) \o SetY(to, from) \in Block(from, to)
<1> DEFINE q == [op |-> "copy", fn |-> fn, to |-> to, d |-> d, from |-> from, s |-> s, n |-> n]
<1>1. q \in Steps
  <2>1. Copy(fn, to, d, from, s, n) \in Seq(Steps)
    BY StructCopy
  <2>2. <<q>> \in Seq(Steps)
    BY <2>1 DEF Copy
  <2> QED BY <2>2
<1>2. Fits(q, from) /\ After(q, from) = from /\ q.op \notin Dependent /\ from \in 0 .. 3
  BY DEF Fits, After, Dependent
<1>3. Copy(fn, to, d, from, s, n) = <<q>>
  BY DEF Copy
<1>4. Copy(fn, to, d, from, s, n) \in Block(from, from)
  BY <1>1, <1>2, <1>3, BlockOne
<1>5. ASSUME NEW r \in Steps, r.op \in {"check", "shifted"}, Justifies(q, r)
      PROVE  <<q>> \o <<r>> \in Block(from, from)
  <2>1. Fits(r, from) /\ After(r, from) = from
    BY <1>5 DEF Fits, After
  <2> HIDE DEF q
  <2> QED BY <1>1, <1>2, <1>5, <2>1, BlockTwo
<1>6. ASSUME NEW start \in Nat, NEW end \in Nat, d = s, d <= start, d <= Y, Pad1 + end <= d + n
      PROVE  Copy(fn, to, d, from, s, n) \o Check(to, start, end) \in Block(from, from)
  <2> DEFINE r == [op |-> "check", t |-> to, start |-> start, end |-> end]
  <2>1. r \in Steps
    BY DEF Steps, StepRecords, StepOK
  <2>2. Justifies(q, r)
    BY <1>6 DEF Justifies
  <2>3. r.op \in {"check", "shifted"} /\ Check(to, start, end) = <<r>>
    BY DEF Check
  <2> HIDE DEF q, r
  <2> QED BY <1>3, <1>5, <2>1, <2>2, <2>3
<1>7. ASSUME d = 0, s = 1, n = Sizeof - 1
      PROVE  Copy(fn, to, d, from, s, n) \o Shifted(to) \in Block(from, from)
  <2> DEFINE r == [op |-> "shifted", t |-> to]
  <2>1. r \in Steps
    BY DEF Steps, StepRecords, StepOK
  <2>2. Justifies(q, r)
    BY <1>7 DEF Justifies
  <2>3. r.op \in {"check", "shifted"} /\ Shifted(to) = <<r>>
    BY DEF Shifted
  <2> HIDE DEF q, r
  <2> QED BY <1>3, <1>5, <2>1, <2>2, <2>3
<1>8. ASSUME d = 0, s = 0, n = Sizeof
      PROVE  Copy(fn, to, d, from, s, n) \o SetY(to, from) \in Block(from, to)
  <2> DEFINE r == [op |-> "sety", t |-> to, x |-> from]
  <2>1. r \in Steps
    <3>1. base[to] + Y \in Granules
      BY StructFacts
    <3>2. base[from] \in Int
      BY StructFacts
    <3> QED BY <3>1, <3>2 DEF Steps, StepRecords, StepOK
  <2>2. Justifies(q, r)
    BY <1>8 DEF Justifies
  <2>3. Fits(r, from) /\ After(r, from) = to /\ SetY(to, from) = <<r>> /\ to \in 0 .. 3
    BY DEF Fits, After, SetY, StructTest
  <2> HIDE DEF q, r
  <2> QED BY <1>1, <1>2, <1>3, <2>1, <2>2, <2>3, BlockTwo
<1> QED BY <1>4, <1>6, <1>7, <1>8

\* Invalidating a structure that is not copied from.
LEMMA InvalidateBlock ==
  ASSUME StructTest, NEW t \in {1, 2}, NEW a \in {0, 1, 2}, t # a
  PROVE  Invalidate(t) \in Block(a, a)
<1> DEFINE q == [op |-> "invalidate", t |-> t]
<1>1. base[t] \in Int
  BY StructFacts
<1>2. q \in Steps
  BY <1>1 DEF Steps, StepRecords, StepOK
<1>3. Fits(q, a) /\ After(q, a) = a /\ q.op \notin Dependent /\ a \in 0 .. 3
  BY DEF Fits, After, Dependent
<1>4. Invalidate(t) = <<q>>
  BY DEF Invalidate
<1> HIDE DEF q
<1> QED BY <1>2, <1>3, <1>4, BlockOne

\* The set-up of a test leaves t1 as the structure to copy from.
LEMMA SetupBlock == StructTest => Setup \in Block(0, 1)
<1> SUFFICES ASSUME StructTest PROVE Setup \in Block(0, 1)
  OBVIOUS
<1> DEFINE q == [op |-> "fill", t |-> 1]
           r == [op |-> "sety", t |-> 1, x |-> 2]
<1>1. base[1] + Y \in Granules /\ base[1] \in Int
  BY StructFacts
<1>2. base[2] \in Int
  BY StructFacts
<1>3. q \in Steps /\ r \in Steps
  BY <1>1, <1>2 DEF Steps, StepRecords, StepOK
<1>4. Fits(q, 0) /\ After(q, 0) = 0 /\ q.op \notin Dependent
  BY DEF Fits, After, Dependent, StructTest
<1>5. Fits(r, 0) /\ After(r, 0) = 1 /\ Justifies(q, r)
  BY DEF Fits, After, Justifies, StructTest
<1>6. FillStruct(1) = <<q>> /\ SetY(1, 2) = <<r>>
  BY DEF FillStruct, SetY
<1> HIDE DEF q, r
<1>7. FillStruct(1) \o SetY(1, 2) \in Block(0, 1)
  BY <1>3, <1>4, <1>5, <1>6, BlockTwo
<1>8. Invalidate(2) \in Block(0, 0)
  BY InvalidateBlock
<1>9. FillStruct(1) \in Seq(Steps) /\ SetY(1, 2) \in Seq(Steps)
  BY <1>3, <1>6, One
<1> QED BY <1>7, <1>8, <1>9, BlockMore DEF Setup

\* The parts that the tests share.
LEMMA PartBlocks ==
  ASSUME StructTest, NEW fn \in Fns, ReturnsDst => fn # "bcopy",
         NEW to \in {1, 2}, NEW from \in {1, 2}, to # from
  PROVE  /\ Aligned(fn, to, from) \in Block(from, from) /\ Ends(fn, to, from) \in Block(from, from)
         /\ Differs(fn, to, from) \in Block(from, from) /\ Round(fn, to, from) \in Block(from, from)
<1>1. Sizeof \in Nat /\ Sizeof >= 65 /\ Sizeof = 32 + Pad1 /\ Pad = 32 /\ Y = 32 /\ Pad1 \in Nat
  BY StructFacts, BuildFacts DEF StructTest, Sizeof, Pad1, Pad, Y
<1>2. ASSUME NEW d \in Nat, NEW n \in Nat, d + n <= Sizeof, NEW start \in Nat, NEW end \in Nat,
             d <= start, d <= Y, Pad1 + end <= d + n
      PROVE  Copy(fn, to, d, from, d, n) \o Check(to, start, end) \in Block(from, from)
  BY <1>2, CopyBlock
<1>3. /\ Copy(fn, to, 0, from, 0, Sizeof) \o Check(to, 0, Pad) \in Block(from, from)
      /\ Copy(fn, to, 3, from, 3, Sizeof - 3) \o Check(to, 3, Pad) \in Block(from, from)
      /\ Copy(fn, to, 0, from, 0, Sizeof - 3) \o Check(to, 0, Pad - 3) \in Block(from, from)
      /\ Copy(fn, to, 3, from, 3, Sizeof - 6) \o Check(to, 3, Pad - 3) \in Block(from, from)
  <2>1. Copy(fn, to, 0, from, 0, Sizeof) \o Check(to, 0, Pad) \in Block(from, from)
    BY <1>1, <1>2
  <2>2. Copy(fn, to, 3, from, 3, Sizeof - 3) \o Check(to, 3, Pad) \in Block(from, from)
    BY <1>1, <1>2
  <2>3. Copy(fn, to, 0, from, 0, Sizeof - 3) \o Check(to, 0, Pad - 3) \in Block(from, from)
    BY <1>1, <1>2
  <2>4. Copy(fn, to, 3, from, 3, Sizeof - 6) \o Check(to, 3, Pad - 3) \in Block(from, from)
    BY <1>1, <1>2
  <2> QED BY <2>1, <2>2, <2>3, <2>4
<1>4. Differs(fn, to, from) \in Block(from, from)
  BY <1>1, CopyBlock DEF Differs
<1>5. Aligned(fn, to, from) \in Block(from, from)
  BY <1>3 DEF Aligned
<1>6. Invalidate(to) \in Block(from, from)
  BY InvalidateBlock
<1>7. /\ Check(to, 0, Pad - 3) \in Seq(Steps) /\ Check(to, 3, Pad - 3) \in Seq(Steps)
      /\ Copy(fn, to, 0, from, 0, Sizeof - 3) \in Seq(Steps)
      /\ Copy(fn, to, 3, from, 3, Sizeof - 6) \in Seq(Steps)
  <2>1. ASSUME NEW a \in Nat, NEW b \in Nat PROVE Check(to, a, b) \in Seq(Steps)
    BY StructSteps
  <2>2. ASSUME NEW d \in Nat, NEW n \in Nat, d + n <= Sizeof
        PROVE  Copy(fn, to, d, from, d, n) \in Seq(Steps)
    BY <2>2, StructCopy
  <2>3. Check(to, 0, Pad - 3) \in Seq(Steps) /\ Check(to, 3, Pad - 3) \in Seq(Steps)
    BY <1>1, <2>1
  <2>4. Copy(fn, to, 0, from, 0, Sizeof - 3) \in Seq(Steps)
    BY <1>1, <2>2
  <2>5. Copy(fn, to, 3, from, 3, Sizeof - 6) \in Seq(Steps)
    BY <1>1, <2>2
  <2> QED BY <2>3, <2>4, <2>5
<1>8. Ends(fn, to, from) \in Block(from, from)
  <2> DEFINE c1 == Copy(fn, to, 3, from, 3, Sizeof - 3) \o Check(to, 3, Pad)
             c2 == (c1 \o Copy(fn, to, 0, from, 0, Sizeof - 3)) \o Check(to, 0, Pad - 3)
             c3 == (c2 \o Copy(fn, to, 3, from, 3, Sizeof - 6)) \o Check(to, 3, Pad - 3)
  <2>1. c1 \in Block(from, from)
    BY <1>3
  <2> HIDE DEF c1
  <2>2. c2 \in Block(from, from)
    BY <1>3, <1>7, <2>1, BlockMore
  <2> HIDE DEF c2
  <2>3. c3 \in Block(from, from)
    BY <1>3, <1>7, <2>2, BlockMore
  <2> HIDE DEF c3
  <2>4. c3 \o Invalidate(to) \in Block(from, from)
    BY <1>6, <2>3, BlockJoin
  <2> QED BY <2>4 DEF Ends, c1, c2, c3
<1>9. Round(fn, to, from) \in Block(from, from)
  BY <1>4, <1>5, <1>6, <1>8, BlockJoin DEF Round
<1> QED BY <1>4, <1>5, <1>8, <1>9

\* Every check of a test on the structures comes behind a copy that makes it
\* true, and the copies come from the structure that was set up last.
LEMMA StructTyped == StructTest => \E a : Script \in Block(0, a)
<1> SUFFICES ASSUME StructTest PROVE \E a : Script \in Block(0, a)
  OBVIOUS
<1>1. Sizeof \in Nat /\ Sizeof >= 65 /\ Sizeof = 32 + Pad1 /\ Pad = 32 /\ Y = 32 /\ Pad1 \in Nat
  BY StructFacts, BuildFacts DEF StructTest, Sizeof, Pad1, Pad, Y
<1>2. Setup \in Block(0, 1) /\ Invalidate(2) \in Block(1, 1) /\ Invalidate(1) \in Block(2, 2)
  BY SetupBlock, InvalidateBlock
<1>3. ASSUME NEW fn \in Fns, ReturnsDst => fn # "bcopy"
      PROVE  /\ Round(fn, 2, 1) \in Block(1, 1) /\ Round(fn, 1, 2) \in Block(2, 2)
             /\ Aligned(fn, 1, 2) \in Block(2, 2) /\ Ends(fn, 1, 2) \in Block(2, 2)
             /\ Differs(fn, 1, 2) \in Block(2, 2)
             /\ Copy(fn, 2, 3, 1, 3, Sizeof - 6) \in Block(1, 1)
             /\ TurnAround(fn) \in Block(1, 2)
  <2>1. Round(fn, 2, 1) \in Block(1, 1)
    BY <1>3, PartBlocks
  <2>2. /\ Round(fn, 1, 2) \in Block(2, 2) /\ Aligned(fn, 1, 2) \in Block(2, 2)
        /\ Ends(fn, 1, 2) \in Block(2, 2) /\ Differs(fn, 1, 2) \in Block(2, 2)
    BY <1>3, PartBlocks
  <2>3. Copy(fn, 2, 3, 1, 3, Sizeof - 6) \in Block(1, 1)
    BY <1>1, <1>3, CopyBlock
  <2>4. Copy(fn, 2, 0, 1, 0, Sizeof) \o SetY(2, 1) \in Block(1, 2)
    BY <1>1, <1>3, CopyBlock
  <2>5. TurnAround(fn) \in Block(1, 2)
    BY <1>2, <2>4, BlockJoin DEF TurnAround
  <2> QED BY <2>1, <2>2, <2>3, <2>5
<1>4. ASSUME NEW fn \in Fns, ReturnsDst => fn # "bcopy"
      PROVE  /\ Copy(fn, 2, 0, 1, 0, Sizeof) \o Check(2, 0, Pad) \in Block(1, 1)
             /\ Copy(fn, 2, 3, 1, 3, Sizeof - 6) \o Check(2, 3, Pad - 3) \in Block(1, 1)
             /\ Copy(fn, 1, 12, 2, 12, Sizeof - 16) \o Check(1, 12, 12) \in Block(2, 2)
             /\ Copy(fn, 2, 0, 1, 0, Sizeof) \in Seq(Steps)
             /\ Copy(fn, 2, 3, 1, 3, Sizeof - 6) \in Seq(Steps)
             /\ Copy(fn, 1, 12, 2, 12, Sizeof - 16) \in Seq(Steps)
  <2>1. Copy(fn, 2, 0, 1, 0, Sizeof) \o Check(2, 0, Pad) \in Block(1, 1)
    BY <1>1, <1>4, CopyBlock
  <2>2. Copy(fn, 2, 3, 1, 3, Sizeof - 6) \o Check(2, 3, Pad - 3) \in Block(1, 1)
    BY <1>1, <1>4, CopyBlock
  <2>3. Copy(fn, 1, 12, 2, 12, Sizeof - 16) \o Check(1, 12, 12) \in Block(2, 2)
    BY <1>1, <1>4, CopyBlock
  <2>4. Copy(fn, 2, 0, 1, 0, Sizeof) \in Seq(Steps)
    BY <1>1, StructCopy
  <2>5. Copy(fn, 2, 3, 1, 3, Sizeof - 6) \in Seq(Steps)
    BY <1>1, StructCopy
  <2>6. Copy(fn, 1, 12, 2, 12, Sizeof - 16) \in Seq(Steps)
    BY <1>1, StructCopy
  <2> QED BY <2>1, <2>2, <2>3, <2>4, <2>5, <2>6
<1>5. "memcpy" \in Fns /\ "memcpy_c" \in Fns /\ "memmove" \in Fns /\ "bcopy" \in Fns
  BY DEF Fns
<1>6. /\ Check(2, 0, Pad) \in Seq(Steps) /\ Check(2, 3, Pad - 3) \in Seq(Steps)
      /\ Check(1, 12, 12) \in Seq(Steps)
  <2>1. ASSUME NEW t \in {1, 2}, NEW a \in Nat, NEW b \in Nat
        PROVE  Check(t, a, b) \in Seq(Steps)
    BY StructSteps
  <2>2. Pad \in Nat /\ Pad - 3 \in Nat
    BY DEF Pad
  <2> QED BY <2>1, <2>2
<1>7. clang_hybrid_memcpy \in Block(0, 1)
  <2> DEFINE c == Setup \o Invalidate(2) \o Round("memcpy_c", 2, 1) \o
                  Invalidate(2) \o Round("memcpy", 2, 1) \o
                  Invalidate(2) \o Copy("memcpy_c", 2, 3, 1, 3, Sizeof - 6) \o Invalidate(2)
  <2>1. /\ Round("memcpy_c", 2, 1) \in Block(1, 1) /\ Round("memcpy", 2, 1) \in Block(1, 1)
        /\ Copy("memcpy_c", 2, 3, 1, 3, Sizeof - 6) \in Block(1, 1)
    BY <1>3, <1>5
  <2>2. c \in Block(0, 1)
    BY <1>2, <2>1, BlockJoin
  <2> HIDE DEF c
  <2>3. (c \o Copy("memcpy_c", 2, 0, 1, 0, Sizeof)) \o Check(2, 0, Pad) \in Block(0, 1)
    BY <1>4, <1>5, <1>6, <2>2, BlockMore
  <2> QED BY <2>3 DEF clang_hybrid_memcpy, c
<1>8. ASSUME ~ReturnsDst PROVE clang_hybrid_bcopy \in Block(0, 2)
  <2>1. /\ Round("bcopy", 2, 1) \in Block(1, 1) /\ Round("bcopy", 1, 2) \in Block(2, 2)
        /\ TurnAround("bcopy") \in Block(1, 2)
    BY <1>3, <1>5, <1>8
  <2> QED BY <1>2, <2>1, BlockJoin DEF clang_hybrid_bcopy
<1>9. clang_hybrid_memmove \in Block(0, 2)
  <2> DEFINE c == Setup \o Round("memmove", 2, 1) \o TurnAround("memmove") \o
                  Aligned("memmove", 1, 2) \o Invalidate(1) \o Ends("memmove", 1, 2)
             e == (c \o Copy("memmove", 1, 12, 2, 12, Sizeof - 16)) \o Check(1, 12, 12)
  <2>1. /\ Round("memmove", 2, 1) \in Block(1, 1) /\ TurnAround("memmove") \in Block(1, 2)
        /\ Aligned("memmove", 1, 2) \in Block(2, 2) /\ Ends("memmove", 1, 2) \in Block(2, 2)
        /\ Differs("memmove", 1, 2) \in Block(2, 2)
    BY <1>3, <1>5
  <2>2. c \in Block(0, 2)
    BY <1>2, <2>1, BlockJoin
  <2> HIDE DEF c
  <2>3. e \in Block(0, 2)
    BY <1>4, <1>5, <1>6, <2>2, BlockMore
  <2> HIDE DEF e
  <2>4. e \o Differs("memmove", 1, 2) \in Block(0, 2)
    BY <2>1, <2>3, BlockJoin
  <2> QED BY <2>4 DEF clang_hybrid_memmove, c, e
<1>10. libc_memcpy \in Block(0, 1)
  <2> DEFINE c == Setup \o Invalidate(2) \o Round("memcpy", 2, 1) \o
                  Invalidate(2) \o Round("memcpy", 2, 1) \o Invalidate(2)
  <2>1. Round("memcpy", 2, 1) \in Block(1, 1)
    BY <1>3, <1>5
  <2>2. c \in Block(0, 1)
    BY <1>2, <2>1, BlockJoin
  <2> HIDE DEF c
  <2>3. (c \o Copy("memcpy", 2, 3, 1, 3, Sizeof - 6)) \o Check(2, 3, Pad - 3) \in Block(0, 1)
    BY <1>4, <1>5, <1>6, <2>2, BlockMore
  <2> QED BY <2>3 DEF libc_memcpy, c
<1>11. test \in {"clang_hybrid_memcpy", "clang_hybrid_memmove", "clang_hybrid_bcopy",
                 "libc_memcpy"}
  BY CopyTestsAssumption DEF StructTest, BuildOK
<1>12. CASE test = "clang_hybrid_bcopy"
  BY <1>8, <1>12 DEF Script, ReturnsDst
<1> QED BY <1>7, <1>9, <1>10, <1>11, <1>12 DEF Script

\* The script of libc_memmove.
LEMMA BufferTyped == BuildOK /\ test = "libc_memmove" => \E a : Script \in Block(0, a)
<1> SUFFICES ASSUME BuildOK, test = "libc_memmove" PROVE Script \in Block(0, 0)
  OBVIOUS
<1> DEFINE c == sizes[2]
           q == [op |-> "copy", fn |-> "memmove", to |-> 1, d |-> 0, from |-> 1,
                 s |-> 2 * c, n |-> 8 * c]
           z == [op |-> "digits"]
           r == [op |-> "checkdigits"]
<1>1. c \in Nat \ {0} /\ base = <<0>> /\ Size = 10 * c
  BY BuildFacts DEF BuildOK, Size
<1>2. z \in Steps /\ r \in Steps
  BY DEF Steps, StepRecords, StepOK
<1>3. q \in Steps
  <2>1. ArgsOK("memmove", base[1] + 0, base[1] + 2 * c, 8 * c)
    BY <1>1 DEF ArgsOK, Fns
  <2>2. q \in StepRecords
    BY <1>1 DEF StepRecords, Fns
  <2> QED BY <2>1, <2>2 DEF Steps, StepOK
<1>4. Fits(z, 0) /\ After(z, 0) = 3 /\ z.op \notin Dependent
  BY DEF Fits, After, Dependent
<1>5. Fits(q, 3) /\ After(q, 3) = 0 /\ q.op \notin Dependent
  BY DEF Fits, After, Dependent, DigitsCopy
<1>6. Fits(r, 0) /\ After(r, 0) = 0 /\ Justifies(q, r)
  BY DEF Fits, After, Justifies, DigitsCopy
<1>7. libc_memmove = (<<z>> \o <<q>>) \o <<r>>
  BY DEF libc_memmove, Copy
<1> HIDE DEF q, z, r
<1>8. <<z>> \in Block(0, 3)
  BY <1>2, <1>4, BlockOne
<1>9. <<q>> \o <<r>> \in Block(3, 0)
  BY <1>2, <1>3, <1>5, <1>6, BlockTwo
<1>10. <<q>> \in Seq(Steps) /\ <<r>> \in Seq(Steps)
  BY <1>2, <1>3
<1>11. libc_memmove \in Block(0, 0)
  BY <1>7, <1>8, <1>9, <1>10, BlockMore
<1> QED BY <1>11 DEF Script

-----------------------------------------------------------------------------
\* Structure a is ready to be copied from, in memory m with the tags g.
PadsOf(m, t) == \A i \in 0 .. Pad - 1 : m[base[t] + i] = i /\ m[base[t] + Pad1 + i] = i
Ready(m, g, a) ==
  /\ a \in {1, 2} =>
       /\ test # "libc_memmove" /\ PadsOf(m, a) /\ base[a] + Y \in g
       /\ \A i \in 0 .. sizes[2] - 1 : m[base[a] + Y + i] = CapByte(base[3 - a], i)
  /\ a = 3 =>
       /\ test = "libc_memmove" /\ g = Granules
       /\ m = [x \in Memory |-> CapByte(x \div sizes[2], x % sizes[2])]

\* What step r relies on.
Holds(m, g, r) ==
  /\ r.op = "check" =>
       /\ \A i \in r.start .. Pad - 1 : m[base[r.t] + i] = i
       /\ base[r.t] + Y \in g
       /\ \A i \in 0 .. sizes[2] - 1 : m[base[r.t] + Y + i] = CapByte(base[r.t], i)
       /\ \A i \in 0 .. r.end - 1 : m[base[r.t] + Pad1 + i] = i
  /\ r.op = "shifted" =>
       /\ base[r.t] + Y \notin g
       /\ \A i \in 0 .. Pad - 2 : m[base[r.t] + i] = i + 1 /\ m[base[r.t] + Pad1 + i] = i + 1
  /\ r.op = "sety" => r.x = 3 - r.t /\ PadsOf(m, r.t)
  /\ r.op = "checkdigits" =>
       \A i \in 0 .. 7 :
         /\ i * sizes[2] \in g
         /\ \A j \in 0 .. sizes[2] - 1 : m[i * sizes[2] + j] = CapByte(i + 2, j)

\* The structures do not overlap, and y is a granule of each.
LEMMA StructLayout ==
  ASSUME StructTest, NEW t \in {1, 2}
  PROVE  /\ sizes[2] \in Nat /\ sizes[2] > 1 /\ Pad = 32 /\ Y = 32 /\ Pad1 = 32 + sizes[2]
         /\ Sizeof = 64 + sizes[2] /\ Memory = 0 .. 2 * Sizeof - 1
         /\ base[t] \in {0, Sizeof} /\ base[3 - t] = Sizeof - base[t] /\ base[t] \in Nat
         /\ base[t] + Y \in Granules /\ 3 - t \in {1, 2} /\ 3 - t # t
         /\ \A i \in 0 .. Sizeof - 1 : base[t] + i \in Memory
<1>1. sizes[2] \in Nat /\ sizes[2] > 1 /\ Sizeof = 64 + sizes[2]
  <2>1. BuildOK /\ test # "none"
    BY DEF StructTest
  <2>2. PICK w \in Nat \ {0}, c \in Nat \ {0} :
          sizes = <<w, c>> /\ c % w = 0 /\ (test # "none" => 32 % c = 0 /\ c > 1)
    BY <2>1 DEF BuildOK
  <2> QED BY <2>1, <2>2 DEF Sizeof, Pad
<1>2. Pad = 32 /\ Y = 32 /\ Pad1 = 32 + sizes[2]
  BY DEF Pad, Y, Pad1
<1>3. 3 - t \in {1, 2} /\ 3 - t # t
  OBVIOUS
<1>4. /\ Size = 2 * Sizeof /\ base[t] \in {0, Sizeof} /\ base[t] + Y \in Granules
      /\ base[3 - t] = Sizeof - base[t]
  BY <1>3, StructFacts
<1>5. Memory = 0 .. 2 * Sizeof - 1
  BY <1>4 DEF Memory
<1>6. base[t] \in Nat /\ \A i \in 0 .. Sizeof - 1 : base[t] + i \in Memory
  <2>1. PICK o \in Nat : o = base[t] /\ o <= Sizeof
    BY <1>1, <1>4
  <2>2. PICK z \in Nat : z = Sizeof
    BY <1>1
  <2>3. ASSUME NEW i \in 0 .. z - 1 PROVE o + i \in 0 .. 2 * z - 1
    BY <2>1, <2>2
  <2> QED BY <1>5, <2>1, <2>2, <2>3
<1> QED BY <1>1, <1>2, <1>3, <1>4, <1>5, <1>6

\* Only copies and the filling of the pads are relied on.
LEMMA NotRelied ==
  ASSUME NEW q, NEW r, q.op \notin {"copy", "fill"}, r.op \in Dependent
  PROVE  ~Justifies(q, r)
BY DEF Dependent, Justifies

\* invalidate leaves the structure to copy from alone.
LEMMA InvalidateKeeps ==
  ASSUME BuildOK, test # "none", NEW m \in [Memory -> Int], NEW g,
         NEW q \in Steps, q.op = "invalidate", NEW a \in 0 .. 3, Fits(q, a), Ready(m, g, a)
  PROVE  Ready([m EXCEPT ![base[q.t]] = Invalid], g \ {base[q.t]}, After(q, a))
<1>1. After(q, a) = a /\ a \in {0, 1, 2} /\ q.t # a
  BY DEF After, Fits
<1>2. q.t \in {1, 2}
  BY DEF Steps, StepRecords
<1>3. CASE a = 0
  BY <1>1, <1>3 DEF Ready
<1>4. CASE a \in {1, 2}
  <2>1. StructTest
    BY <1>4 DEF StructTest, Ready
  <2>2. q.t = 3 - a
    BY <1>1, <1>2, <1>4
  <2>3. /\ sizes[2] \in Nat /\ sizes[2] > 1 /\ Pad = 32 /\ Y = 32 /\ Pad1 = 32 + sizes[2]
        /\ Sizeof = 64 + sizes[2] /\ Memory = 0 .. 2 * Sizeof - 1
        /\ base[a] \in {0, Sizeof} /\ base[3 - a] = Sizeof - base[a] /\ base[a] \in Nat
        /\ \A i \in 0 .. Sizeof - 1 : base[a] + i \in Memory
    BY <1>4, <2>1, StructLayout
  <2>4. /\ sizes[2] \in Nat /\ Pad = 32 /\ Y = 32 /\ Pad1 = 32 + sizes[2]
        /\ Sizeof = 64 + sizes[2]
    BY <2>3
  <2> DEFINE k == [m EXCEPT ![base[q.t]] = Invalid]
  <2>5. ASSUME NEW i \in 0 .. Sizeof - 1 PROVE base[a] + i # base[q.t]
    <3>1. Sizeof \in Nat /\ base[a] \in Nat /\ base[a] \in {0, Sizeof}
      <4>1. base[a] \in Nat /\ base[a] \in {0, Sizeof}
        BY <2>3
      <4>2. Sizeof \in Nat
        BY <2>4
      <4> QED BY <4>1, <4>2
    <3>2. PICK z \in Nat, o \in Nat : z = Sizeof /\ o = base[a]
      BY <3>1
    <3>3. o + i # z - o
      <4>1. o \in {0, z} /\ i \in 0 .. z - 1
        BY <3>1, <3>2
      <4> QED BY <4>1
    <3>4. base[q.t] = z - o
      BY <2>2, <2>3, <3>2
    <3> QED BY <3>2, <3>3, <3>4
  <2>6. \A i \in 0 .. Sizeof - 1 : k[base[a] + i] = m[base[a] + i]
    BY <2>3, <2>5
  <2> HIDE DEF k
  <2>7. PadsOf(k, a)
    <3>1. PadsOf(m, a)
      BY <1>4 DEF Ready
    <3>2. ASSUME NEW i \in 0 .. Pad - 1 PROVE k[base[a] + i] = i /\ k[base[a] + Pad1 + i] = i
      <4>1. i \in 0 .. Sizeof - 1 /\ Pad1 + i \in 0 .. Sizeof - 1
            /\ base[a] + Pad1 + i = base[a] + (Pad1 + i)
        <5>1. PICK o \in Nat : o = base[a]
          BY <2>3
        <5>2. i \in 0 .. Sizeof - 1 /\ Pad1 + i \in 0 .. Sizeof - 1
          BY <2>4
        <5>3. o + Pad1 + i = o + (Pad1 + i)
          BY <2>4
        <5> QED BY <5>1, <5>2, <5>3
      <4> QED BY <2>6, <3>1, <4>1 DEF PadsOf
    <3> QED BY <3>2 DEF PadsOf
  <2>8. base[a] + Y \in g \ {base[q.t]}
    <3>1. Y \in 0 .. Sizeof - 1 /\ base[a] + Y \in g
      BY <1>4, <2>3 DEF Ready
    <3> QED BY <2>5, <3>1
  <2>9. ASSUME NEW i \in 0 .. sizes[2] - 1 PROVE k[base[a] + Y + i] = CapByte(base[3 - a], i)
    <3>1. Y + i \in 0 .. Sizeof - 1 /\ base[a] + Y + i = base[a] + (Y + i)
      <4>1. PICK o \in Nat : o = base[a]
        BY <2>3
      <4>2. Y + i \in 0 .. Sizeof - 1 /\ o + Y + i = o + (Y + i)
        BY <2>4
      <4> QED BY <4>1, <4>2
    <3> QED BY <1>4, <2>6, <3>1 DEF Ready
  <2>10. Ready(k, g \ {base[q.t]}, a)
    <3>1. test # "libc_memmove" /\ a # 3
      BY <1>4, <2>1 DEF StructTest
    <3> QED BY <2>7, <2>8, <2>9, <3>1 DEF Ready
  <2> QED BY <1>1, <2>10 DEF k
<1> QED BY <1>1, <1>3, <1>4

\* Filling the pads prepares the assignment of y.
LEMMA FillPrepares ==
  ASSUME BuildOK, test # "none", NEW m \in [Memory -> Int], NEW k, NEW g,
         NEW q \in Steps, q.op = "fill", NEW a \in 0 .. 3, Fits(q, a),
         k = [x \in Memory |-> IF x - base[q.t] \in 0 .. Pad - 1 THEN x - base[q.t]
                               ELSE IF x - base[q.t] \in Pad1 .. Sizeof - 1
                                    THEN x - base[q.t] - Pad1 ELSE m[x]]
  PROVE  /\ Ready(k, g, After(q, a))
         /\ \A r \in Steps : r.op \in Dependent /\ Justifies(q, r) => Holds(k, g, r)
<1>1. After(q, a) = 0 /\ test # "libc_memmove"
  BY DEF After, Fits
<1>2. q.t \in {1, 2}
  BY DEF Steps, StepRecords
<1>3. /\ sizes[2] \in Nat /\ sizes[2] > 1 /\ Pad = 32 /\ Y = 32 /\ Pad1 = 32 + sizes[2]
      /\ Sizeof = 64 + sizes[2]
      /\ base[q.t] \in {0, Sizeof}
      /\ \A i \in 0 .. Sizeof - 1 : base[q.t] + i \in Memory
  BY <1>1, <1>2, StructLayout DEF StructTest
<1>4. PadsOf(k, q.t)
  <2>1. ASSUME NEW i \in 0 .. Pad - 1 PROVE k[base[q.t] + i] = i /\ k[base[q.t] + Pad1 + i] = i
    <3>1. PICK o \in Nat : o = base[q.t]
      BY <1>3
    <3>2. o + i \in Memory /\ o + Pad1 + i \in Memory
      <4>1. i \in 0 .. Sizeof - 1 /\ Pad1 + i \in 0 .. Sizeof - 1
            /\ o + Pad1 + i = o + (Pad1 + i)
        BY <1>3, <3>1
      <4> QED BY <1>3, <3>1, <4>1
    <3>3. (o + i) - o = i /\ (o + Pad1 + i) - o = Pad1 + i /\ (o + Pad1 + i) - o - Pad1 = i
      BY <1>3
    <3>4. /\ i \in 0 .. Pad - 1
          /\ Pad1 + i \notin 0 .. Pad - 1 /\ Pad1 + i \in Pad1 .. Sizeof - 1
      BY <1>3
    <3> QED BY <3>1, <3>2, <3>3, <3>4
  <2> QED BY <2>1 DEF PadsOf
<1>5. ASSUME NEW r \in Steps, r.op \in Dependent, Justifies(q, r) PROVE Holds(k, g, r)
  <2>1. r.op = "sety" /\ r.x = 3 - r.t /\ r.t = q.t
    BY <1>5 DEF Justifies, Dependent
  <2> QED BY <1>4, <2>1 DEF Holds
<1> QED BY <1>1, <1>5 DEF Ready

\* The assignment of y makes the structure ready to be copied from.
LEMMA AssignYReady ==
  ASSUME BuildOK, test # "none", NEW m \in [Memory -> Int], NEW k, NEW g,
         NEW q \in Steps, q.op = "sety", NEW a \in 0 .. 3, Fits(q, a), Holds(m, g, q),
         k = [b \in Memory |-> IF b - (base[q.t] + Y) \in 0 .. sizes[2] - 1
                               THEN CapByte(base[q.x], b - (base[q.t] + Y)) ELSE m[b]]
  PROVE  Ready(k, g \cup {base[q.t] + Y}, After(q, a))
<1>1. After(q, a) = q.t /\ test # "libc_memmove" /\ q.x = 3 - q.t /\ PadsOf(m, q.t)
  BY DEF After, Fits, Holds
<1>2. q.t \in {1, 2}
  BY DEF Steps, StepRecords
<1>3. /\ sizes[2] \in Nat /\ sizes[2] > 1 /\ Pad = 32 /\ Y = 32 /\ Pad1 = 32 + sizes[2]
      /\ Sizeof = 64 + sizes[2]
      /\ base[q.t] \in {0, Sizeof}
      /\ \A i \in 0 .. Sizeof - 1 : base[q.t] + i \in Memory
  BY <1>1, <1>2, StructLayout DEF StructTest
<1>4. PICK o \in Nat : o = base[q.t]
  BY <1>3
<1>5. PadsOf(k, q.t)
  <2>1. ASSUME NEW i \in 0 .. Pad - 1 PROVE k[o + i] = i /\ k[o + Pad1 + i] = i
    <3>1. i \in 0 .. Sizeof - 1 /\ Pad1 + i \in 0 .. Sizeof - 1 /\ o + Pad1 + i = o + (Pad1 + i)
      BY <1>3
    <3>2. o + i \in Memory /\ o + Pad1 + i \in Memory
      BY <1>3, <1>4, <3>1
    <3>3. /\ (o + i) - (o + Y) \notin 0 .. sizes[2] - 1
          /\ (o + Pad1 + i) - (o + Y) \notin 0 .. sizes[2] - 1
      BY <1>3
    <3>4. m[o + i] = i /\ m[o + Pad1 + i] = i
      BY <1>1, <1>3, <1>4 DEF PadsOf
    <3> QED BY <1>4, <3>2, <3>3, <3>4
  <2> QED BY <1>4, <2>1 DEF PadsOf
<1>6. ASSUME NEW i \in 0 .. sizes[2] - 1 PROVE k[o + Y + i] = CapByte(base[3 - q.t], i)
  <2>1. Y + i \in 0 .. Sizeof - 1 /\ o + Y + i = o + (Y + i) /\ (o + Y + i) - (o + Y) = i
    BY <1>3
  <2>2. o + Y + i \in Memory
    BY <1>3, <1>4, <2>1
  <2> QED BY <1>1, <1>4, <2>1, <2>2
<1>7. Ready(k, g \cup {base[q.t] + Y}, q.t)
  BY <1>1, <1>2, <1>4, <1>5, <1>6 DEF Ready
<1> QED BY <1>1, <1>7

-----------------------------------------------------------------------------
\* What a call has done when it returns.
LEMMA CopiedFacts ==
  ASSUME CopyInv, Return
  PROVE  /\ \A x \in Memory :
              mem[x] = IF D <= x /\ x < D + Length THEN old.mem[S + (x - D)] ELSE old.mem[x]
         /\ Length = 0 \/ S # D =>
              \A x \in Granules :
                x \in tag <=> IF Length > 0 /\ x < D + Length /\ D < x + P
                              THEN D <= x /\ x + P <= D + Length /\ S + (x - D) \in old.tag
                              ELSE x \in old.tag
<1>1. /\ pc = "return" /\ loop = NoLoop /\ BuildOK /\ CallOK
      /\ \/ (Length = 0 \/ S = D) /\ Untouched
         \/ Working /\ PhaseInv
  BY DEF CopyInv, RoutineInv, Return, Phases
<1>2. /\ P \in Nat \ {0} /\ D \in Nat /\ S \in Nat /\ Length \in Nat
      /\ Memory = 0 .. Size - 1 /\ Size \in Nat
  BY <1>1, CallFacts DEF Memory
<1>3. CASE (Length = 0 \/ S = D) /\ Untouched
  <2>1. ASSUME NEW x \in Memory
        PROVE  old.mem[x] = IF D <= x /\ x < D + Length THEN old.mem[S + (x - D)] ELSE old.mem[x]
    BY <1>2, <1>3
  <2>2. mem = old.mem /\ tag = old.tag
    BY <1>3 DEF Untouched
  <2>3. ASSUME Length = 0 \/ S # D PROVE ~(Length > 0)
    BY <1>2, <1>3, <2>3
  <2> QED BY <2>1, <2>2, <2>3
<1>4. CASE Working /\ PhaseInv
  <2>1. From = D /\ To = D + Length /\ Length > 0
    <3>1. Todo = 0 /\ dst \in Int /\ Length > 0
      BY <1>1, <1>4 DEF Working, PhaseInv, PointersInv
    <3>2. Cursor = dst
      BY <1>1, <3>1 DEF Cursor, NoLoop
    <3> QED BY <1>2, <3>1, <3>2 DEF From, To, Todo
  <2>2. ASSUME NEW x \in Memory
        PROVE  mem[x] = IF D <= x /\ x < D + Length THEN old.mem[S + (x - D)] ELSE old.mem[x]
    BY <1>4, <2>1 DEF Working, BytesInv, Written
  <2>3. ASSUME NEW x \in Granules
        PROVE  x \in tag <=> IF Length > 0 /\ x < D + Length /\ D < x + P
                             THEN D <= x /\ x + P <= D + Length /\ S + (x - D) \in old.tag
                             ELSE x \in old.tag
    <3>1. Meets(x) <=> Length > 0 /\ x < D + Length /\ D < x + P
      BY <1>2, <2>1 DEF Meets
    <3>2. x \in tag <=> IF Meets(x)
                        THEN D <= x /\ x + P <= D + Length /\ S + (x - D) \in old.tag
                        ELSE x \in old.tag
      BY <1>4 DEF Working, TagsInv
    <3> QED BY <3>1, <3>2
  <2> QED BY <2>2, <2>3
<1> QED BY <1>1, <1>3, <1>4

\* The arguments of the call that step q makes.
CallOf(q) ==
  [fn |-> q.fn, dst0 |-> base[q.to] + q.d, src0 |-> base[q.from] + q.s,
   length |-> q.n, wsize |-> sizes[1], psize |-> sizes[2]]

\* A copy between the structures leaves the one it copies from ready, and
\* makes true what the next step relies on.
LEMMA StructCopied ==
  ASSUME CopyInv, Return, test # "none",
         NEW q \in Steps, q.op = "copy", NEW a \in {1, 2}, Fits(q, a), call = CallOf(q),
         Ready(old.mem, old.tag, a)
  PROVE  /\ Ready(mem, tag, a)
         /\ \A r \in Steps : r.op \in Dependent /\ Justifies(q, r) => Holds(mem, tag, r)
<1>1. BuildOK /\ CallOK /\ MemoryOK
  BY DEF CopyInv, RoutineInv, Return, Phases
<1>2. StructTest
  BY <1>1 DEF StructTest, Ready
<1>3. PICK b \in {1, 2} : b = 3 - a /\ b # a
  OBVIOUS
<1>4. /\ q.from = a /\ q.to = b /\ q.d \in Nat /\ q.s \in Nat /\ q.n \in Nat
      /\ q.d + q.n <= Sizeof /\ q.s + q.n <= Sizeof
  BY <1>3 DEF Fits, Steps, StepRecords
<1>5. PICK c \in Nat : c = sizes[2] /\ c > 1
  BY <1>2, StructLayout
<1>6. Pad = 32 /\ Y = 32 /\ Pad1 = 32 + c /\ Sizeof = 64 + c
  BY <1>2, <1>5, StructLayout
<1>7. PICK o \in Nat, e \in Nat :
        o = base[a] /\ e = base[b] /\ ((o = 0 /\ e = Sizeof) \/ (o = Sizeof /\ e = 0))
  <2>1. base[a] \in {0, Sizeof} /\ base[b] = Sizeof - base[a]
    BY <1>2, <1>3, StructLayout
  <2>2. (base[a] = 0 /\ base[b] = Sizeof) \/ (base[a] = Sizeof /\ base[b] = 0)
    BY <1>5, <1>6, <2>1
  <2> QED BY <1>5, <1>6, <2>2
<1>8. o + 32 \in Granules /\ e + 32 \in Granules
  BY <1>2, <1>6, <1>7, StructLayout
<1>9. /\ \A i \in 0 .. Sizeof - 1 : o + i \in Memory
      /\ \A i \in 0 .. Sizeof - 1 : e + i \in Memory
  BY <1>2, <1>7, StructLayout
<1>10. D = e + q.d /\ S = o + q.s /\ Length = q.n /\ P = c
  BY <1>4, <1>5, <1>7 DEF CallOf, D, S, Length, P
<1>11. Length = 0 \/ S # D
  BY <1>4, <1>5, <1>6, <1>7, <1>10
\* The memory behind the call, byte for byte and granule for granule.
<1>12. ASSUME NEW i \in 0 .. Sizeof - 1 PROVE mem[o + i] = old.mem[o + i]
  <2>1. ~(D <= o + i /\ o + i < D + Length)
    BY <1>4, <1>5, <1>6, <1>7, <1>10
  <2> QED BY <1>9, <2>1, CopiedFacts
<1>13. ASSUME NEW i \in 0 .. Sizeof - 1, q.d <= i, i < q.d + q.n
       PROVE  mem[e + i] = old.mem[o + (q.s + (i - q.d))]
  <2>1. D <= e + i /\ e + i < D + Length /\ S + ((e + i) - D) = o + (q.s + (i - q.d))
    BY <1>4, <1>7, <1>10, <1>13
  <2> QED BY <1>9, <2>1, CopiedFacts
<1>14. o + 32 \in tag
  <2>1. o + 32 \in old.tag
    BY <1>6, <1>7 DEF Ready
  <2>2. ~(o + 32 < D + Length /\ D < (o + 32) + P)
    BY <1>4, <1>5, <1>6, <1>7, <1>10
  <2> QED BY <1>8, <1>11, <2>1, <2>2, CopiedFacts
<1>15. ASSUME q.d <= 32, 32 + c <= q.d + q.n
       PROVE  e + 32 \in tag <=> o + (q.s + (32 - q.d)) \in old.tag
  <2>1. /\ Length > 0 /\ e + 32 < D + Length /\ D < (e + 32) + P
        /\ D <= e + 32 /\ (e + 32) + P <= D + Length
        /\ S + ((e + 32) - D) = o + (q.s + (32 - q.d))
    BY <1>4, <1>5, <1>7, <1>10, <1>15
  <2> QED BY <1>8, <1>11, <2>1, CopiedFacts
\* What the source held.
<1>16. /\ \A i \in 0 .. 31 : old.mem[o + i] = i
       /\ \A i \in 0 .. 31 : old.mem[o + (32 + c + i)] = i
  <2>1. PadsOf(old.mem, a)
    BY DEF Ready
  <2>2. ASSUME NEW i \in 0 .. 31
        PROVE  old.mem[o + i] = i /\ old.mem[o + (32 + c + i)] = i
    <3>1. i \in 0 .. Pad - 1 /\ o + (32 + c + i) = o + Pad1 + i
      BY <1>5, <1>6, <1>7
    <3> QED BY <1>7, <2>1, <3>1 DEF PadsOf
  <2> QED BY <2>2
<1>17. \A i \in 0 .. c - 1 : old.mem[o + (32 + i)] = CapByte(e, i)
  <2>1. ASSUME NEW i \in 0 .. c - 1 PROVE old.mem[o + (32 + i)] = CapByte(e, i)
    <3>1. o + (32 + i) = o + Y + i
      BY <1>6
    <3> QED BY <1>3, <1>5, <1>7, <3>1 DEF Ready
  <2> QED BY <2>1
<1>18. Ready(mem, tag, a)
  <2>1. ASSUME NEW i \in 0 .. Pad - 1 PROVE mem[o + i] = i /\ mem[o + Pad1 + i] = i
    <3>1. /\ i \in 0 .. 31 /\ i \in 0 .. Sizeof - 1 /\ 32 + c + i \in 0 .. Sizeof - 1
          /\ o + Pad1 + i = o + (32 + c + i)
      BY <1>5, <1>6
    <3> QED BY <1>12, <1>16, <3>1
  <2>2. ASSUME NEW i \in 0 .. c - 1 PROVE mem[o + Y + i] = CapByte(e, i)
    <3>1. 32 + i \in 0 .. Sizeof - 1 /\ o + Y + i = o + (32 + i)
      BY <1>5, <1>6
    <3> QED BY <1>12, <1>17, <3>1
  <2>3. PadsOf(mem, a)
    BY <1>7, <2>1 DEF PadsOf
  <2>4. base[a] + Y \in tag
    BY <1>6, <1>7, <1>14
  <2>5. \A i \in 0 .. sizes[2] - 1 : mem[base[a] + Y + i] = CapByte(base[3 - a], i)
    BY <1>3, <1>5, <1>7, <2>2
  <2>6. a # 3 /\ test # "libc_memmove"
    BY <1>2 DEF StructTest
  <2> QED BY <2>3, <2>4, <2>5, <2>6 DEF Ready
<1>19. ASSUME NEW r \in Steps, r.op = "check", Justifies(q, r) PROVE Holds(mem, tag, r)
  <2>1. /\ b = r.t /\ q.d = q.s /\ q.d <= r.start /\ q.d <= 32
        /\ (32 + c) + r.end <= q.d + q.n
    BY <1>4, <1>6, <1>19 DEF Justifies
  <2>2. r.start \in Nat /\ r.end \in Nat
    BY <1>19 DEF Steps, StepRecords
  <2>3. ASSUME NEW i \in 0 .. Sizeof - 1, q.d <= i, i < q.d + q.n
        PROVE  mem[e + i] = old.mem[o + i]
    <3>1. q.s + (i - q.d) = i
      BY <1>4, <2>1
    <3> QED BY <1>13, <2>3, <3>1
  <2>4. ASSUME NEW i \in r.start .. Pad - 1 PROVE mem[e + i] = i
    <3>1. i \in 0 .. 31 /\ i \in 0 .. Sizeof - 1 /\ q.d <= i /\ i < q.d + q.n
      BY <1>4, <1>5, <1>6, <2>1, <2>2
    <3> QED BY <1>16, <2>3, <3>1
  <2>5. e + 32 \in tag
    <3>1. 32 + c <= q.d + q.n /\ q.s + (32 - q.d) = 32
      BY <1>4, <1>5, <2>1, <2>2
    <3>2. o + 32 \in old.tag
      BY <1>6, <1>7 DEF Ready
    <3> QED BY <1>15, <2>1, <3>1, <3>2
  <2>6. ASSUME NEW i \in 0 .. c - 1 PROVE mem[e + Y + i] = CapByte(e, i)
    <3>1. /\ 32 + i \in 0 .. Sizeof - 1 /\ q.d <= 32 + i /\ 32 + i < q.d + q.n
          /\ e + Y + i = e + (32 + i)
      BY <1>4, <1>5, <1>6, <2>1, <2>2
    <3> QED BY <1>17, <2>3, <3>1
  <2>7. ASSUME NEW i \in 0 .. r.end - 1 PROVE mem[e + Pad1 + i] = i
    <3>1. /\ 32 + c + i \in 0 .. Sizeof - 1 /\ q.d <= 32 + c + i /\ 32 + c + i < q.d + q.n
          /\ e + Pad1 + i = e + (32 + c + i) /\ i \in 0 .. 31
      BY <1>4, <1>5, <1>6, <2>1, <2>2
    <3> QED BY <1>16, <2>3, <3>1
  <2>8. base[r.t] = e /\ base[r.t] + Y = e + 32
    BY <1>6, <1>7, <2>1
  <2> QED BY <1>5, <1>19, <2>4, <2>5, <2>6, <2>7, <2>8 DEF Holds
<1>20. ASSUME NEW r \in Steps, r.op = "shifted", Justifies(q, r) PROVE Holds(mem, tag, r)
  <2>1. b = r.t /\ q.d = 0 /\ q.s = 1 /\ q.n = Sizeof - 1
    BY <1>4, <1>20 DEF Justifies
  <2>2. ASSUME NEW i \in 0 .. Sizeof - 2 PROVE mem[e + i] = old.mem[o + (i + 1)]
    <3>1. i \in 0 .. Sizeof - 1 /\ q.d <= i /\ i < q.d + q.n /\ q.s + (i - q.d) = i + 1
      BY <1>5, <1>6, <2>1
    <3> QED BY <1>13, <3>1
  <2>3. e + 32 \notin tag
    <3>1. q.d <= 32 /\ 32 + c <= q.d + q.n /\ q.s + (32 - q.d) = 33
      BY <1>5, <1>6, <2>1
    <3>2. o + 33 \notin old.tag
      <4>1. (o + 32) % c = 0 /\ o + 32 \in Int /\ o + 33 \in Int /\ c \in Nat \ {0}
        BY <1>5, <1>7, <1>8 DEF Granules
      <4>2. (o + 33) % c = 0 => (o + 32) + c <= o + 33
        BY <4>1, MultipleGap
      <4>3. (o + 33) % c # 0
        BY <1>5, <1>7, <4>2
      <4> QED BY <1>1, <1>5, <4>3 DEF CallOK, Granules
    <3> QED BY <1>15, <3>1, <3>2
  <2>4. ASSUME NEW i \in 0 .. Pad - 2 PROVE mem[e + i] = i + 1 /\ mem[e + Pad1 + i] = i + 1
    <3>1. /\ i \in 0 .. Sizeof - 2 /\ 32 + c + i \in 0 .. Sizeof - 2 /\ i + 1 \in 0 .. 31
          /\ e + Pad1 + i = e + (32 + c + i) /\ 32 + c + i + 1 = 32 + c + (i + 1)
      BY <1>5, <1>6
    <3>2. mem[e + i] = old.mem[o + (i + 1)]
      BY <2>2, <3>1
    <3>3. mem[e + (32 + c + i)] = old.mem[o + (32 + c + (i + 1))]
      BY <2>2, <3>1
    <3> QED BY <1>16, <3>1, <3>2, <3>3
  <2>5. base[r.t] = e /\ base[r.t] + Y = e + 32
    BY <1>6, <1>7, <2>1
  <2> QED BY <1>20, <2>3, <2>4, <2>5 DEF Holds
<1>21. ASSUME NEW r \in Steps, r.op = "sety", Justifies(q, r) PROVE Holds(mem, tag, r)
  <2>1. b = r.t /\ q.d = 0 /\ q.s = 0 /\ q.n = Sizeof /\ r.x = 3 - r.t
    BY <1>4, <1>21 DEF Justifies
  <2>2. ASSUME NEW i \in 0 .. Sizeof - 1 PROVE mem[e + i] = old.mem[o + i]
    <3>1. q.d <= i /\ i < q.d + q.n /\ q.s + (i - q.d) = i
      BY <1>5, <1>6, <2>1
    <3> QED BY <1>13, <3>1
  <2>3. ASSUME NEW i \in 0 .. Pad - 1 PROVE mem[e + i] = i /\ mem[e + Pad1 + i] = i
    <3>1. /\ i \in 0 .. 31 /\ i \in 0 .. Sizeof - 1 /\ 32 + c + i \in 0 .. Sizeof - 1
          /\ e + Pad1 + i = e + (32 + c + i)
      BY <1>5, <1>6
    <3> QED BY <1>16, <2>2, <3>1
  <2>4. PadsOf(mem, r.t)
    BY <1>7, <2>1, <2>3 DEF PadsOf
  <2> QED BY <1>21, <2>1, <2>4 DEF Holds
<1>22. ASSUME NEW r \in Steps, r.op = "checkdigits" PROVE ~Justifies(q, r)
  BY <1>3, <1>4, <1>22 DEF Justifies, DigitsCopy
<1> QED BY <1>18, <1>19, <1>20, <1>21, <1>22 DEF Dependent

\* The quotient and the remainder of an address in an array of capabilities.
LEMMA Element ==
  ASSUME NEW c \in Nat \ {0}, NEW k \in Nat, NEW j \in 0 .. c - 1
  PROVE  /\ k * c \in Nat /\ (k * c + j) \div c = k /\ (k * c + j) % c = j
         /\ (k + 2) * c = 2 * c + k * c /\ (k * c) % c = 0
<1>1. k * c \in Nat /\ (k * c) % c = 0 /\ (k + 2) * c = 2 * c + k * c
  <2>1. k * c \in Int /\ (k * c) % c = 0
    BY Product
  <2>2. k * c >= 0 /\ (k + 2) * c = 2 * c + k * c
    OBVIOUS
  <2> QED BY <2>1, <2>2
<1>2. PICK x \in Nat : x = k * c
  BY <1>1
<1>3. x + j \in Int /\ j \in Int /\ (x + j) - j = x
  BY <1>2
<1>4. (x + j) % c = j
  <2>1. (x + j) % c = j % c <=> ((x + j) - j) % c = 0
    BY <1>3, Congruent
  <2>2. j % c = j
    BY Remainder
  <2> QED BY <1>1, <1>2, <1>3, <2>1, <2>2
<1>5. PICK d \in Int : d = (x + j) \div c /\ x + j = d * c + j
  BY <1>3, <1>4, Remainder
<1>6. d = k
  <2>1. (d - k) * c = 0
    BY <1>2, <1>5
  <2>2. d - k > 0 => (d - k) * c > 0
    BY <1>5
  <2>3. d - k < 0 => (d - k) * c < 0
    BY <1>5
  <2> QED BY <1>5, <2>1, <2>2, <2>3
<1> QED BY <1>1, <1>2, <1>4, <1>5, <1>6

\* libc_memmove moves the pointers with their tags, two places down.
LEMMA DigitsCopied ==
  ASSUME CopyInv, Return, test # "none",
         NEW q \in Steps, q.op = "copy", Fits(q, 3), call = CallOf(q),
         Ready(old.mem, old.tag, 3)
  PROVE  \A r \in Steps : r.op \in Dependent /\ Justifies(q, r) => Holds(mem, tag, r)
<1>1. BuildOK /\ CallOK /\ test = "libc_memmove" /\ DigitsCopy(q)
  BY DEF CopyInv, RoutineInv, Return, Phases, Ready, Fits
<1>2. PICK c \in Nat \ {0} : c = sizes[2]
  BY <1>1, BuildFacts
<1>3. base = <<0>> /\ Size = 10 * c /\ Memory = 0 .. 10 * c - 1
  BY <1>1, <1>2 DEF BuildOK, Size, Memory
<1>4. D = 0 /\ S = 2 * c /\ Length = 8 * c /\ P = c
  BY <1>1, <1>2, <1>3 DEF CallOf, D, S, Length, P, DigitsCopy
<1>5. /\ Granules = {x \in Memory : x % c = 0} /\ old.tag = Granules
      /\ old.mem = [x \in Memory |-> CapByte(x \div c, x % c)]
  BY <1>2 DEF Ready, Granules
<1>6. ASSUME NEW i \in 0 .. 7, NEW j \in 0 .. c - 1
      PROVE  i * c \in tag /\ mem[i * c + j] = CapByte(i + 2, j)
  <2>1. PICK x \in Nat : x = i * c
    BY <1>2, Element
  <2>2. x + c <= 8 * c
    BY <1>2, <2>1
  <2>3. x \in Granules /\ x + j \in Memory /\ 2 * c + x \in Memory /\ 2 * c + (x + j) \in Memory
    <3>1. x % c = 0
      BY <1>2, <2>1, Element
    <3>2. /\ x \in Memory /\ x + j \in Memory /\ 2 * c + x \in Memory
          /\ 2 * c + (x + j) \in Memory
      <4>1. PICK z \in Nat : z = 10 * c - 1
        BY <1>2
      <4>2. 2 * c + (x + j) \in Nat /\ 2 * c + (x + j) <= z /\ 2 * c \in Nat
        BY <2>2, <4>1
      <4>3. Memory = 0 .. z
        BY <1>3, <4>1
      <4> QED BY <4>2, <4>3
    <3> QED BY <1>5, <3>1, <3>2
  <2>4. /\ (i + 2) * c = 2 * c + x /\ ((i + 2) * c + j) \div c = i + 2
        /\ ((i + 2) * c + j) % c = j /\ ((i + 2) * c) % c = 0
    <3>1. i + 2 \in Nat /\ i \in Nat
      OBVIOUS
    <3>2. (i + 2) * c = 2 * c + i * c
      BY <3>1, Element
    <3>3. /\ ((i + 2) * c + j) \div c = i + 2 /\ ((i + 2) * c + j) % c = j
          /\ ((i + 2) * c) % c = 0
      BY <3>1, Element
    <3> QED BY <2>1, <3>2, <3>3
  <2>5. i * c \in tag
    <3>1. 2 * c + x \in Granules
      BY <1>5, <2>3, <2>4
    <3>2. /\ Length > 0 /\ x < D + Length /\ D < x + P /\ D <= x /\ x + P <= D + Length
          /\ S + (x - D) = 2 * c + x /\ S # D
      BY <1>2, <1>4, <2>2
    <3> QED BY <1>5, <2>1, <2>3, <3>1, <3>2, CopiedFacts
  <2>6. mem[x + j] = CapByte(i + 2, j)
    <3>1. D <= x + j /\ x + j < D + Length /\ S + ((x + j) - D) = 2 * c + (x + j)
      BY <1>2, <1>4, <2>2
    <3>2. mem[x + j] = old.mem[2 * c + (x + j)]
      BY <2>3, <3>1, CopiedFacts
    <3>3. 2 * c + (x + j) = (i + 2) * c + j
      BY <1>2, <2>4
    <3>4. old.mem[2 * c + (x + j)] = CapByte((2 * c + (x + j)) \div c, (2 * c + (x + j)) % c)
      BY <1>5, <2>3
    <3> QED BY <2>4, <3>2, <3>3, <3>4
  <2> QED BY <2>1, <2>5, <2>6
<1>7. ASSUME NEW r \in Steps, r.op = "checkdigits" PROVE Holds(mem, tag, r)
  <2>1. 0 \in 0 .. c - 1
    BY <1>2
  <2> QED BY <1>2, <1>6, <1>7, <2>1 DEF Holds
<1>8. ASSUME NEW r \in Steps, r.op \in {"check", "shifted", "sety"} PROVE ~Justifies(q, r)
  <2>1. q.d = 0 /\ q.s # 0 /\ q.s # 1
    BY <1>1, <1>2 DEF DigitsCopy
  <2> QED BY <1>8, <2>1 DEF Justifies
<1> QED BY <1>7, <1>8 DEF Dependent

-----------------------------------------------------------------------------
\* Between the calls the structure is ready, and so is what the next step
\* relies on; during a call they were ready before it and the call will
\* establish what comes next.
InTest(f) ==
  /\ Ready(mem, tag, f[1])
  /\ script # <<>> /\ script[1].op \in Dependent => Holds(mem, tag, script[1])
InCall(f) ==
  \E q \in Steps, a \in 0 .. 3 :
    /\ q.op = "copy" /\ Fits(q, a) /\ call = CallOf(q) /\ f[1] = After(q, a)
    /\ Ready(old.mem, old.tag, a)
    /\ script # <<>> /\ script[1].op \in Dependent => Justifies(q, script[1])

\* The inductive invariant of the tests; a single call makes no checks.
ScriptInv ==
  /\ ~failed
  /\ pc = "done" /\ ReturnsDst => result = call.dst0
  /\ IF test = "none" THEN \A i \in 1 .. Len(script) : script[i].op = "copy"
     ELSE \E f : Typed(script, f) /\ IF pc \in Phases THEN InCall(f) ELSE InTest(f)

\* What depends on the test and its build alone.
LEMMA ScriptFrame ==
  ASSUME UNCHANGED <<test, sizes, base>>
  PROVE  /\ Steps' = Steps /\ ReturnsDst' = ReturnsDst
         /\ \A s, f : Typed(s, f)' <=> Typed(s, f)
         /\ \A q, a : Fits(q, a)' <=> Fits(q, a)
         /\ \A q, a : After(q, a)' = After(q, a)
         /\ \A q, r : Justifies(q, r)' <=> Justifies(q, r)
         /\ \A q : CallOf(q)' = CallOf(q)
         /\ \A m, g, a : Ready(m, g, a)' <=> Ready(m, g, a)
         /\ \A m, g, r : Holds(m, g, r)' <=> Holds(m, g, r)
<1>1. Sizeof' = Sizeof /\ Pad1' = Pad1 /\ Size' = Size /\ Memory' = Memory /\ Granules' = Granules
  BY DEF Sizeof, Pad1, Size, Memory, Granules
<1>2. Steps' = Steps /\ ReturnsDst' = ReturnsDst
  BY <1>1 DEF Steps, StepOK, ArgsOK, ReturnsDst, Y, Pad
<1>3. ASSUME NEW q, NEW a PROVE (Fits(q, a)' <=> Fits(q, a)) /\ After(q, a)' = After(q, a)
  BY <1>1, <1>2 DEF Fits, After, DigitsCopy
<1>4. ASSUME NEW q, NEW r PROVE Justifies(q, r)' <=> Justifies(q, r)
  BY <1>1 DEF Justifies, DigitsCopy, Y, Pad
<1>5. ASSUME NEW s, NEW f PROVE Typed(s, f)' <=> Typed(s, f)
  BY <1>3, <1>4 DEF Typed
<1>6. ASSUME NEW q PROVE CallOf(q)' = CallOf(q)
  BY DEF CallOf
<1>7. ASSUME NEW m, NEW g, NEW a PROVE Ready(m, g, a)' <=> Ready(m, g, a)
  BY <1>1 DEF Ready, PadsOf, Y, Pad
<1>8. ASSUME NEW m, NEW g, NEW r PROVE Holds(m, g, r)' <=> Holds(m, g, r)
  BY <1>1 DEF Holds, PadsOf, Y, Pad
<1> QED BY <1>2, <1>3, <1>4, <1>5, <1>6, <1>7, <1>8

\* The step a test is at.
LEMMA AtStep ==
  ASSUME CopyInv, ScriptInv, test # "none", pc = "idle", script # <<>>
  PROVE  \E a \in 0 .. 3, f \in [Nat -> 0 .. 3] :
           /\ Fits(Step, a) /\ Ready(mem, tag, a)
           /\ Step.op \in Dependent => Holds(mem, tag, Step)
           /\ Typed(Tail(script), f) /\ f[1] = After(Step, a)
<1>1. script \in Seq(Steps)
  BY DEF CopyInv
<1>2. PICK f : Typed(script, f) /\ InTest(f)
  BY DEF ScriptInv, Phases
<1>3. /\ Head(script) = script[1] /\ Fits(script[1], f[1]) /\ f[1] \in 0 .. 3
      /\ \E g : Typed(Tail(script), g) /\ g[1] = After(script[1], f[1])
  BY <1>1, <1>2, TypedTail
<1>4. PICK g : Typed(Tail(script), g) /\ g[1] = After(script[1], f[1])
  BY <1>3
<1>5. Ready(mem, tag, f[1]) /\ (script[1].op \in Dependent => Holds(mem, tag, script[1]))
  BY <1>2 DEF InTest
<1>6. g \in [Nat -> 0 .. 3]
  BY <1>4 DEF Typed
<1> QED BY <1>3, <1>4, <1>5, <1>6 DEF Step

\* What the next step relies on is justified by the one that is taken.
LEMMA NextStep ==
  ASSUME CopyInv, ScriptInv, test # "none", script # <<>>, Tail(script) # <<>>,
         Tail(script)[1].op \in Dependent
  PROVE  Tail(script)[1] \in Steps /\ Justifies(Step, Tail(script)[1])
<1>1. script \in Seq(Steps)
  BY DEF CopyInv
<1>2. PICK f : Typed(script, f)
  BY DEF ScriptInv
<1>3. /\ Head(script) = script[1]
      /\ Tail(script)[1] \in Steps /\ Justifies(script[1], Tail(script)[1])
  BY <1>1, <1>2, TypedTail
<1> QED BY <1>3 DEF Step

\* A step of the test itself leaves a structure ready to be copied from and
\* what the next step relies on.
LEMMA TestMoves ==
  ASSUME CopyInv, ScriptInv, test # "none", pc = "idle", script # <<>>,
         Taken, Quiet, ~failed', NEW m, NEW g, m = mem', g = tag',
         \A a \in 0 .. 3 :
           /\ Fits(Step, a) /\ Ready(mem, tag, a)
           /\ Step.op \in Dependent => Holds(mem, tag, Step)
           => Ready(m, g, After(Step, a)),
         \A r \in Steps : r.op \in Dependent /\ Justifies(Step, r) => Holds(m, g, r)
  PROVE  ScriptInv'
<1>1. PICK a \in 0 .. 3, f \in [Nat -> 0 .. 3] :
        /\ Fits(Step, a) /\ Ready(mem, tag, a)
        /\ Step.op \in Dependent => Holds(mem, tag, Step)
        /\ Typed(Tail(script), f) /\ f[1] = After(Step, a)
  BY AtStep
<1>2. Ready(m, g, f[1])
  BY <1>1
<1>3. PICK t : t = Tail(script)
  OBVIOUS
<1>4. t # <<>> /\ t[1].op \in Dependent => Holds(m, g, t[1])
  BY <1>3, NextStep
<1>5. script' = t /\ UNCHANGED <<test, sizes, base>> /\ pc' = "idle"
  BY <1>3 DEF Taken, Quiet
<1>6. /\ Typed(t, f)' /\ Ready(m, g, f[1])'
      /\ t # <<>> /\ t[1].op \in Dependent => Holds(m, g, t[1])'
  BY <1>1, <1>2, <1>3, <1>4, <1>5, ScriptFrame
<1>7. Typed(script, f)'
  BY <1>5, <1>6
<1>8. InTest(f)'
  BY <1>5, <1>6 DEF InTest
<1> QED BY <1>5, <1>7, <1>8 DEF ScriptInv, Phases

\* The steps of the tests that store and that check.
LEMMA TestStepKeepsScript ==
  ASSUME CopyInv, ScriptInv, test # "none",
         \/ InvalidateStruct \/ Fill \/ AssignY \/ CheckStruct
         \/ CheckShifted \/ FillDigits \/ CheckDigits
  PROVE  ScriptInv'
<1>1. pc = "idle" /\ script # <<>> /\ Taken /\ Quiet /\ ~failed
  BY DEF InvalidateStruct, Fill, AssignY, CheckStruct, CheckShifted, FillDigits, CheckDigits, At
<1>2. BuildOK /\ mem \in [Memory -> Int] /\ DOMAIN mem = Memory /\ script \in Seq(Steps)
  BY DEF CopyInv, MemoryOK
<1>3. PICK q \in Steps : q = Step
  BY <1>1, <1>2 DEF Step
<1>4. PICK m, g : m = mem' /\ g = tag'
  OBVIOUS
<1>5. Step.op \in Dependent => Holds(mem, tag, Step)
  <2>1. \E a \in 0 .. 3, f \in [Nat -> 0 .. 3] :
           /\ Fits(Step, a) /\ Ready(mem, tag, a)
           /\ Step.op \in Dependent => Holds(mem, tag, Step)
           /\ Typed(Tail(script), f) /\ f[1] = After(Step, a)
    BY <1>1, AtStep
  <2> QED BY <2>1
<1>6. ASSUME ~failed',
             \A a \in 0 .. 3 : Fits(q, a) /\ Ready(mem, tag, a) => Ready(m, g, After(q, a)),
             \A r \in Steps : r.op \in Dependent /\ Justifies(q, r) => Holds(m, g, r)
      PROVE  ScriptInv'
  BY <1>1, <1>3, <1>4, <1>6, TestMoves
<1>7. ASSUME q.op \notin {"copy", "fill"}, NEW r \in Steps, r.op \in Dependent PROVE ~Justifies(q, r)
  BY <1>7, NotRelied
<1>8. CASE InvalidateStruct
  <2>1. /\ q.op = "invalidate" /\ ~failed'
        /\ m = [mem EXCEPT ![base[q.t]] = Invalid] /\ g = tag \ {base[q.t]}
    BY <1>1, <1>3, <1>4, <1>8 DEF InvalidateStruct, At, Step
  <2>2. \A a \in 0 .. 3 : Fits(q, a) /\ Ready(mem, tag, a) => Ready(m, g, After(q, a))
    BY <1>2, <2>1, InvalidateKeeps
  <2> QED BY <1>6, <1>7, <2>1, <2>2
<1>9. CASE Fill
  <2>1. /\ q.op = "fill" /\ ~failed'
        /\ m = [x \in Memory |-> IF x - base[q.t] \in 0 .. Pad - 1 THEN x - base[q.t]
                                 ELSE IF x - base[q.t] \in Pad1 .. Sizeof - 1
                                      THEN x - base[q.t] - Pad1 ELSE mem[x]]
    BY <1>1, <1>2, <1>3, <1>4, <1>9 DEF Fill, At, Step
  <2>2. ASSUME NEW a \in 0 .. 3, Fits(q, a)
        PROVE  /\ Ready(m, g, After(q, a))
               /\ \A r \in Steps : r.op \in Dependent /\ Justifies(q, r) => Holds(m, g, r)
    BY <1>2, <2>1, <2>2, FillPrepares
  <2>3. \E a \in 0 .. 3 : Fits(q, a)
    BY <1>1, <1>3, AtStep
  <2> QED BY <1>6, <2>1, <2>2, <2>3
<1>10. CASE AssignY
  <2>1. /\ q.op = "sety" /\ ~failed'
        /\ m = [b \in Memory |-> IF b - (base[q.t] + Y) \in 0 .. sizes[2] - 1
                                 THEN CapByte(base[q.x], b - (base[q.t] + Y)) ELSE mem[b]]
        /\ g = tag \cup {base[q.t] + Y}
    BY <1>1, <1>2, <1>3, <1>4, <1>10 DEF AssignY, StoreCap, At, Step
  <2>2. Holds(mem, tag, q)
    BY <1>3, <1>5, <2>1 DEF Dependent
  <2>3. \A a \in 0 .. 3 : Fits(q, a) /\ Ready(mem, tag, a) => Ready(m, g, After(q, a))
    BY <1>2, <2>1, <2>2, AssignYReady
  <2> QED BY <1>6, <1>7, <2>1, <2>3
<1>11. ASSUME UNCHANGED <<mem, tag>>, q.op \in {"check", "shifted", "checkdigits"}, ~failed'
       PROVE  ScriptInv'
  <2>1. \A a \in 0 .. 3 : After(q, a) = a
    BY <1>11 DEF After
  <2>2. m = mem /\ g = tag
    BY <1>4, <1>11
  <2> QED BY <1>6, <1>7, <1>11, <2>1, <2>2
<1>12. CASE CheckStruct
  <2>1. q.op = "check" /\ UNCHANGED <<mem, tag>>
    BY <1>3, <1>12 DEF CheckStruct, At, Step
  <2>2. Holds(mem, tag, q)
    BY <1>3, <1>5, <2>1 DEF Dependent
  <2>3. ~failed'
    BY <1>3, <1>12, <2>1, <2>2 DEF CheckStruct, Holds, HoldsCap
  <2> QED BY <1>11, <2>1, <2>3
<1>13. CASE CheckShifted
  <2>1. q.op = "shifted" /\ UNCHANGED <<mem, tag>>
    BY <1>3, <1>13 DEF CheckShifted, At, Step
  <2>2. Holds(mem, tag, q)
    BY <1>3, <1>5, <2>1 DEF Dependent
  <2>3. ~failed'
    BY <1>3, <1>13, <2>1, <2>2 DEF CheckShifted, Holds
  <2> QED BY <1>11, <2>1, <2>3
<1>14. CASE CheckDigits
  <2>1. q.op = "checkdigits" /\ UNCHANGED <<mem, tag>>
    BY <1>3, <1>14 DEF CheckDigits, At, Step
  <2>2. Holds(mem, tag, q)
    BY <1>3, <1>5, <2>1 DEF Dependent
  <2>3. ~failed'
    BY <1>3, <1>14, <2>1, <2>2 DEF CheckDigits, Holds, HoldsCap
  <2> QED BY <1>11, <2>1, <2>3
<1>15. CASE FillDigits
  <2>1. /\ q.op = "digits" /\ ~failed' /\ g = Granules
        /\ m = [x \in Memory |-> CapByte(x \div sizes[2], x % sizes[2])]
    BY <1>1, <1>2, <1>3, <1>4, <1>15 DEF FillDigits, At, Step, Granules
  <2>2. ASSUME NEW a \in 0 .. 3, Fits(q, a) PROVE Ready(m, g, After(q, a))
    <3>1. test = "libc_memmove" /\ After(q, a) = 3
      BY <2>1, <2>2 DEF Fits, After
    <3> QED BY <2>1, <3>1 DEF Ready
  <2> QED BY <1>6, <1>7, <2>1, <2>2
<1> QED BY <1>8, <1>9, <1>10, <1>12, <1>13, <1>14, <1>15

\* A test calls the routine, and the routine comes to its return.
LEMMA CallKeepsScript ==
  ASSUME CopyInv, ScriptInv, test # "none", Call
  PROVE  ScriptInv'
<1>1. /\ pc = "idle" /\ script # <<>> /\ Taken /\ ~failed' /\ pc' = "call"
      /\ Step.op = "copy" /\ call' = CallOf(Step) /\ old' = [mem |-> mem, tag |-> tag]
  BY DEF Call, At, Enter, Step, CallOf
<1>2. PICK a \in 0 .. 3, f \in [Nat -> 0 .. 3] :
        /\ Fits(Step, a) /\ Ready(mem, tag, a)
        /\ Step.op \in Dependent => Holds(mem, tag, Step)
        /\ Typed(Tail(script), f) /\ f[1] = After(Step, a)
  BY <1>1, AtStep
<1>3. PICK q \in Steps : q = Step
  BY <1>1 DEF CopyInv, Step
<1>4. PICK t, m, g, c : t = Tail(script) /\ m = mem /\ g = tag /\ c = CallOf(q)
  OBVIOUS
<1>5. t # <<>> /\ t[1].op \in Dependent => Justifies(q, t[1])
  BY <1>1, <1>3, <1>4, NextStep
<1>6. script' = t /\ UNCHANGED <<test, sizes, base>> /\ old'.mem = m /\ old'.tag = g /\ call' = c
  BY <1>1, <1>3, <1>4 DEF Taken
<1>7. /\ Typed(t, f)' /\ Ready(m, g, a)' /\ Fits(q, a)' /\ f[1] = After(q, a)'
      /\ c = CallOf(q)' /\ q \in Steps'
      /\ t # <<>> /\ t[1].op \in Dependent => Justifies(q, t[1])'
  BY <1>2, <1>3, <1>4, <1>5, <1>6, ScriptFrame
<1>8. Typed(script, f)'
  BY <1>6, <1>7
<1>9. InCall(f)'
  BY <1>1, <1>3, <1>6, <1>7 DEF InCall
<1> QED BY <1>1, <1>6, <1>8, <1>9 DEF ScriptInv, Phases

\* A step of the routine; when it is through, the next check will hold.
LEMMA RoutineKeepsScript ==
  ASSUME CopyInv, ScriptInv, test # "none", Routine, CopyInv'
  PROVE  ScriptInv'
<1>1. UNCHANGED <<test, sizes, base, script, failed, call, old>> /\ pc \in Phases
  BY DEF Routine, CopyNext, Begin, Align, Words, Ptrs, TailBytes, Turn, Return, Phase,
         CopyInv, RoutineInv, Phases
<1>2. PICK f : Typed(script, f) /\ InCall(f)
  BY <1>1 DEF ScriptInv
<1>3. PICK q \in Steps, a \in 0 .. 3 :
        /\ q.op = "copy" /\ Fits(q, a) /\ call = CallOf(q) /\ f[1] = After(q, a)
        /\ Ready(old.mem, old.tag, a)
        /\ script # <<>> /\ script[1].op \in Dependent => Justifies(q, script[1])
  BY <1>2 DEF InCall
<1>4. PICK t, m, g, c : t = script /\ m = old.mem /\ g = old.tag /\ c = call
  OBVIOUS
<1>5. script' = t /\ old'.mem = m /\ old'.tag = g /\ call' = c /\ t \in Seq(Steps)
  BY <1>1, <1>4 DEF CopyInv
<1>6. Typed(script, f)'
  BY <1>1, <1>2, <1>4, <1>5, ScriptFrame
<1>7. CASE ~Return
  <2>1. pc' \in Phases
    BY <1>1, <1>7 DEF Routine, CopyNext, Begin, Align, Words, Ptrs, TailBytes, Turn, Phase,
                      CopyInv, RoutineInv, Phases
  <2>2. /\ Ready(m, g, a)' /\ Fits(q, a)' /\ f[1] = After(q, a)' /\ c = CallOf(q)' /\ q \in Steps'
        /\ t # <<>> /\ t[1].op \in Dependent => Justifies(q, t[1])'
    BY <1>1, <1>3, <1>4, ScriptFrame
  <2>3. InCall(f)'
    BY <1>3, <1>5, <2>2 DEF InCall
  <2> QED BY <1>1, <1>6, <2>1, <2>3 DEF ScriptInv, Phases
<1>8. CASE Return
  <2>1. pc' = "done" /\ UNCHANGED <<mem, tag>> /\ (call.fn # "bcopy" => result' = call.dst0)
    BY <1>8 DEF Return
  <2>2. PICK k, h : k = mem /\ h = tag /\ k = mem' /\ h = tag'
    BY <2>1
  <2>3. /\ Ready(k, h, f[1])
        /\ \A r \in Steps : r.op \in Dependent /\ Justifies(q, r) => Holds(k, h, r)
    <3>1. a \in {1, 2} \/ a = 3
      BY <1>3 DEF Fits
    <3>2. CASE a \in {1, 2}
      <4>1. f[1] = a
        BY <1>3, <3>2 DEF After
      <4> QED BY <1>3, <1>8, <2>2, <3>2, <4>1, StructCopied
    <3>3. CASE a = 3
      <4>1. f[1] = 0
        BY <1>3, <3>3 DEF After
      <4>2. Ready(k, h, f[1])
        BY <4>1 DEF Ready
      <4> QED BY <1>3, <1>8, <2>2, <3>3, <4>2, DigitsCopied
    <3> QED BY <3>1, <3>2, <3>3
  <2>4. t # <<>> => t[1] \in Steps
    BY <1>5
  <2>5. t # <<>> /\ t[1].op \in Dependent => Holds(k, h, t[1])
    BY <1>3, <1>4, <2>3, <2>4
  <2>6. Ready(k, h, f[1])' /\ (t # <<>> /\ t[1].op \in Dependent => Holds(k, h, t[1])')
    BY <1>1, <2>3, <2>5, ScriptFrame
  <2>7. InTest(f)'
    BY <1>5, <2>2, <2>6 DEF InTest
  <2>8. ReturnsDst' => result' = call'.dst0
    <3>1. ReturnsDst' = ReturnsDst
      BY <1>1, ScriptFrame
    <3>2. ReturnsDst => call.fn # "bcopy"
      BY <1>3 DEF Fits, CallOf
    <3> QED BY <1>1, <2>1, <3>1, <3>2
  <2> QED BY <1>1, <1>6, <2>1, <2>7, <2>8 DEF ScriptInv, Phases
<1> QED BY <1>7, <1>8

\* A single call makes no checks.
LEMMA SingleKeepsScript ==
  ASSUME CopyInv, ScriptInv, test = "none", Next
  PROVE  ScriptInv'
<1>1. script \in Seq(Steps) /\ \A i \in 1 .. Len(script) : script[i].op = "copy"
  BY DEF CopyInv, ScriptInv
<1>2. script # <<>> => Head(script).op = "copy"
  <2> SUFFICES ASSUME script # <<>> PROVE Head(script).op = "copy"
    OBVIOUS
  <2>1. 1 \in 1 .. Len(script) /\ Head(script) = script[1]
    BY <1>1
  <2> QED BY <1>1, <2>1
<1>3. \A i \in 1 .. Len(Tail(script)) : script # <<>> => Tail(script)[i].op = "copy"
  <2> SUFFICES ASSUME script # <<>>, NEW i \in 1 .. Len(Tail(script))
               PROVE  Tail(script)[i].op = "copy"
    OBVIOUS
  <2>1. Tail(script)[i] = script[i + 1] /\ i + 1 \in 1 .. Len(script)
    BY <1>1
  <2> QED BY <1>1, <2>1
<1>4. ~failed /\ ~(test \in {"clang_hybrid_memcpy", "libc_memcpy"})
  BY DEF ScriptInv
<1>5. CASE Routine \/ Returned
  <2>1. test' = "none" /\ script' = script
    BY <1>5 DEF Routine, Returned
  <2>2. ~failed'
    BY <1>4, <1>5, Zenon DEF Routine, Returned
  <2> QED BY <1>1, <2>1, <2>2 DEF ScriptInv, ReturnsDst
<1>6. CASE Call
  <2>1. test' = "none" /\ script' = Tail(script) /\ ~failed' /\ script # <<>>
    BY <1>4, <1>6 DEF Call, Taken, At
  <2> QED BY <1>3, <2>1 DEF ScriptInv, ReturnsDst
<1>7. CASE \/ InvalidateStruct \/ Fill \/ AssignY \/ CheckStruct
           \/ CheckShifted \/ FillDigits \/ CheckDigits
  BY <1>2, <1>7 DEF InvalidateStruct, Fill, AssignY, CheckStruct, CheckShifted, FillDigits,
                    CheckDigits, At
<1> QED BY <1>5, <1>6, <1>7 DEF Next

\* A test starts with its whole script, and with no structure to copy from.
LEMMA ScriptInit == Init => ScriptInv
<1> SUFFICES ASSUME Init PROVE ScriptInv
  OBVIOUS
<1>1. CopyInv /\ ~failed /\ pc = "idle" /\ (TestInit \/ CallInit)
  BY CopyInit DEF Init
<1>2. CASE CallInit
  <2>1. test = "none"
    BY <1>2 DEF CallInit
  <2>2. \E fn, n : script = Copy(fn, 1, 0, 2, 0, n)
    BY <1>2 DEF CallInit
  <2>3. \A i \in 1 .. Len(script) : script[i].op = "copy"
    BY <2>2 DEF Copy
  <2> QED BY <1>1, <2>1, <2>3 DEF ScriptInv, ReturnsDst
<1>3. CASE TestInit
  <2>1. test # "none" /\ script = Script
    BY <1>3, CopyTestsAssumption DEF TestInit
  <2>2. PICK a : script \in Block(0, a)
    BY <1>1, <2>1, StructTyped, BufferTyped DEF StructTest, CopyInv
  <2>3. PICK f : Typed(script, f) /\ f[1] = 0
    BY <2>2 DEF Block
  <2>4. script[1].op \notin Dependent
    BY <2>2 DEF Block
  <2>5. InTest(f)
    BY <2>3, <2>4 DEF InTest, Ready
  <2> QED BY <1>1, <2>1, <2>3, <2>5 DEF ScriptInv, Phases
<1> QED BY <1>1, <1>2, <1>3

\* Back in the test, the pointer returned is the destination.
LEMMA ReturnedKeepsScript ==
  ASSUME CopyInv, ScriptInv, test # "none", Returned
  PROVE  ScriptInv'
<1>1. /\ pc = "done" /\ pc' = "idle" /\ UNCHANGED <<mem, tag, test, sizes, base, script>>
      /\ ~failed'
  BY DEF Returned, ScriptInv, ReturnsDst
<1>2. PICK f : Typed(script, f) /\ InTest(f)
  BY <1>1 DEF ScriptInv, Phases
<1>3. PICK t, m, g : t = script /\ m = mem /\ g = tag /\ t = script' /\ m = mem' /\ g = tag'
  BY <1>1
<1>4. /\ Typed(t, f)' /\ Ready(m, g, f[1])'
      /\ t # <<>> /\ t[1].op \in Dependent => Holds(m, g, t[1])'
  BY <1>1, <1>2, <1>3, ScriptFrame DEF InTest
<1>5. Typed(script, f)' /\ InTest(f)'
  BY <1>3, <1>4 DEF InTest
<1> QED BY <1>1, <1>5 DEF ScriptInv, Phases

\* The inductive invariant of the copying tests: what is left of the script is
\* typed, the structure it copies from is ready, and what its next step
\* checks is there or is what the call under way will leave.
THEOREM ScriptInvariance == Spec => []ScriptInv
<1>1. ScriptInv /\ CopyInv /\ CopyInv' /\ [Next]_vars => ScriptInv'
  <2> SUFFICES ASSUME ScriptInv, CopyInv, CopyInv', [Next]_vars PROVE ScriptInv'
    OBVIOUS
  <2>1. CASE Next /\ test = "none"
    BY <2>1, SingleKeepsScript
  <2>2. CASE Next /\ test # "none"
    BY <2>2, RoutineKeepsScript, CallKeepsScript, ReturnedKeepsScript, TestStepKeepsScript
    DEF Next
  <2>3. CASE UNCHANGED vars
    <3>1. UNCHANGED <<mem, tag, call, pc, result, old, test, sizes, base, script, failed>>
      BY <2>3 DEF vars, copyVars
    <3>2. CASE test = "none"
      BY <3>1, <3>2 DEF ScriptInv, ReturnsDst
    <3>3. CASE test # "none"
      <4>1. PICK f : Typed(script, f) /\ IF pc \in Phases THEN InCall(f) ELSE InTest(f)
        BY <3>3 DEF ScriptInv
      <4>2. PICK t, m, g, k, h, c :
              /\ t = script /\ m = mem /\ g = tag /\ k = old.mem /\ h = old.tag /\ c = call
              /\ t = script' /\ m = mem' /\ g = tag' /\ k = old'.mem /\ h = old'.tag /\ c = call'
        BY <3>1
      <4>3. Typed(script, f)'
        BY <3>1, <4>1, <4>2, ScriptFrame
      <4>4. InTest(f) => InTest(f)'
        <5> SUFFICES ASSUME InTest(f) PROVE InTest(f)'
          OBVIOUS
        <5>1. /\ Ready(m, g, f[1])'
              /\ t # <<>> /\ t[1].op \in Dependent => Holds(m, g, t[1])'
          BY <3>1, <4>2, ScriptFrame DEF InTest
        <5> QED BY <4>2, <5>1 DEF InTest
      <4>5. InCall(f) => InCall(f)'
        <5> SUFFICES ASSUME InCall(f) PROVE InCall(f)'
          OBVIOUS
        <5>1. PICK q \in Steps, a \in 0 .. 3 :
                /\ q.op = "copy" /\ Fits(q, a) /\ c = CallOf(q) /\ f[1] = After(q, a)
                /\ Ready(k, h, a)
                /\ t # <<>> /\ t[1].op \in Dependent => Justifies(q, t[1])
          BY <4>2 DEF InCall
        <5>2. /\ Fits(q, a)' /\ c = CallOf(q)' /\ f[1] = After(q, a)' /\ Ready(k, h, a)'
              /\ q \in Steps'
              /\ t # <<>> /\ t[1].op \in Dependent => Justifies(q, t[1])'
          BY <3>1, <5>1, ScriptFrame
        <5> QED BY <4>2, <5>1, <5>2 DEF InCall
      <4> QED BY <3>1, <3>3, <4>1, <4>3, <4>4, <4>5 DEF ScriptInv, ReturnsDst
    <3> QED BY <3>2, <3>3
  <2> QED BY <2>1, <2>2, <2>3
<1> QED BY <1>1, ScriptInit, CopyInvariance, PTL DEF Spec

\* The copying tests (clang_hybrid_memcpy.c, _memmove.c, _bcopy.c, libc_memcpy.c
\* and libc_memmove.c): no assertion fails on this routine, for every size of
\* capability larger than a byte, whatever was on the stack and in whichever
\* order the structures lie there.
THEOREM TestsHold == Spec => []AssertsHold
<1>1. ScriptInv => AssertsHold
  BY DEF ScriptInv, AssertsHold
<1> QED BY <1>1, ScriptInvariance, PTL

-----------------------------------------------------------------------------
(***************************************************************************)
(* Termination: a measure that every step decreases.                       *)
(***************************************************************************)
\* What is left of the loop under way, in bytes, and where a call is.
LoopLeft == IF loop = NoLoop THEN 0 ELSE IF Up THEN -loop.t ELSE loop.t + loop.unit
Order == <<"idle", "done", "return", "tail", "ptrs", "words", "align", "call">>
Later(p, q) == \E i, j \in 1 .. 8 : i < j /\ q = Order[i] /\ p = Order[j]

\* Every step uses up the script, the phases of a call or the loop under way.
Closer ==
  \/ Len(script') < Len(script)
  \/ script' = script /\ Later(pc, pc')
  \/ script' = script /\ pc' = pc /\ LoopLeft' < LoopLeft

\* A loop has some bytes left until it has ended.
LEMMA LoopLeftNat == CopyInv => LoopLeft \in Nat
<1> SUFFICES ASSUME CopyInv, loop # NoLoop PROVE LoopLeft \in Nat
  BY DEF LoopLeft
<1>1. CallOK /\ LoopInv /\ BuildOK
  BY DEF CopyInv, RoutineInv, Phases, Untouched, Working
<1>2. W \in Nat \ {0} /\ P \in Nat \ {0}
  BY <1>1 DEF CallOK, BuildOK
<1> QED BY <1>1, <1>2 DEF LoopInv, LoopLeft

\* A turn of a loop that stops on equality still brings it nearer to its end.
LEMMA TurnCloser == CopyInv /\ Routine /\ Turn => Closer
<1> SUFFICES ASSUME CopyInv, Routine, Turn PROVE Closer
  OBVIOUS
<1>1. loop # NoLoop /\ CallOK /\ LoopInv /\ BuildOK /\ UNCHANGED <<script, call>>
  BY DEF CopyInv, RoutineInv, Phases, Untouched, Working, Turn, Routine
<1>2. W \in Nat \ {0} /\ P \in Nat \ {0}
  BY <1>1 DEF CallOK, BuildOK
<1>3. pc' = pc /\ loop' = IF AtLast THEN NoLoop ELSE [loop EXCEPT !.t = @ + loop.inc]
  <2>1. CopyInv'
    BY RoutineStep
  <2>2. pc' # "trap"
    BY <2>1 DEF CopyInv, RoutineInv, Phases
  <2> QED BY <2>2 DEF Turn
<1>4. Up' = Up
  BY <1>1 DEF Up, handle_overlap
<1>5. LoopLeft > 0 /\ LoopLeft \in Nat
  BY <1>1, <1>2 DEF LoopInv, LoopLeft
<1>6. CASE AtLast
  BY <1>1, <1>3, <1>5, <1>6 DEF Closer, LoopLeft
<1>7. CASE ~AtLast
  <2>1. loop.unit \in Nat \ {0} /\ loop.t \in Int /\ loop.inc \in Int
    BY <1>1, <1>2 DEF LoopInv
  <2>2. loop'.t = loop.t + loop.inc /\ loop'.unit = loop.unit
    BY <1>1, <1>3, <1>7 DEF LoopInv
  <2>3. LoopLeft' = LoopLeft - loop.unit \/ LoopLeft' = 0
    BY <1>1, <1>4, <2>1, <2>2 DEF LoopInv, LoopLeft
  <2> QED BY <1>1, <1>3, <1>5, <2>1, <2>3 DEF Closer
<1> QED BY <1>6, <1>7

\* The steps of the test and of the routine.
LEMMA StepCloser == CopyInv /\ Next => Closer
<1> SUFFICES ASSUME CopyInv, Next PROVE Closer
  OBVIOUS
<1>1. ASSUME script # <<>>, script' = Tail(script) PROVE Closer
  <2>1. script \in Seq(Steps)
    BY DEF CopyInv
  <2> QED BY <1>1, <2>1 DEF Closer
<1>2. CASE Call \/ InvalidateStruct \/ Fill \/ AssignY \/ CheckStruct \/ CheckShifted
           \/ FillDigits \/ CheckDigits
  BY <1>1, <1>2 DEF Call, InvalidateStruct, Fill, AssignY, CheckStruct, CheckShifted,
                    FillDigits, CheckDigits, At, Taken
<1>3. CASE Returned
  <2>1. Later("done", "idle")
    BY DEF Later, Order
  <2> QED BY <1>3, <2>1 DEF Returned, Closer
<1>4. CASE Routine
  <2>1. /\ Later("call", "return") /\ Later("call", "align") /\ Later("align", "words")
        /\ Later("words", "ptrs") /\ Later("ptrs", "tail") /\ Later("tail", "return")
        /\ Later("return", "done")
    BY DEF Later, Order
  <2>2. CASE Turn
    BY <1>4, <2>2, TurnCloser
  <2>3. CASE Begin \/ Align \/ Words \/ Ptrs \/ TailBytes \/ Return
    BY <1>4, <2>1, <2>3
    DEF Closer, Routine, Begin, Align, Words, Ptrs, TailBytes, Phase, Return
  <2> QED BY <1>4, <2>2, <2>3 DEF Routine, CopyNext
<1> QED BY <1>2, <1>3, <1>4 DEF Next

\* No run goes on for ever: every step shortens the script, or leaves it and
\* takes the call to a later phase, or leaves both and shortens a loop that has
\* a natural number of bytes left (memcpy.c, MIPSLOOP, which ends on equality
\* only).  It is the safe half of ScriptEnds.
THEOREM EveryStepCloser == Spec => [](LoopLeft \in Nat) /\ [][Closer]_vars
<1>1. CopyInv /\ [Next]_vars => [Closer]_vars
  BY StepCloser
<1> QED BY <1>1, LoopLeftNat, CopyInvariance, PTL DEF Spec
=============================================================================
