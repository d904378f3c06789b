---------------------------- MODULE DmaTestProofs ----------------------------
(***************************************************************************)
(* Proofs about the DMA fuzzer for all limits of the generator, all        *)
(* numbers of threads and all programs.  Of the generator the invariant    *)
(* bounds the spaces apart from the program (LengthInv): a space stands    *)
(* for at least one instruction to come; and the loops around a space by   *)
(* the length of the program (LevelInv).  Of the test it says that the     *)
(* array of active threads lists the threads not yet seen to be ready,     *)
(* each once (ActiveInv), and that the threads drawn are in it (DrawnInv). *)
(***************************************************************************)
EXTENDS DmaTest, FiniteSetTheorems, FunctionTheorems, TLAPS

LengthInv ==
  /\ GenTypeOK
  /\ SpacesCounted
  /\ spaces <= SPACE_LIMIT + zeros
  /\ program_length + spaces <= LENGTH_LIMIT + SPACE_LIMIT + 1 + zeros

\* The loops around a space are in the program, and it was not full before the
\* last of them.
LevelInv ==
  /\ \A i \in 1 .. Len(space) : 2 * space[i] <= program_length /\ 2 * space[i] <= LENGTH_LIMIT + 1
  /\ LoopsBounded

GenInv == LengthInv /\ LevelInv

\* The phases in which the threads drawn are used.
Switching == {"switch1", "switch2", "switch3", "test"}

Slots == 0 .. active_thread_count - 1

TestTypeOK ==
  /\ THREAD_COUNT \in Nat
  /\ active_threads \in [Threads -> Threads]
  /\ active_thread_count \in 0 .. THREAD_COUNT
  /\ work \in [Threads -> Nat]

ActiveInv ==
  /\ \A j, k \in Slots : active_threads[j] = active_threads[k] => j = k
  /\ \A t \in Threads : t \in seen <=> \A k \in Slots : active_threads[k] # t
  /\ \A t \in seen : t \in Threads /\ work[t] = 0
  /\ phase = "asserts" => active_thread_count = 0

DrawnInv ==
  /\ phase \in Switching => active_thread_count # 0
  /\ phase \in Switching \/ (phase = "head" /\ active_thread_count # 0) =>
       \A k \in Switches : thread_index[k] \in Slots
                           /\ thread[k] = active_threads[thread_index[k]]

DmaInv == GenInv /\ TestTypeOK /\ ActiveInv /\ DrawnInv

-----------------------------------------------------------------------------

\* The signs that the generator's comparisons of products settle: what is not
\* made an operation leaves room in the program, and, unless myrand() was 0,
\* what is made a sequence leaves room in the list of spaces.
LEMMA Signs ==
  ASSUME NEW l \in Nat \ {0}, NEW s \in Nat \ {0}, NEW r \in Nat \ {0},
         NEW p \in Nat, NEW lb \in Int, NEW sb \in Int,
         l * p <= r * lb
  PROVE  /\ lb >= 0
         /\ p > 0 => lb > 0
         /\ l * s * p > r * lb * sb => lb > 0
         /\ p > 0 /\ l * s * p <= r * lb * sb => sb > 0
<1>1. l * p >= 0 /\ (p > 0 => l * p > 0)
  OBVIOUS
<1>2. lb >= 0
  <2>1. lb < 0 => r * lb < 0
    OBVIOUS
  <2> QED BY <1>1, <2>1
<1>3. p > 0 => lb > 0
  <2>1. lb = 0 => r * lb = 0
    OBVIOUS
  <2> QED BY <1>1, <1>2, <2>1
<1>4. l * s * p > r * lb * sb => lb > 0
  <2>1. lb = 0 => r * lb * sb = 0
    OBVIOUS
  <2>2. p = 0 => l * s * p = 0
    OBVIOUS
  <2> QED BY <1>2, <1>3, <2>1, <2>2
<1>5. p > 0 /\ l * s * p <= r * lb * sb => sb > 0
  <2> SUFFICES ASSUME p > 0, l * s * p <= r * lb * sb, ~(sb > 0) PROVE FALSE
    OBVIOUS
  <2>1. l * s * p > 0
    <3>1. l * s \in Nat \ {0}
      OBVIOUS
    <3> QED BY <3>1
  <2>2. r * lb \in Nat
    BY <1>2
  <2>3. (r * lb) * sb <= 0
    BY <2>2
  <2> QED BY <2>1, <2>3
<1> QED BY <1>2, <1>3, <1>4, <1>5

\* The tree of one space.
LEMMA GenInvEmpty ==
  spaces = 1 /\ space = <<0>> /\ program_length = 0 /\ deepest = 0 /\ zeros = 0 => GenInv
BY GenAssumption DEF GenInv, LengthInv, LevelInv, LoopsBounded, GenTypeOK, SpacesCounted

\* Filling a space keeps the count of spaces and the room left.
LEMMA LengthInvStep == LengthInv /\ GenStep => LengthInv'
<1> SUFFICES ASSUME LengthInv, NEW p \in 0 .. RAND_LIMIT,
                    FillOp(p) \/ FillLoop(p) \/ FillSeq(p)
             PROVE  LengthInv'
  BY DEF GenStep
<1> USE DEF LengthInv, GenTypeOK, SpacesCounted
<1>1. /\ LENGTH_LIMIT \in Nat \ {0} /\ SPACE_LIMIT \in Nat \ {0}
      /\ RAND_LIMIT \in Nat \ {0} /\ MaxZeros \in Nat
  BY GenAssumption
<1>2. /\ p \in Nat /\ length_bias \in Int /\ space_bias \in Int
  BY <1>1 DEF length_bias, space_bias
<1>3. Draw(p)
  BY DEF FillOp, FillLoop, FillSeq
<1>4. /\ Head(space) \in Nat
      /\ Tail(space) \in Seq(Nat) /\ Len(Tail(space)) = Len(space) - 1
  BY <1>3 DEF Draw
<1>5. zeros' \in 0 .. MaxZeros /\ zeros' >= zeros /\ (p = 0 => zeros' = zeros + 1)
  BY <1>1, <1>3 DEF Draw
<1>6. ~IsOp(p) => LENGTH_LIMIT * p <= RAND_LIMIT * length_bias
  BY <1>1, <1>2 DEF IsOp
<1>7. deepest' \in Nat
  BY <1>4 DEF FillOp, FillLoop, FillSeq, Fill
<1>8. CASE FillOp(p)
  <2>1. space' = Tail(space)
    BY <1>4, <1>8 DEF FillOp, Fill
  <2>2. spaces' = spaces - 1 /\ program_length' = program_length + 1
    BY <1>8 DEF FillOp
  <2> QED BY <1>1, <1>3, <1>4, <1>5, <1>7, <2>1, <2>2 DEF Draw
<1>9. CASE FillLoop(p)
  <2>1. space' \in Seq(Nat) /\ Len(space') = Len(space)
    BY <1>4, <1>9 DEF FillLoop, Fill
  <2>2. spaces' = spaces /\ program_length' = program_length + 2
    BY <1>9 DEF FillLoop
  <2>3. length_bias > 0
    BY <1>1, <1>2, <1>6, <1>9, Signs DEF FillLoop, IsLoop
  <2>4. program_length <= LENGTH_LIMIT - 1
    BY <1>1, <2>3 DEF length_bias
  <2> QED BY <1>1, <1>5, <1>7, <2>1, <2>2, <2>4
<1>10. CASE FillSeq(p)
  <2>1. space' \in Seq(Nat) /\ Len(space') = Len(space) + 1
    BY <1>4, <1>10 DEF FillSeq, Fill
  <2>2. spaces' = spaces + 1 /\ program_length' = program_length
    BY <1>10 DEF FillSeq
  <2>3. LENGTH_LIMIT * SPACE_LIMIT * p <= RAND_LIMIT * length_bias * space_bias
    BY <1>1, <1>2, <1>10 DEF FillSeq, IsSeq, IsLoop
  <2>4. length_bias >= 0 /\ (p > 0 => space_bias > 0)
    BY <1>1, <1>2, <1>6, <1>10, <2>3, Signs DEF FillSeq, IsSeq
  <2>5. program_length <= LENGTH_LIMIT
    BY <1>1, <2>4 DEF length_bias
  <2>6. spaces' <= SPACE_LIMIT + zeros'
    <3>1. CASE p > 0
      BY <1>1, <1>5, <2>2, <2>4, <3>1 DEF space_bias
    <3>2. CASE p = 0
      BY <1>1, <1>5, <2>2, <3>2
    <3> QED BY <1>2, <3>1, <3>2
  <2>7. spaces \in Nat /\ program_length \in Nat /\ zeros' \in Nat
    BY <1>1, <1>5
  <2>8. program_length' + spaces' <= LENGTH_LIMIT + SPACE_LIMIT + 1 + zeros'
    BY <1>1, <2>2, <2>5, <2>6, <2>7
  <2> QED BY <1>1, <1>5, <1>7, <2>1, <2>2, <2>6, <2>7, <2>8
<1> QED BY <1>8, <1>9, <1>10

\* Filling a space makes none around which there are too many loops: a loop is
\* only begun where the program has room.
LEMMA LevelInvStep == GenInv /\ GenStep => LevelInv'
<1> SUFFICES ASSUME GenInv, NEW p \in 0 .. RAND_LIMIT,
                    FillOp(p) \/ FillLoop(p) \/ FillSeq(p)
             PROVE  LevelInv'
  BY DEF GenStep
<1> USE DEF GenInv, LengthInv, GenTypeOK, SpacesCounted
<1> DEFINE Fits(l, n) == 2 * l <= n /\ 2 * l <= LENGTH_LIMIT + 1
           n == program_length
<1>1. /\ LENGTH_LIMIT \in Nat \ {0} /\ SPACE_LIMIT \in Nat \ {0}
      /\ RAND_LIMIT \in Nat \ {0}
  BY GenAssumption
<1>2. p \in Nat /\ length_bias \in Int /\ space_bias \in Int /\ n \in Nat
  BY <1>1 DEF length_bias, space_bias
<1>3. Draw(p)
  BY DEF FillOp, FillLoop, FillSeq
<1>4. /\ Len(space) \in Nat \ {0} /\ Head(space) = space[1] /\ space[1] \in Nat
      /\ Tail(space) \in Seq(Nat) /\ Len(Tail(space)) = Len(space) - 1
      /\ \A i \in 1 .. Len(space) - 1 : Tail(space)[i] = space[i + 1]
  BY <1>3 DEF Draw
<1>5. \A i \in 1 .. Len(space) : space[i] \in Nat /\ Fits(space[i], n)
  BY DEF LevelInv
<1>6. LoopsBounded'
  <2>1. deepest' = IF Head(space) > deepest THEN Head(space) ELSE deepest
    BY DEF FillOp, FillLoop, FillSeq, Fill
  <2>2. 2 * Head(space) <= LENGTH_LIMIT + 1 /\ 2 * deepest <= LENGTH_LIMIT + 1
    BY <1>4, <1>5 DEF LevelInv, LoopsBounded
  <2> QED BY <2>1, <2>2 DEF LoopsBounded
<1>7. ASSUME NEW k \in Nat, NEW new \in Seq(Nat), Fill(new), program_length' = n + k,
             \A i \in 1 .. Len(new) : Fits(new[i], n + k)
      PROVE  LevelInv'
  <2>1. space' = Tail(space) \o new
    BY <1>7 DEF Fill
  <2>2. \A i \in 1 .. Len(Tail(space)) : Tail(space)[i] \in Nat /\ Fits(Tail(space)[i], n + k)
    BY <1>1, <1>2, <1>4, <1>5
  <2>3. ASSUME NEW i \in 1 .. Len(space') PROVE Fits(space'[i], n + k)
    <3>1. CASE i <= Len(Tail(space))
      BY <1>4, <2>1, <2>2, <3>1
    <3>2. CASE i > Len(Tail(space))
      <4>1. i - Len(Tail(space)) \in 1 .. Len(new) /\ space'[i] = new[i - Len(Tail(space))]
        BY <1>4, <2>1, <3>2
      <4> QED BY <1>7, <4>1
    <3> QED BY <1>4, <3>1, <3>2
  <2> QED BY <1>6, <1>7, <2>3 DEF LevelInv
<1>8. CASE FillOp(p)
  <2> DEFINE new == <<>>
  <2>1. new \in Seq(Nat) /\ \A i \in 1 .. Len(new) : Fits(new[i], n + 1)
    OBVIOUS
  <2>2. Fill(new) /\ program_length' = n + 1
    BY <1>8 DEF FillOp
  <2> HIDE DEF new, Fits
  <2> QED BY <1>7, <2>1, <2>2
<1>9. CASE FillLoop(p)
  <2>1. length_bias > 0
    <3>1. LENGTH_LIMIT * p <= RAND_LIMIT * length_bias
      BY <1>1, <1>2, <1>9 DEF FillLoop, IsLoop, IsOp
    <3>2. LENGTH_LIMIT * SPACE_LIMIT * p > RAND_LIMIT * length_bias * space_bias
      BY <1>9 DEF FillLoop, IsLoop
    <3> QED BY <1>1, <1>2, <3>1, <3>2, Signs
  <2>2. n <= LENGTH_LIMIT - 1
    BY <1>1, <1>2, <2>1 DEF length_bias
  <2>3. Fits(space[1] + 1, n + 2)
    BY <1>1, <1>2, <1>4, <1>5, <2>2
  <2> DEFINE new == <<space[1] + 1>>
  <2>4. new \in Seq(Nat) /\ Len(new) = 1 /\ new[1] = space[1] + 1
    BY <1>4
  <2>5. Fill(new) /\ program_length' = n + 2
    BY <1>4, <1>9 DEF FillLoop
  <2> HIDE DEF new
  <2>6. \A i \in 1 .. Len(new) : Fits(new[i], n + 2)
    BY <2>3, <2>4
  <2> HIDE DEF Fits
  <2> QED BY <1>7, <2>4, <2>5, <2>6
<1>10. CASE FillSeq(p)
  <2> DEFINE new == <<space[1], space[1]>>
  <2>1. new \in Seq(Nat) /\ Len(new) = 2 /\ new[1] = space[1] /\ new[2] = space[1]
    BY <1>4
  <2>2. Fill(new) /\ program_length' = n + 0
    BY <1>2, <1>4, <1>10 DEF FillSeq
  <2>3. Fits(space[1], n + 0)
    BY <1>2, <1>4, <1>5
  <2> HIDE DEF new
  <2>4. \A i \in 1 .. Len(new) : Fits(new[i], n + 0)
    BY <2>1, <2>3
  <2> HIDE DEF Fits
  <2> QED BY <1>7, <2>1, <2>2, <2>4
<1> QED BY <1>8, <1>9, <1>10

\* Filling a space keeps the generator's invariant.
LEMMA GenInvStep == GenInv /\ GenStep => GenInv'
BY LengthInvStep, LevelInvStep DEF GenInv

-----------------------------------------------------------------------------

\* At the start every thread is in the array, at its own number.
LEMMA DmaInvInit == Init => DmaInv
<1> SUFFICES ASSUME Init PROVE DmaInv
  OBVIOUS
<1>1. GenInv
  BY GenInvEmpty DEF Init, GenInit
<1>2. THREAD_COUNT \in Nat \ {0} /\ active_threads \in [Threads -> Threads]
  BY DmaTestAssumption DEF Init, Threads
<1>3. TestTypeOK
  BY <1>2, DmaTestAssumption DEF Init, TestTypeOK, Threads
<1>4. ActiveInv
  BY <1>2 DEF Init, ActiveInv, Slots, Threads
<1>5. DrawnInv
  BY DEF Init, DrawnInv, Switching
<1> QED BY <1>1, <1>3, <1>4, <1>5 DEF DmaInv

\* Copying the last active thread over the one that is ready leaves the
\* others in the array, each once.
LEMMA RemoveKeepsActive ==
  ASSUME DmaInv, TestReady
  PROVE  TestTypeOK' /\ ActiveInv'
<1> DEFINE n == active_thread_count
           i == thread_index[3]
           a == active_threads
<1> USE DEF DmaInv, TestReady, Goto
<1>1. n \in Nat \ {0} /\ n - 1 \in Nat /\ n <= THREAD_COUNT /\ THREAD_COUNT \in Nat
  BY DEF TestTypeOK, DrawnInv, Switching
<1>2. i \in 0 .. n - 1 /\ thread[3] = a[i]
  BY DEF DrawnInv, Switching, Slots, Switches
<1>3. /\ a' = [a EXCEPT ![i] = a[n - 1]]
      /\ n' = n - 1
      /\ THREAD_COUNT' = THREAD_COUNT /\ work' = work
      /\ seen' = seen \cup {a[i]}
      /\ phase' = "draw"
  BY <1>2 DEF RemoveThread, dmaVars
<1>4. Threads' = Threads /\ Slots' = 0 .. n - 2
  BY <1>1, <1>3 DEF Threads, Slots
<1>5. a \in [Threads -> Threads] /\ 0 .. n - 1 \subseteq Threads
  <2>1. a \in [Threads -> Threads]
    BY DEF TestTypeOK
  <2>2. 0 .. n - 1 \subseteq Threads
    <3> HIDE DEF n
    <3> QED BY ONLY <1>1 DEF Threads
  <2> QED BY <2>1, <2>2
<1>6. TestTypeOK'
  <2>1. a' \in [Threads -> Threads]
    <3>1. n - 1 \in Threads /\ a[n - 1] \in Threads
      BY <1>1, <1>5
    <3> QED BY <1>3, <1>5, <3>1
  <2>2. n' \in 0 .. THREAD_COUNT
    BY <1>1, <1>3
  <2> QED BY <1>1, <1>3, <1>4, <2>1, <2>2 DEF TestTypeOK
<1>7. \A j \in 0 .. n - 2 : a'[j] = IF j = i THEN a[n - 1] ELSE a[j]
  BY <1>1, <1>2, <1>3, <1>5
<1>8. \A j, k \in 0 .. n - 1 : a[j] = a[k] => j = k
  BY DEF ActiveInv, Slots
<1>9. \A j, k \in 0 .. n - 2 : a'[j] = a'[k] => j = k
  BY <1>1, <1>2, <1>7, <1>8
<1>10. ASSUME NEW t \in Threads
       PROVE  t \in seen' <=> \A k \in 0 .. n - 2 : a'[k] # t
  <2>1. t \in seen <=> \A k \in 0 .. n - 1 : a[k] # t
    BY DEF ActiveInv, Slots
  <2>2. CASE t = a[i]
    BY <1>1, <1>2, <1>3, <1>7, <1>8, <2>2
  <2>3. CASE t # a[i] /\ t \in seen
    BY <1>1, <1>2, <1>3, <1>7, <2>1, <2>3
  <2>4. CASE t # a[i] /\ t \notin seen
    <3>1. PICK k \in 0 .. n - 1 : a[k] = t
      BY <2>1, <2>4
    <3>2. CASE k = n - 1
      BY <1>1, <1>2, <1>3, <1>7, <2>4, <3>1, <3>2
    <3>3. CASE k # n - 1
      BY <1>1, <1>2, <1>3, <1>7, <2>4, <3>1, <3>3
    <3> QED BY <3>2, <3>3
  <2> QED BY <2>2, <2>3, <2>4
<1>11. \A t \in seen' : t \in Threads /\ work[t] = 0
  BY <1>2, <1>3, <1>5 DEF ActiveInv, Ready
<1> QED
  BY <1>3, <1>4, <1>6, <1>9, <1>10, <1>11 DEF ActiveInv

\* Three threads drawn from the array are in it.
LEMMA PicksAreActive ==
  ASSUME DmaInv, PickThreads, UNCHANGED <<active_threads, active_thread_count>>
  PROVE  \A k \in Switches : /\ thread_index'[k] \in Slots'
                             /\ thread'[k] = active_threads'[thread_index'[k]]
BY DEF PickThreads, Slots, Switches

\* Every step keeps the invariant.
LEMMA DmaInvNext == DmaInv /\ [Next]_vars => DmaInv'
<1> SUFFICES ASSUME DmaInv, [Next]_vars PROVE DmaInv'
  OBVIOUS
<1> DEFINE TestKept == UNCHANGED <<THREAD_COUNT, active_threads, active_thread_count, seen>>
<1>1. ASSUME UNCHANGED genVars PROVE GenInv'
  BY <1>1 DEF DmaInv, GenInv, LengthInv, LevelInv, LoopsBounded, GenTypeOK, SpacesCounted, genVars
<1>2. ASSUME TestKept, UNCHANGED work, phase' # "asserts"
      PROVE  TestTypeOK' /\ ActiveInv'
  BY <1>2 DEF DmaInv, TestTypeOK, ActiveInv, Slots, Threads
<1>3. CASE Generate
  <2>1. GenInv'
    BY <1>3, GenInvStep DEF Generate, DmaInv
  <2>2. TestTypeOK' /\ ActiveInv'
    BY <1>2, <1>3 DEF Generate, testVars, dmaVars
  <2>3. DrawnInv'
    BY <1>3 DEF Generate, DrawnInv, Switching
  <2> QED BY <2>1, <2>2, <2>3 DEF DmaInv
<1>4. CASE ProgramDone
  <2>1. GenInv'
    BY <1>4, GenAssumption DEF ProgramDone, GenInv, LengthInv, LevelInv, LoopsBounded, GenTypeOK, SpacesCounted
  <2>2. TestTypeOK' /\ ActiveInv'
    BY <1>2, <1>4 DEF ProgramDone, testVars, dmaVars
  <2>3. DrawnInv'
    BY <1>4 DEF ProgramDone, DrawnInv, Switching
  <2> QED BY <2>1, <2>2, <2>3 DEF DmaInv
<1>5. CASE Setup
  <2>1. TestTypeOK' /\ ActiveInv'
    BY <1>2, <1>5 DEF Setup, Goto, dmaVars
  <2>2. DrawnInv'
    BY <1>5, PicksAreActive DEF Setup, Goto, DrawnInv, Switching
  <2> QED BY <1>1, <1>5, <2>1, <2>2 DEF Setup, DmaInv
<1>6. CASE LoopOn
  <2>1. TestTypeOK' /\ ActiveInv'
    BY <1>2, <1>6 DEF LoopOn, Goto, testVars, dmaVars
  <2>2. DrawnInv'
    BY <1>6 DEF LoopOn, Goto, DmaInv, DrawnInv, Switching, Slots, testVars
  <2> QED BY <1>1, <1>6, <2>1, <2>2 DEF LoopOn, DmaInv
<1>7. CASE LoopExit
  <2>1. TestTypeOK' /\ ActiveInv'
    BY <1>7 DEF LoopExit, Goto, DmaInv, TestTypeOK, ActiveInv, Slots, Threads, testVars, dmaVars
  <2>2. DrawnInv'
    BY <1>7 DEF LoopExit, Goto, DrawnInv, Switching
  <2> QED BY <1>1, <1>7, <2>1, <2>2 DEF LoopExit, DmaInv
<1>8. CASE Switch
  <2>1. TestTypeOK' /\ ActiveInv'
    BY <1>2, <1>8 DEF Switch, SwitchTo, Goto, testVars
  <2>2. DrawnInv'
    BY <1>8 DEF Switch, SwitchTo, Goto, DmaInv, DrawnInv, Switching, Slots, testVars
  <2> QED BY <1>1, <1>8, <2>1, <2>2 DEF Switch, SwitchTo, DmaInv
<1>9. CASE TestReady
  <2>1. TestTypeOK' /\ ActiveInv'
    BY <1>9, RemoveKeepsActive
  <2>2. DrawnInv'
    BY <1>9 DEF TestReady, Goto, DrawnInv, Switching
  <2> QED BY <1>1, <1>9, <2>1, <2>2 DEF TestReady, DmaInv
<1>10. CASE TestNotReady
  <2>1. TestTypeOK' /\ ActiveInv'
    BY <1>2, <1>10 DEF TestNotReady, Goto, testVars, dmaVars
  <2>2. DrawnInv'
    BY <1>10 DEF TestNotReady, Goto, DrawnInv, Switching
  <2> QED BY <1>1, <1>10, <2>1, <2>2 DEF TestNotReady, DmaInv
<1>11. CASE DrawNext
  <2>1. TestTypeOK' /\ ActiveInv'
    BY <1>2, <1>11 DEF DrawNext, Goto, dmaVars
  <2>2. DrawnInv'
    BY <1>11, PicksAreActive DEF DrawNext, Goto, DrawnInv, Switching
  <2> QED BY <1>1, <1>11, <2>1, <2>2 DEF DrawNext, DmaInv
<1>12. CASE DrawByZero
  <2>1. TestTypeOK' /\ ActiveInv'
    BY <1>2, <1>12 DEF DrawByZero, Goto, dmaVars
  <2>2. DrawnInv'
    BY <1>12 DEF DrawByZero, Goto, DrawnInv, Switching
  <2> QED BY <1>1, <1>12, <2>1, <2>2 DEF DrawByZero, DmaInv
<1>13. ASSUME NEW t \in 0 .. MaxThreads - 1, DmaStep(t) PROVE DmaInv'
  <2>1. TestTypeOK' /\ ActiveInv'
    <3>1. TestKept /\ UNCHANGED phase /\ Threads' = Threads /\ Slots' = Slots
      BY <1>13 DEF DmaStep, testVars, Threads, Slots
    <3>2. work \in [Threads -> Nat] /\ work[t] > 0 /\ work' = [work EXCEPT ![t] = work[t] - 1]
      BY <1>13 DEF DmaStep, DmaInv, TestTypeOK
    <3>3. work' \in [Threads -> Nat]
      <4>1. CASE t \in Threads
        <5>1. work[t] - 1 \in Nat
          BY <3>2, <4>1
        <5> QED BY <3>2, <4>1, <5>1
      <4>2. CASE t \notin Threads
        BY <3>2, <4>2
      <4> QED BY <4>1, <4>2
    <3>4. \A u \in Threads : work[u] = 0 => work'[u] = 0
      BY <3>2
    <3>5. TestTypeOK'
      BY <3>1, <3>3 DEF DmaInv, TestTypeOK
    <3>6. ActiveInv'
      BY <3>1, <3>4 DEF DmaInv, ActiveInv
    <3> QED BY <3>5, <3>6
  <2>2. DrawnInv'
    BY <1>13 DEF DmaStep, DmaInv, DrawnInv, Slots, testVars
  <2> QED BY <1>1, <1>13, <2>1, <2>2 DEF DmaStep, DmaInv
<1>14. CASE UNCHANGED vars
  <2>1. TestTypeOK' /\ ActiveInv' /\ DrawnInv'
    BY <1>14 DEF vars, testVars, dmaVars, DmaInv, TestTypeOK, ActiveInv, DrawnInv, Slots, Threads
  <2> QED BY <1>1, <1>14, <2>1 DEF vars, DmaInv
<1> QED
  BY <1>3, <1>4, <1>5, <1>6, <1>7, <1>8, <1>9, <1>10, <1>11, <1>12, <1>13, <1>14
  DEF Next, Test

\* As many threads are active as active_thread_count says.
LEMMA ActiveCounted ==
  ASSUME DmaInv
  PROVE  Cardinality(Active) = active_thread_count
<1>1. active_thread_count \in Nat /\ Slots \subseteq Threads
  BY DEF DmaInv, TestTypeOK, Slots, Threads
<1> DEFINE f == [k \in Slots |-> active_threads[k]]
<1>2. f \in [Slots -> Active]
  BY DEF Active, Slots
<1>3. \A j, k \in Slots : f[j] = f[k] => j = k
  BY DEF DmaInv, ActiveInv
<1>4. \A t \in Active : \E k \in Slots : f[k] = t
  BY DEF Active, Slots
<1>5. ExistsBijection(Slots, Active)
  <2>1. f \in Bijection(Slots, Active)
    BY <1>2, <1>3, <1>4, Fun_IsBij
  <2> QED BY <2>1 DEF ExistsBijection
<1>6. IsFiniteSet(Slots) /\ Cardinality(Slots) = active_thread_count
  BY <1>1, FS_Interval DEF Slots
<1> QED BY <1>5, <1>6, FS_Bijection

-----------------------------------------------------------------------------

\* The invariant holds throughout generation and test.
THEOREM DmaInvariance == Spec => []DmaInv
BY DmaInvInit, DmaInvNext, PTL DEF Spec

\* The generator's count of spaces is the length of its list of them
\* (random_dma_program_structure).
THEOREM GeneratorCounts == Spec => []SpacesCounted
<1>1. DmaInv => SpacesCounted
  BY DEF DmaInv, GenInv, LengthInv
<1> QED BY <1>1, DmaInvariance, PTL

\* A finished program is longer than LENGTH_LIMIT by no more than SPACE_LIMIT,
\* one, and the number of times myrand() was 0, whatever the limits are.
THEOREM GeneratorBounded == Spec => []ProgramFits
<1>1. DmaInv => ProgramFits
  BY DEF DmaInv, GenInv, LengthInv, ProgramFits, Generated, GenTypeOK
<1> QED BY <1>1, DmaInvariance, PTL

\* Loops nest no deeper than half of LENGTH_LIMIT, rounded up, whatever the limits
\* are: nothing else bounds them (random_dma_program_structure).
THEOREM GeneratorNesting == Spec => []LoopsBounded
<1>1. DmaInv => LoopsBounded
  BY DEF DmaInv, GenInv, LevelInv
<1> QED BY <1>1, DmaInvariance, PTL

\* The engine is only switched to threads not yet seen to be ready, which are
\* the ones the array lists (multithread_test_template.c).
THEOREM TestSwitches == Spec => []SwitchesToUnseen
<1>1. DmaInv => SwitchesToUnseen
  <2> SUFFICES ASSUME DmaInv PROVE SwitchesToUnseen
    OBVIOUS
  <2>1. Active = Threads \ seen
    <3>1. \A k \in Slots : k \in Threads /\ active_threads[k] \in Threads
      BY DEF DmaInv, TestTypeOK, Slots, Threads
    <3>2. \A t \in Threads : t \in seen <=> \A k \in Slots : active_threads[k] # t
      BY DEF DmaInv, ActiveInv
    <3>3. \A t : t \in Active <=> \E k \in Slots : t = active_threads[k]
      BY DEF Active, Slots
    <3>4. ASSUME NEW t \in Active PROVE t \in Threads \ seen
      <4>1. PICK k \in Slots : t = active_threads[k]
        BY <3>3, Zenon
      <4>2. t \in Threads
        BY <3>1, <4>1, Zenon
      <4> QED BY <3>2, <4>1, <4>2, Zenon
    <3>5. ASSUME NEW t \in Threads \ seen PROVE t \in Active
      <4>1. ~ \A k \in Slots : active_threads[k] # t
        BY <3>2, Zenon
      <4> QED BY <3>3, <4>1, Zenon
    <3> QED BY <3>4, <3>5, Zenon
  <2>2. phase \in {"switch1", "switch2", "switch3"} => \A k \in Switches : thread[k] \in Active
    BY DEF DmaInv, DrawnInv, Switching, Active, Slots
  <2> QED BY <2>1, <2>2, ActiveCounted DEF SwitchesToUnseen
<1> QED BY <1>1, DmaInvariance, PTL

\* The assertions run only when every program has run to its end.
THEOREM TestAssertsLast == Spec => []AssertsSeeResults
<1>1. DmaInv => AssertsSeeResults
  BY DEF DmaInv, TestTypeOK, ActiveInv, AssertsSeeResults, Slots
<1> QED BY <1>1, DmaInvariance, PTL
=============================================================================
