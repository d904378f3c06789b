------------------------------ MODULE CopyTests ------------------------------
(***************************************************************************)
(* The copying tests of cheri-c-tests (clang_hybrid_memcpy, _memmove and   *)
(* _bcopy, libc_memcpy, libc_memmove), run on CopyRoutine, and the routine *)
(* on its own for every call on a small memory.  CopyRoutine is what the   *)
(* three hybrid tests test; for the two of libc it stands in for the       *)
(* routine of the C library, which is not in the repository.               *)
(*                                                                         *)
(* A test is a script: a sequence of calls and of the test's own steps and *)
(* checks on two structures t1, t2 of the form                             *)
(*     struct Test { char pad0[32]; void *y; char pad1[32]; }              *)
(* A byte of memory is a number, the i-th byte of a capability to address  *)
(* x the pair CapByte(x, i), and Junk if it was never written.             *)
(***************************************************************************)
EXTENDS CopyRoutine, Sequences

CONSTANTS
  WordSize, CapSizes,  \* wsize and the values of psize the tests are built with
  CallWord, CallCaps,  \* the same, scaled down, for single calls
  MaxCaps,             \* bound: capabilities of memory a single call works in
  Tests                \* the tests that are run

ASSUME CopyTestsAssumption ==
  /\ {WordSize, CallWord, MaxCaps} \subseteq Nat \ {0}
  /\ CapSizes \subseteq Nat \ {0, 1} /\ CallCaps \subseteq Nat \ {0}
  /\ \A c \in CapSizes : c % WordSize = 0 /\ 32 % c = 0  \* no gap between pad0 and y
  /\ \A c \in CallCaps : c % CallWord = 0
  /\ Tests \subseteq {"clang_hybrid_memcpy", "clang_hybrid_memmove", "clang_hybrid_bcopy",
                      "libc_memcpy", "libc_memmove"}

VARIABLES
  test,     \* the test that runs, or "none" for a single call
  sizes,    \* the build
  base,     \* the addresses of t1 and t2 on the stack
  script,   \* the steps the test has still to take
  failed    \* an assertion of the test failed

vars == <<copyVars, test, sizes, base, script, failed>>

Pad == 32                         \* char pad0[32], pad1[32]
Sizeof == 2 * Pad + sizes[2]      \* sizeof(struct Test)
Y == Pad                          \* offset of y
Pad1 == Pad + sizes[2]            \* offset of pad1
Invalid == 165                    \* 0xa5
Junk == -1
CapByte(x, i) == 1000 * (x + 1) + i

-----------------------------------------------------------------------------
\* The steps of a script.  Structures are 1 (t1) and 2 (t2).
Copy(fn, to, d, from, s, n) ==
  <<[op |-> "copy", fn |-> fn, to |-> to, d |-> d, from |-> from, s |-> s, n |-> n]>>
Check(t, start, end) == <<[op |-> "check", t |-> t, start |-> start, end |-> end]>>
Invalidate(t) == <<[op |-> "invalidate", t |-> t]>>
Shifted(t) == <<[op |-> "shifted", t |-> t]>>
SetY(t, x) == <<[op |-> "sety", t |-> t, x |-> x]>>
FillStruct(t) == <<[op |-> "fill", t |-> t]>>

\* The copies every test makes of one structure into the other: all of it,
\* with an unaligned start, an unaligned end, both, and between different
\* alignments.
Aligned(fn, to, from) == Copy(fn, to, 0, from, 0, Sizeof) \o Check(to, 0, Pad)
Ends(fn, to, from) ==
  Copy(fn, to, 3, from, 3, Sizeof - 3) \o Check(to, 3, Pad) \o
  Copy(fn, to, 0, from, 0, Sizeof - 3) \o Check(to, 0, Pad - 3) \o
  Copy(fn, to, 3, from, 3, Sizeof - 6) \o Check(to, 3, Pad - 3) \o Invalidate(to)
Differs(fn, to, from) == Copy(fn, to, 0, from, 1, Sizeof - 1) \o Shifted(to)
Round(fn, to, from) ==
  Aligned(fn, to, from) \o Invalidate(to) \o Ends(fn, to, from) \o Differs(fn, to, from)

Setup == Invalidate(2) \o FillStruct(1) \o SetY(1, 2)

clang_hybrid_memcpy ==
  Setup \o Invalidate(2) \o Round("memcpy_c", 2, 1) \o
  Invalidate(2) \o Round("memcpy", 2, 1) \o
  Invalidate(2) \o Copy("memcpy_c", 2, 3, 1, 3, Sizeof - 6) \o
  Invalidate(2) \o Copy("memcpy_c", 2, 0, 1, 0, Sizeof) \o Check(2, 0, Pad)

\* Make t2 a copy of t1 that points to t1, and copy the other way.
TurnAround(fn) == Copy(fn, 2, 0, 1, 0, Sizeof) \o SetY(2, 1) \o Invalidate(1)

clang_hybrid_bcopy ==
  Setup \o Round("bcopy", 2, 1) \o TurnAround("bcopy") \o Round("bcopy", 1, 2)

clang_hybrid_memmove ==
  Setup \o Round("memmove", 2, 1) \o TurnAround("memmove") \o
  Aligned("memmove", 1, 2) \o Invalidate(1) \o Ends("memmove", 1, 2) \o
  Copy("memmove", 1, 12, 2, 12, Sizeof - 16) \o Check(1, 12, 12) \o
  Differs("memmove", 1, 2)

libc_memcpy ==
  Setup \o Invalidate(2) \o Round("memcpy", 2, 1) \o
  Invalidate(2) \o Round("memcpy", 2, 1) \o
  Invalidate(2) \o Copy("memcpy", 2, 3, 1, 3, Sizeof - 6) \o Check(2, 3, Pad - 3)

\* buffer is an array of pointers to the ten digits; structure 1 is the
\* buffer, and the digits lie behind everything.
libc_memmove ==
  LET c == sizes[2] IN
  <<[op |-> "digits"]>> \o Copy("memmove", 1, 0, 1, 2 * c, 8 * c) \o <<[op |-> "checkdigits"]>>

Script ==
  CASE test = "clang_hybrid_memcpy"  -> clang_hybrid_memcpy
    [] test = "clang_hybrid_memmove" -> clang_hybrid_memmove
    [] test = "clang_hybrid_bcopy"   -> clang_hybrid_bcopy
    [] test = "libc_memcpy"          -> libc_memcpy
    [] test = "libc_memmove"         -> libc_memmove

-----------------------------------------------------------------------------
TestInit ==
  /\ test \in Tests /\ \E c \in CapSizes : sizes = <<WordSize, c>>
  /\ base \in IF test = "libc_memmove" THEN {<<0>>} ELSE {<<0, Sizeof>>, <<Sizeof, 0>>}
  /\ mem = [a \in 0 .. (IF test = "libc_memmove" THEN 10 * sizes[2] ELSE 2 * Sizeof) - 1 |-> Junk]
  /\ tag \in {{}, {a \in DOMAIN mem : a % sizes[2] = 0}}
  /\ script = Script

\* A single call, on memory whose bytes are known by their address and in
\* which every granule holds a capability.  memcpy may not be asked to copy
\* between ranges that overlap.
Disjoint(d, s, n) == d + n <= s \/ s + n <= d
CallInit ==
  \E c \in CallCaps, fn \in {"memcpy", "memcpy_c", "memmove", "bcopy"} :
  LET top == MaxCaps * c + 2 * CallWord IN
  \E d, s, n \in 0 .. top - 1 :
    /\ test = "none" /\ sizes = <<CallWord, c>> /\ base = <<d, s>>
    /\ fn \in {"memcpy", "memcpy_c"} => Disjoint(d, s, n)
    /\ mem = [a \in 0 .. 2 * top - 1 |-> a]
    /\ tag = IF c > CallWord THEN {a \in DOMAIN mem : a % c = 0} ELSE {}
    /\ script = Copy(fn, 1, 0, 2, 0, n)

Init ==
  /\ TestInit \/ CallInit
  /\ failed = FALSE
  /\ call = [fn |-> "none", dst0 |-> 0, src0 |-> 0, length |-> 0, wsize |-> 1, psize |-> 1]
  /\ pc = "idle" /\ dst = 0 /\ src = 0 /\ len = 0 /\ loop = NoLoop /\ result = NoResult
  /\ old = [mem |-> mem, tag |-> tag]

\* The step the test is at; it takes it when no call is under way.
At(op) == pc = "idle" /\ script # <<>> /\ Head(script).op = op /\ ~failed
Step == Head(script)
Taken == script' = Tail(script) /\ UNCHANGED <<test, sizes, base>>
Quiet == UNCHANGED <<call, pc, dst, src, len, loop, result, old>>

Call ==
  /\ At("copy")
  /\ Enter([fn |-> Step.fn, dst0 |-> base[Step.to] + Step.d, src0 |-> base[Step.from] + Step.s,
            length |-> Step.n, wsize |-> sizes[1], psize |-> sizes[2]])
  /\ Taken /\ UNCHANGED failed

\* Back in the test.  The memcpy tests check the pointer returned.
Returned ==
  /\ pc = "done"
  /\ pc' = "idle"
  /\ failed' = (test \in {"clang_hybrid_memcpy", "libc_memcpy"} /\ result # call.dst0)
  /\ UNCHANGED <<mem, tag, call, dst, src, len, loop, result, old, test, sizes, base, script>>

\* The loop of invalidate stores to *x in every turn and never moves x.
InvalidateStruct ==
  /\ At("invalidate")
  /\ mem' = [mem EXCEPT ![base[Step.t]] = Invalid]
  /\ tag' = tag \ {base[Step.t]}
  /\ Taken /\ Quiet /\ UNCHANGED failed

\* pad0[i] = pad1[i] = i
Fill ==
  /\ At("fill")
  /\ LET o == base[Step.t] IN
     /\ mem' = [a \in DOMAIN mem |-> IF a - o \in 0 .. Pad - 1 THEN a - o
                ELSE IF a - o \in Pad1 .. Sizeof - 1 THEN a - o - Pad1 ELSE mem[a]]
     /\ tag' = tag \ {o + i : i \in (0 .. Pad - 1) \cup (Pad1 .. Sizeof - 1)}
  /\ Taken /\ Quiet /\ UNCHANGED failed

\* Store a capability to address x at address a.
StoreCap(a, x) ==
  /\ mem' = [b \in DOMAIN mem |-> IF b - a \in 0 .. sizes[2] - 1 THEN CapByte(x, b - a) ELSE mem[b]]
  /\ tag' = tag \cup {a}
HoldsCap(a, x) == a \in tag /\ \A i \in 0 .. sizes[2] - 1 : mem[a + i] = CapByte(x, i)

\* ty = TO_CAP(&tx)
AssignY ==
  /\ At("sety")
  /\ StoreCap(base[Step.t] + Y, base[Step.x])
  /\ Taken /\ Quiet /\ UNCHANGED failed

\* The function check: what a copy from start in pad0 to end in pad1 holds.
CheckStruct ==
  /\ At("check")
  /\ LET o == base[Step.t] IN
     failed' = ~( /\ \A i \in Step.start .. Pad - 1 : mem[o + i] = i
                  /\ HoldsCap(o + Y, o)
                  /\ \A i \in 0 .. Step.end - 1 : mem[o + Pad1 + i] = i )
  /\ Taken /\ Quiet /\ UNCHANGED <<mem, tag>>

\* After the copy from pad0[1]: no capability, and the data moved by one.
CheckShifted ==
  /\ At("shifted")
  /\ LET o == base[Step.t] IN
     failed' = ~( /\ o + Y \notin tag
                  /\ \A i \in 0 .. Pad - 2 : mem[o + i] = i + 1 /\ mem[o + Pad1 + i] = i + 1 )
  /\ Taken /\ Quiet /\ UNCHANGED <<mem, tag>>

\* libc_memmove: buffer[i] = &pointees[i], and *buffer[i] == '0' + i + 2.
FillDigits ==
  /\ At("digits")
  /\ mem' = [a \in DOMAIN mem |-> CapByte(a \div sizes[2], a % sizes[2])]
  /\ tag' = {a \in DOMAIN mem : a % sizes[2] = 0}
  /\ Taken /\ Quiet /\ UNCHANGED failed
CheckDigits ==
  /\ At("checkdigits")
  /\ failed' = ~ \A i \in 0 .. 7 : HoldsCap(i * sizes[2], i + 2)
  /\ Taken /\ Quiet /\ UNCHANGED <<mem, tag>>

Routine == CopyNext /\ UNCHANGED <<test, sizes, base, script, failed>>

Next ==
  \/ Routine \/ Call \/ Returned
  \/ InvalidateStruct \/ Fill \/ AssignY \/ CheckStruct \/ CheckShifted
  \/ FillDigits \/ CheckDigits

Spec == Init /\ [][Next]_vars

\* A test and the routine run alone; nothing keeps them from going on.
FairSpec == Spec /\ WF_vars(Next)

-----------------------------------------------------------------------------
\* No call of the routine, by a test or on its own, touches a byte outside
\* the two ranges it was given or makes an access that is not aligned to its
\* size: the phases hand each other pointers that fit the next unit.
NeverTraps == pc # "trap"

\* No assertion of a copying test fails on this routine, whatever was on the
\* stack and in whichever order t1 and t2 lie there.
AssertsHold == ~failed

\* memcpy.c implements the abstract copy: only the destination changes, and
\* in the end it holds what the source held, overlap or not, with the tags
\* of the capabilities copied whole between equal alignments.
AbstractCall ==
  INSTANCE AbstractCopy WITH busy <- pc \notin {"idle", "done"}
ImplementsAbstractCopy == AbstractCall!Spec

\* Every call returns and every test comes to its end.
ScriptEnds == <>(script = <<>> /\ pc = "idle")

=============================================================================
