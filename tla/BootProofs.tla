----------------------------- MODULE BootProofs -----------------------------
(***************************************************************************)
(* Proofs about start-up and shut-down for every number of cores, threads  *)
(* and traps.  The inductive invariant follows thread 0 through start:     *)
(* what it has set up at each stage (Thread0Inv); that the others are in   *)
(* the barrier until thread 0 has entered it (OthersInv); and what the     *)
(* test and crt_init_globals have left in memory (MemoryInv, GlobalsInv).   *)
(***************************************************************************)
EXTENDS Boot, TLAPS

\* The stages of thread 0, in their order, up to the call of test.
ToBev == {"reset", "bev_clear"}
ToStub == ToBev \cup {"copy_stub"}
ToBranches == ToStub \cup {"branches"}
ToCount == ToBranches \cup {"count"}
ToBzero == ToCount \cup {"bzero"}
ToTest == ToBzero \cup {"all_threads", "globals"}

Stages == ToTest \cup {"spin", "barrier", "test", "go", "lost", "finish", "dumped", "end"}

BootTypeOK ==
  /\ stage \in [HwThreads -> Stages]
  /\ entered \in [HwThreads -> {0, 1}] /\ left \in [HwThreads -> {0, 1}]
  /\ vectors \subseteq Vectors
  /\ bev \in [HwThreads -> BOOLEAN]
  /\ userLocal \in [HwThreads -> Int]
  /\ bss \in [0 .. MaxCoreThreadId -> Int]
  /\ bssNext \in 0 .. MaxCoreThreadId + 1
  /\ global \in [Globals -> {"unset", "init", "stored", "undone"}]
  /\ reloc \in [HwThreads -> 0 .. NumGlobals]
  /\ traps \in [HwThreads -> Nat]
  /\ wrote \subseteq HwThreads
  /\ dump \in [HwThreads -> Int]
  /\ halted \in BOOLEAN

Thread0Inv ==
  LET s == stage[Thread0] IN
  /\ s \in ToTest \cup {"test", "go", "finish", "dumped", "end"}
  /\ s \notin ToBev => ~bev[Thread0]
  /\ s \notin ToStub => "common" \in vectors
  /\ s \notin ToBranches => vectors = Vectors
  /\ s \in ToCount => traps[Thread0] = 0
  /\ s \notin ToCount => userLocal[Thread0] = traps[Thread0]
  /\ s \notin ToBzero => bssNext = MaxCoreThreadId + 1
  /\ s \in ToTest => entered[Thread0] = 0
  /\ s \in {"dumped", "end"} => dump[Thread0] = traps[Thread0]
  /\ halted => s = "end"

OthersInv ==
  \A h \in Others :
    /\ stage[h] \in {"reset", "spin", "barrier", "all_threads", "globals", "test",
                     "lost", "finish", "dumped", "end"}
    /\ stage[h] \notin {"reset", "spin", "barrier"} => entered[Thread0] = 1

MemoryInv ==
  /\ \A h \in wrote : bss[CoreThreadId(h)] = 1
  /\ stage[Thread0] \in ToTest => wrote = {}

GlobalsInv ==
  /\ stage[Thread0] \in ToTest => \A g \in Globals : global[g] \in {"unset", "init"}
  /\ \A g \in Globals : global[g] = "undone" => entered[Thread0] = 1
  /\ \A h \in HwThreads : \A g \in 1 .. reloc[h] : global[g] # "unset"
  /\ \A h \in HwThreads : Purecap /\ stage[h] \in {"test", "go"} => reloc[h] = NumGlobals

BootInv == BootTypeOK /\ Thread0Inv /\ OthersInv /\ MemoryInv /\ GlobalsInv

-----------------------------------------------------------------------------

\* get_corethread_id numbers the hardware threads from 0 to the maximum it
\* returns.
LEMMA CoreThreadIdRange ==
  ASSUME NEW h \in HwThreads
  PROVE  /\ CoreThreadId(h) \in 0 .. MaxCoreThreadId
         /\ MaxCoreThreadId \in 0 .. max_thread_count - 1
<1> DEFINE c == h[1]
           t == h[2]
           n == NumThreads
<1>1. /\ c \in 0 .. NumCores - 1
      /\ t \in 0 .. n - 1
      /\ n \in Nat \ {0}
      /\ NumCores \in Nat \ {0}
  BY TopologyAssumption DEF HwThreads
<1>2. c * n \in Nat /\ NumCores * n \in Nat
  BY <1>1
<1>3. (NumCores - 1 - c) * n >= 0
  <2>1. NumCores - 1 - c \in Nat
    BY <1>1
  <2> QED BY <2>1, <1>1
<1>4. (NumCores - 1 - c) * n = NumCores * n - n - c * n
  BY <1>1
<1>5. NumCores * n >= 1
  BY <1>1, <1>2, <1>3, <1>4
<1> HIDE DEF c, t
<1> QED
  BY <1>1, <1>2, <1>3, <1>4, <1>5, TopologyAssumption
  DEF CoreThreadId, MaxCoreThreadId, max_thread_count, c, t

\* Thread 0 of core 0 is the thread that get_corethread_id numbers 0, and no
\* other thread is: start makes exactly one thread set up the others.
LEMMA Thread0Number ==
  /\ Thread0 \in HwThreads
  /\ CoreThreadId(Thread0) = 0
  /\ \A h \in HwThreads : CoreThreadId(h) = 0 => h = Thread0
<1>1. NumCores \in Nat \ {0} /\ NumThreads \in Nat \ {0}
  BY TopologyAssumption
<1>2. Thread0 \in HwThreads
  BY <1>1 DEF Thread0, HwThreads
<1>3. CoreThreadId(Thread0) = 0
  BY <1>1 DEF Thread0, CoreThreadId
<1>4. ASSUME NEW h \in HwThreads, CoreThreadId(h) = 0 PROVE h = Thread0
  <2>1. /\ h[1] \in Nat /\ h[2] \in Nat /\ h = <<h[1], h[2]>>
        /\ h[1] * NumThreads + h[2] = 0
    BY <1>1, <1>4 DEF HwThreads, CoreThreadId
  <2>2. h[1] # 0 => h[1] * NumThreads >= 1
    BY <1>1, <2>1
  <2>3. h[1] = 0 /\ h[2] = 0
    BY <1>1, <2>1, <2>2
  <2> QED BY <2>1, <2>3 DEF Thread0
<1> QED BY <1>2, <1>3, <1>4

\* Reset establishes the invariant.
LEMMA BootInvInit == Init => BootInv
<1> SUFFICES ASSUME Init PROVE BootInv
  OBVIOUS
<1>1. MaxCoreThreadId \in Nat
  BY Thread0Number, CoreThreadIdRange DEF max_thread_count
<1>2. BootTypeOK
  <2>1. stage \in [HwThreads -> Stages] /\ bev \in [HwThreads -> BOOLEAN]
    BY DEF Init, Stages, ToBev, ToStub, ToBranches, ToCount, ToBzero, ToTest
  <2>2. entered \in [HwThreads -> {0, 1}] /\ left \in [HwThreads -> {0, 1}]
    BY DEF Init, ResetBarrier!Init
  <2>3. /\ userLocal \in [HwThreads -> Int] /\ dump \in [HwThreads -> Int]
        /\ traps \in [HwThreads -> Nat]
        /\ bss \in [0 .. MaxCoreThreadId -> Int]
    BY DEF Init, Junk, NoDump
  <2>4. /\ vectors \subseteq Vectors /\ wrote \subseteq HwThreads
        /\ bssNext \in 0 .. MaxCoreThreadId + 1
    BY <1>1 DEF Init
  <2>5. halted \in BOOLEAN
    BY DEF Init
  <2>6. global \in [Globals -> {"unset"}] /\ reloc \in [HwThreads -> 0 .. NumGlobals]
    BY BootAssumption DEF Init
  <2> QED BY <2>1, <2>2, <2>3, <2>4, <2>5, <2>6 DEF BootTypeOK
<1>3. Thread0Inv
  BY Thread0Number DEF Init, Thread0Inv, ResetBarrier!Init, ToBev, ToStub, ToBranches,
     ToCount, ToBzero, ToTest
<1>4. OthersInv
  BY DEF Init, OthersInv, Others
<1>5. MemoryInv
  BY DEF Init, MemoryInv
<1>6. GlobalsInv
  BY Thread0Number DEF Init, GlobalsInv
<1> QED BY <1>2, <1>3, <1>4, <1>5, <1>6 DEF BootInv

\* Every step of every thread keeps the invariant.
LEMMA BootInvNext == BootInv /\ [Next]_vars => BootInv'
<1> SUFFICES ASSUME BootInv, [Next]_vars PROVE BootInv'
  OBVIOUS
<1> USE Thread0Number
<1> USE DEF BootInv, Others, Goto, Stages, ToBev, ToStub, ToBranches, ToCount, ToBzero, ToTest
<1>1. ASSUME NEW h \in HwThreads, SpinForever(h) PROVE BootInv'
  <2> USE <1>1 DEF SpinForever, threadVars, memVars, globalVars, barrierVars, Thread0
  <2>1. BootTypeOK'
    BY DEF BootTypeOK
  <2>2. Thread0Inv'
    BY DEF BootTypeOK, Thread0Inv, OthersInv
  <2>3. OthersInv'
    BY DEF BootTypeOK, Thread0Inv, OthersInv
  <2>4. MemoryInv'
    BY DEF BootTypeOK, Thread0Inv, OthersInv, MemoryInv
  <2>5. GlobalsInv'
    BY DEF BootTypeOK, Thread0Inv, OthersInv, GlobalsInv
  <2> QED BY <2>1, <2>2, <2>3, <2>4, <2>5
<1>2. ASSUME NEW h \in HwThreads, EnterResetBarrier(h) PROVE BootInv'
  <2> USE <1>2 DEF EnterResetBarrier, threadVars, memVars, globalVars, barrierVars, ResetBarrier!Enter
  <2>0. entered[h] = 0
    BY DEF BootTypeOK
  <2>1. BootTypeOK'
    BY <2>0 DEF BootTypeOK
  <2>2. Thread0Inv'
    BY DEF BootTypeOK, Thread0Inv, OthersInv
  <2>3. OthersInv'
    BY DEF BootTypeOK, Thread0Inv, OthersInv
  <2>4. MemoryInv'
    BY DEF BootTypeOK, Thread0Inv, OthersInv, MemoryInv
  <2>5. GlobalsInv'
    BY DEF BootTypeOK, Thread0Inv, OthersInv, GlobalsInv
  <2> QED BY <2>1, <2>2, <2>3, <2>4, <2>5
<1>3. ASSUME NEW h \in HwThreads, LeaveResetBarrier(h) PROVE BootInv'
  <2> USE <1>3 DEF LeaveResetBarrier, threadVars, memVars, globalVars, barrierVars, ResetBarrier!Leave
  <2>1. BootTypeOK'
    BY DEF BootTypeOK
  <2>2. Thread0Inv'
    BY DEF BootTypeOK, Thread0Inv, OthersInv
  <2>0. entered[Thread0] = 1
    <3>1. entered[h] \in {0, 1} /\ left[h] \in {0, 1} /\ entered[Thread0] \in {0, 1}
      BY DEF BootTypeOK
    <3>2. left[h] < entered[h] /\ entered[Thread0] >= entered[h]
      OBVIOUS
    <3> QED BY <3>1, <3>2
  <2>3. OthersInv'
    BY <2>0 DEF BootTypeOK, Thread0Inv, OthersInv
  <2>4. MemoryInv'
    BY DEF BootTypeOK, Thread0Inv, OthersInv, MemoryInv
  <2>5. GlobalsInv'
    BY DEF BootTypeOK, Thread0Inv, OthersInv, GlobalsInv
  <2> QED BY <2>1, <2>2, <2>3, <2>4, <2>5
<1>4. ASSUME NEW h \in HwThreads, StartThread0(h) PROVE BootInv'
  <2> USE <1>4 DEF StartThread0, threadVars, memVars, globalVars, barrierVars
  <2>1. BootTypeOK'
    BY DEF BootTypeOK
  <2>2. Thread0Inv'
    BY DEF BootTypeOK, Thread0Inv, OthersInv
  <2>3. OthersInv'
    BY DEF BootTypeOK, Thread0Inv, OthersInv
  <2>4. MemoryInv'
    BY DEF BootTypeOK, Thread0Inv, OthersInv, MemoryInv
  <2>5. GlobalsInv'
    BY DEF BootTypeOK, Thread0Inv, OthersInv, GlobalsInv
  <2> QED BY <2>1, <2>2, <2>3, <2>4, <2>5
<1>5. ASSUME NEW h \in HwThreads, BevClear(h) PROVE BootInv'
  <2> USE <1>5 DEF BevClear, threadVars, memVars, globalVars, barrierVars
  <2>1. BootTypeOK'
    BY DEF BootTypeOK
  <2>2. Thread0Inv'
    BY DEF BootTypeOK, Thread0Inv, OthersInv
  <2>3. OthersInv'
    BY DEF BootTypeOK, Thread0Inv, OthersInv
  <2>4. MemoryInv'
    BY DEF BootTypeOK, Thread0Inv, OthersInv, MemoryInv
  <2>5. GlobalsInv'
    BY DEF BootTypeOK, Thread0Inv, OthersInv, GlobalsInv
  <2> QED BY <2>1, <2>2, <2>3, <2>4, <2>5
<1>6. ASSUME NEW h \in HwThreads, CopyStub(h) PROVE BootInv'
  <2> USE <1>6 DEF CopyStub, threadVars, memVars, globalVars, barrierVars, Vectors
  <2>1. BootTypeOK'
    BY DEF BootTypeOK
  <2>2. Thread0Inv'
    BY DEF BootTypeOK, Thread0Inv, OthersInv
  <2>3. OthersInv'
    BY DEF BootTypeOK, Thread0Inv, OthersInv
  <2>4. MemoryInv'
    BY DEF BootTypeOK, Thread0Inv, OthersInv, MemoryInv
  <2>5. GlobalsInv'
    BY DEF BootTypeOK, Thread0Inv, OthersInv, GlobalsInv
  <2> QED BY <2>1, <2>2, <2>3, <2>4, <2>5
<1>7. ASSUME NEW h \in HwThreads, StoreBranches(h) PROVE BootInv'
  <2> USE <1>7 DEF StoreBranches, threadVars, memVars, globalVars, barrierVars, Vectors
  <2>1. BootTypeOK'
    BY DEF BootTypeOK
  <2>2. Thread0Inv'
    <3>1. h = Thread0 /\ stage[Thread0] = "branches" /\ stage'[Thread0] = "count"
      BY DEF BootTypeOK, OthersInv
    <3>2. "common" \in vectors
      BY <3>1 DEF Thread0Inv, ToStub, ToBev
    <3>3. vectors' = Vectors
      BY <3>2 DEF BootTypeOK
    <3> QED BY <3>1, <3>3 DEF BootTypeOK, Thread0Inv
  <2>3. OthersInv'
    BY DEF BootTypeOK, Thread0Inv, OthersInv
  <2>4. MemoryInv'
    BY DEF BootTypeOK, Thread0Inv, OthersInv, MemoryInv
  <2>5. GlobalsInv'
    BY DEF BootTypeOK, Thread0Inv, OthersInv, GlobalsInv
  <2> QED BY <2>1, <2>2, <2>3, <2>4, <2>5
<1>8. ASSUME NEW h \in HwThreads, ZeroTrapCount(h) PROVE BootInv'
  <2> USE <1>8 DEF ZeroTrapCount, threadVars, memVars, globalVars, barrierVars
  <2>1. BootTypeOK'
    BY DEF BootTypeOK
  <2>2. Thread0Inv'
    BY DEF BootTypeOK, Thread0Inv, OthersInv
  <2>3. OthersInv'
    BY DEF BootTypeOK, Thread0Inv, OthersInv
  <2>4. MemoryInv'
    BY DEF BootTypeOK, Thread0Inv, OthersInv, MemoryInv
  <2>5. GlobalsInv'
    BY DEF BootTypeOK, Thread0Inv, OthersInv, GlobalsInv
  <2> QED BY <2>1, <2>2, <2>3, <2>4, <2>5
<1>9. ASSUME NEW h \in HwThreads, ClearBss(h) PROVE BootInv'
  <2> USE <1>9 DEF ClearBss, threadVars, memVars, globalVars, barrierVars
  <2>0. bssNext \in 0 .. MaxCoreThreadId /\ bssNext' \in 0 .. MaxCoreThreadId + 1
    BY CoreThreadIdRange DEF BootTypeOK
  <2>1. BootTypeOK'
    BY <2>0 DEF BootTypeOK
  <2>2. Thread0Inv'
    BY DEF BootTypeOK, Thread0Inv, OthersInv
  <2>3. OthersInv'
    BY DEF BootTypeOK, Thread0Inv, OthersInv
  <2>4. MemoryInv'
    BY CoreThreadIdRange DEF BootTypeOK, Thread0Inv, OthersInv, MemoryInv
  <2>5. GlobalsInv'
    BY DEF BootTypeOK, Thread0Inv, OthersInv, GlobalsInv
  <2> QED BY <2>1, <2>2, <2>3, <2>4, <2>5
<1>10. ASSUME NEW h \in HwThreads, BssDone(h) PROVE BootInv'
  <2> USE <1>10 DEF BssDone, threadVars, memVars, globalVars, barrierVars
  <2>1. BootTypeOK'
    BY DEF BootTypeOK
  <2>0. bssNext = MaxCoreThreadId + 1
    BY CoreThreadIdRange DEF BootTypeOK
  <2>2. Thread0Inv'
    BY <2>0 DEF BootTypeOK, Thread0Inv, OthersInv
  <2>3. OthersInv'
    BY DEF BootTypeOK, Thread0Inv, OthersInv
  <2>4. MemoryInv'
    BY DEF BootTypeOK, Thread0Inv, OthersInv, MemoryInv
  <2>5. GlobalsInv'
    BY DEF BootTypeOK, Thread0Inv, OthersInv, GlobalsInv
  <2> QED BY <2>1, <2>2, <2>3, <2>4, <2>5
<1>11. ASSUME NEW h \in HwThreads, AllThreads(h) PROVE BootInv'
  <2> USE <1>11 DEF AllThreads, threadVars, memVars, globalVars, barrierVars
  <2>1. BootTypeOK'
    BY DEF BootTypeOK
  <2>2. Thread0Inv'
    BY DEF BootTypeOK, Thread0Inv, OthersInv
  <2>3. OthersInv'
    BY DEF BootTypeOK, Thread0Inv, OthersInv
  <2>4. MemoryInv'
    BY DEF BootTypeOK, Thread0Inv, OthersInv, MemoryInv
  <2>5. GlobalsInv'
    BY DEF BootTypeOK, Thread0Inv, OthersInv, GlobalsInv
  <2> QED BY <2>1, <2>2, <2>3, <2>4, <2>5
<1>12. ASSUME NEW h \in HwThreads, StoreBss(h) PROVE BootInv'
  <2> USE <1>12 DEF StoreBss, threadVars, memVars, globalVars, barrierVars
  <2>1. BootTypeOK'
    BY CoreThreadIdRange DEF BootTypeOK
  <2>2. Thread0Inv'
    BY DEF BootTypeOK, Thread0Inv, OthersInv
  <2>3. OthersInv'
    BY DEF BootTypeOK, Thread0Inv, OthersInv
  <2>4. MemoryInv'
    <3>1. CoreThreadId(h) \in 0 .. MaxCoreThreadId
      BY CoreThreadIdRange
    <3>2. \A g \in wrote' : bss'[CoreThreadId(g)] = 1
      <4> SUFFICES ASSUME NEW g \in wrote' PROVE bss'[CoreThreadId(g)] = 1
        OBVIOUS
      <4>1. CoreThreadId(g) \in 0 .. MaxCoreThreadId
        BY CoreThreadIdRange DEF BootTypeOK
      <4> QED BY <3>1, <4>1 DEF BootTypeOK, MemoryInv
    <3>3. stage[Thread0] \notin ToTest
      <4>1. CASE h = Thread0
        BY <4>1
      <4>2. CASE h # Thread0
        <5>1. entered[Thread0] = 1
          BY <4>2 DEF OthersInv
        <5> QED BY <5>1 DEF Thread0Inv
      <4> QED BY <4>1, <4>2
    <3>4. stage' = stage
      BY DEF BootTypeOK
    <3> QED BY <3>2, <3>3, <3>4 DEF MemoryInv
  <2>5. GlobalsInv'
    BY DEF BootTypeOK, Thread0Inv, OthersInv, GlobalsInv
  <2> QED BY <2>1, <2>2, <2>3, <2>4, <2>5
<1>13. ASSUME NEW h \in HwThreads, NEW g \in Globals, StoreGlobal(h, g) PROVE BootInv'
  <2> USE <1>13 DEF StoreGlobal, threadVars, memVars, globalVars, barrierVars
  <2>1. BootTypeOK'
    BY DEF BootTypeOK
  <2>2. Thread0Inv'
    BY DEF BootTypeOK, Thread0Inv, OthersInv
  <2>3. OthersInv'
    BY DEF BootTypeOK, Thread0Inv, OthersInv
  <2>4. MemoryInv'
    BY DEF BootTypeOK, Thread0Inv, OthersInv, MemoryInv
  <2>5. GlobalsInv'
    <3>1. stage' = stage /\ reloc' = reloc /\ entered' = entered
      BY DEF BootTypeOK
    <3>2. stage[Thread0] \notin ToTest
      <4>1. h # Thread0 => entered[Thread0] = 1
        BY DEF OthersInv
      <4> QED BY <4>1 DEF Thread0Inv
    <3>3. \A f \in Globals : global'[f] = IF f = g THEN "stored" ELSE global[f]
      BY DEF BootTypeOK
    <3>4. \A k \in HwThreads : \A f \in 1 .. reloc[k] : f \in Globals
      BY BootAssumption DEF BootTypeOK, Globals
    <3> QED BY <3>1, <3>2, <3>3, <3>4 DEF GlobalsInv
  <2> QED BY <2>1, <2>2, <2>3, <2>4, <2>5
<1>14. ASSUME NEW h \in HwThreads, OtherThreadsGo(h) PROVE BootInv'
  <2> USE <1>14 DEF OtherThreadsGo, threadVars, memVars, globalVars, barrierVars, ResetBarrier!Enter
  <2>0. entered[h] = 0
    BY DEF BootTypeOK
  <2>1. BootTypeOK'
    BY <2>0 DEF BootTypeOK
  <2>2. Thread0Inv'
    BY DEF BootTypeOK, Thread0Inv, OthersInv
  <2>3. OthersInv'
    BY DEF BootTypeOK, Thread0Inv, OthersInv
  <2>4. MemoryInv'
    BY DEF BootTypeOK, Thread0Inv, OthersInv, MemoryInv
  <2>5. GlobalsInv'
    BY DEF BootTypeOK, Thread0Inv, OthersInv, GlobalsInv
  <2> QED BY <2>1, <2>2, <2>3, <2>4, <2>5
<1>15. ASSUME NEW h \in HwThreads, OtherThreadsGone(h) PROVE BootInv'
  <2> USE <1>15 DEF OtherThreadsGone, threadVars, memVars, globalVars, barrierVars, ResetBarrier!Leave
  <2>1. BootTypeOK'
    BY DEF BootTypeOK
  <2>2. Thread0Inv'
    BY DEF BootTypeOK, Thread0Inv, OthersInv
  <2>3. OthersInv'
    BY DEF BootTypeOK, Thread0Inv, OthersInv
  <2>4. MemoryInv'
    BY DEF BootTypeOK, Thread0Inv, OthersInv, MemoryInv
  <2>5. GlobalsInv'
    BY DEF BootTypeOK, Thread0Inv, OthersInv, GlobalsInv
  <2> QED BY <2>1, <2>2, <2>3, <2>4, <2>5
<1>16. ASSUME NEW h \in HwThreads, TestReturns(h) PROVE BootInv'
  <2> USE <1>16 DEF TestReturns, threadVars, memVars, globalVars, barrierVars
  <2>1. BootTypeOK'
    BY DEF BootTypeOK
  <2>2. Thread0Inv'
    BY DEF BootTypeOK, Thread0Inv, OthersInv
  <2>3. OthersInv'
    BY DEF BootTypeOK, Thread0Inv, OthersInv
  <2>4. MemoryInv'
    BY DEF BootTypeOK, Thread0Inv, OthersInv, MemoryInv
  <2>5. GlobalsInv'
    BY DEF BootTypeOK, Thread0Inv, OthersInv, GlobalsInv
  <2> QED BY <2>1, <2>2, <2>3, <2>4, <2>5
<1>17. ASSUME NEW h \in HwThreads, Dump(h) PROVE BootInv'
  <2> USE <1>17 DEF Dump, threadVars, memVars, globalVars, barrierVars
  <2>1. BootTypeOK'
    BY DEF BootTypeOK
  <2>2. Thread0Inv'
    BY DEF BootTypeOK, Thread0Inv, OthersInv
  <2>3. OthersInv'
    BY DEF BootTypeOK, Thread0Inv, OthersInv
  <2>4. MemoryInv'
    BY DEF BootTypeOK, Thread0Inv, OthersInv, MemoryInv
  <2>5. GlobalsInv'
    BY DEF BootTypeOK, Thread0Inv, OthersInv, GlobalsInv
  <2> QED BY <2>1, <2>2, <2>3, <2>4, <2>5
<1>18. ASSUME NEW h \in HwThreads, Halt(h) PROVE BootInv'
  <2> USE <1>18 DEF Halt, threadVars, memVars, globalVars, barrierVars, Thread0
  <2>1. BootTypeOK'
    BY DEF BootTypeOK
  <2>0. h = Thread0
    BY DEF HwThreads
  <2>2. Thread0Inv'
    BY <2>0 DEF BootTypeOK, Thread0Inv, OthersInv
  <2>3. OthersInv'
    BY DEF BootTypeOK, Thread0Inv, OthersInv
  <2>4. MemoryInv'
    BY DEF BootTypeOK, Thread0Inv, OthersInv, MemoryInv
  <2>5. GlobalsInv'
    BY DEF BootTypeOK, Thread0Inv, OthersInv, GlobalsInv
  <2> QED BY <2>1, <2>2, <2>3, <2>4, <2>5
<1>19. ASSUME NEW h \in HwThreads, EndNotCore0(h) PROVE BootInv'
  <2> USE <1>19 DEF EndNotCore0, threadVars, memVars, globalVars, barrierVars, Thread0
  <2>1. BootTypeOK'
    BY DEF BootTypeOK
  <2>2. Thread0Inv'
    BY DEF BootTypeOK, Thread0Inv, OthersInv
  <2>3. OthersInv'
    BY DEF BootTypeOK, Thread0Inv, OthersInv
  <2>4. MemoryInv'
    BY DEF BootTypeOK, Thread0Inv, OthersInv, MemoryInv
  <2>5. GlobalsInv'
    BY DEF BootTypeOK, Thread0Inv, OthersInv, GlobalsInv
  <2> QED BY <2>1, <2>2, <2>3, <2>4, <2>5
<1>20. ASSUME NEW h \in HwThreads, NEW v \in Vectors, TrapHandled(h, v) PROVE BootInv'
  <2> USE <1>20 DEF TrapHandled, memVars, globalVars, barrierVars
  <2>1. BootTypeOK'
    BY DEF BootTypeOK
  <2>2. Thread0Inv'
    BY DEF BootTypeOK, Thread0Inv, OthersInv
  <2>3. OthersInv'
    BY DEF BootTypeOK, Thread0Inv, OthersInv
  <2>4. MemoryInv'
    BY DEF BootTypeOK, Thread0Inv, OthersInv, MemoryInv
  <2>5. GlobalsInv'
    BY DEF BootTypeOK, Thread0Inv, OthersInv, GlobalsInv
  <2> QED BY <2>1, <2>2, <2>3, <2>4, <2>5
<1>21. ASSUME NEW h \in HwThreads, NEW v \in Vectors, TrapLost(h, v) PROVE BootInv'
  <2> USE <1>21 DEF TrapLost, memVars, globalVars, barrierVars
  <2>1. BootTypeOK'
    BY DEF BootTypeOK
  <2>2. Thread0Inv'
    BY DEF BootTypeOK, Thread0Inv, OthersInv
  <2>3. OthersInv'
    BY DEF BootTypeOK, Thread0Inv, OthersInv
  <2>4. MemoryInv'
    BY DEF BootTypeOK, Thread0Inv, OthersInv, MemoryInv
  <2>5. GlobalsInv'
    BY DEF BootTypeOK, Thread0Inv, OthersInv, GlobalsInv
  <2> QED BY <2>1, <2>2, <2>3, <2>4, <2>5
<1>22. ASSUME NEW h \in HwThreads, CrtInitGlobals(h) PROVE BootInv'
  <2> USE <1>22 DEF CrtInitGlobals, threadVars, memVars, globalVars, barrierVars
  <2>0. /\ NumGlobals \in Nat /\ reloc[h] \in 0 .. NumGlobals - 1 /\ reloc[h] + 1 \in Globals
        /\ stage' = stage
    BY BootAssumption DEF BootTypeOK, Globals
  <2>1. BootTypeOK'
    BY <2>0 DEF BootTypeOK
  <2>2. Thread0Inv'
    BY <2>0 DEF BootTypeOK, Thread0Inv, OthersInv
  <2>3. OthersInv'
    BY <2>0 DEF BootTypeOK, Thread0Inv, OthersInv
  <2>4. MemoryInv'
    BY <2>0 DEF BootTypeOK, Thread0Inv, OthersInv, MemoryInv
  <2>5. GlobalsInv'
    <3>1. stage[Thread0] \in ToTest => \A g \in Globals : global'[g] \in {"unset", "init"}
      BY <2>0 DEF BootTypeOK, GlobalsInv
    <3>2. \A g \in Globals : global'[g] = "undone" => entered[Thread0] = 1
      <4>1. h # Thread0 => entered[Thread0] = 1
        BY DEF OthersInv
      <4>2. h = Thread0 => \A g \in Globals : global[g] \in {"unset", "init"}
        BY DEF GlobalsInv
      <4> QED BY <2>0, <4>1, <4>2 DEF BootTypeOK, GlobalsInv
    <3>3. \A k \in HwThreads : \A g \in 1 .. reloc'[k] : global'[g] # "unset"
      <4> SUFFICES ASSUME NEW k \in HwThreads, NEW g \in 1 .. reloc'[k] PROVE global'[g] # "unset"
        OBVIOUS
      <4>0. reloc[k] \in 0 .. NumGlobals /\ reloc'[k] = IF k = h THEN reloc[h] + 1 ELSE reloc[k]
        BY DEF BootTypeOK
      <4>1. g \in Globals /\ (g = reloc[h] + 1 \/ g \in 1 .. reloc[k])
        BY <2>0, <4>0 DEF Globals
      <4> QED BY <2>0, <4>1 DEF BootTypeOK, GlobalsInv
    <3>4. \A k \in HwThreads : Purecap /\ stage[k] \in {"test", "go"} => reloc'[k] = NumGlobals
      BY <2>0 DEF BootTypeOK, GlobalsInv
    <3> QED BY <2>0, <3>1, <3>2, <3>3, <3>4 DEF GlobalsInv
  <2> QED BY <2>1, <2>2, <2>3, <2>4, <2>5
<1>23. ASSUME NEW h \in HwThreads, GlobalsDone(h) PROVE BootInv'
  <2> USE <1>23 DEF GlobalsDone, threadVars, memVars, globalVars, barrierVars
  <2>1. BootTypeOK'
    BY DEF BootTypeOK
  <2>2. Thread0Inv'
    BY DEF BootTypeOK, Thread0Inv, OthersInv
  <2>3. OthersInv'
    BY DEF BootTypeOK, Thread0Inv, OthersInv
  <2>4. MemoryInv'
    BY DEF BootTypeOK, Thread0Inv, OthersInv, MemoryInv
  <2>5. GlobalsInv'
    BY DEF BootTypeOK, Thread0Inv, OthersInv, GlobalsInv
  <2> QED BY <2>1, <2>2, <2>3, <2>4, <2>5
<1>24. ASSUME UNCHANGED vars PROVE BootInv'
  <2> USE <1>24 DEF vars, threadVars, memVars, globalVars, barrierVars
  <2>1. BootTypeOK'
    BY DEF BootTypeOK
  <2>2. Thread0Inv'
    BY DEF BootTypeOK, Thread0Inv, OthersInv
  <2>3. OthersInv'
    BY DEF BootTypeOK, Thread0Inv, OthersInv
  <2>4. MemoryInv'
    BY DEF BootTypeOK, Thread0Inv, OthersInv, MemoryInv
  <2>5. GlobalsInv'
    BY DEF BootTypeOK, Thread0Inv, OthersInv, GlobalsInv
  <2> QED BY <2>1, <2>2, <2>3, <2>4, <2>5
<1> QED
  BY <1>1, <1>2, <1>3, <1>4, <1>5, <1>6, <1>7, <1>8, <1>9, <1>10, <1>11, <1>12, <1>13, <1>14, <1>15, <1>16, <1>17, <1>18, <1>19, <1>20, <1>21, <1>22, <1>23, <1>24
  DEF Next, Start, Test, Trap, Finish

-----------------------------------------------------------------------------

\* The invariant holds in every state, for every topology and every test.
THEOREM BootInvariance == Spec => []BootInv
BY BootInvInit, BootInvNext, PTL DEF Spec

\* No thread but 0 is past reset_barrier, and no thread of a purecap image
\* runs its test, before the set-up it relies on is complete, nor does the
\* set-up of one thread undo a test's store to a global before thread 0 has
\* released the others (init.s, start and all_threads): a thread past the
\* barrier has seen thread 0 enter it, from its test.
THEOREM SetupFirst == Spec => []SetupBeforeTests
<1>1. BootInv => SetupBeforeTests
  <2> SUFFICES ASSUME BootInv PROVE SetupBeforeTests
    OBVIOUS
  <2>1. ASSUME NEW h \in Others, stage[h] \notin {"reset", "spin", "barrier"}
        PROVE  vectors = Vectors /\ bssNext = MaxCoreThreadId + 1
    BY <2>1 DEF BootInv, Thread0Inv, OthersInv, ToBev, ToStub, ToBranches, ToCount, ToBzero, ToTest
  <2>2. ASSUME NEW h \in HwThreads, NEW g \in Globals, Purecap, stage[h] = "test"
        PROVE  global[g] # "unset"
    BY <2>2 DEF BootInv, GlobalsInv, Globals
  <2>3. \A g \in Globals : global[g] = "undone" => entered[Thread0] = 1
    BY DEF BootInv, GlobalsInv
  <2> QED BY <2>1, <2>2, <2>3 DEF SetupBeforeTests
<1> QED BY <1>1, BootInvariance, PTL

\* bzero of .bss never wipes what a test has stored (init.s, start).
THEOREM BssSafe == Spec => []BssStoresSurvive
<1>1. BootInv => BssStoresSurvive
  BY DEF BootInv, MemoryInv, BssStoresSurvive
<1> QED BY <1>1, BootInvariance, PTL

\* No trap in the test of thread 0 misses the installed handler, whichever
\* vector it uses (lib.s, bev0_set_common_handler_raw).
THEOREM Thread0Handled == Spec => []Thread0TrapsHandled
<1>1. BootInv => Thread0TrapsHandled
  BY DEF BootInv, Thread0Inv, Thread0TrapsHandled, ToBev, ToStub, ToBranches, ToCount,
     ToBzero, ToTest
<1> QED BY <1>1, BootInvariance, PTL

\* The dump of thread 0 precedes the stop of the simulator and holds the
\* number of traps of its test (init.s, finish).
THEOREM HaltAfterDump == Spec => []HaltedWithThread0Traps
<1>1. BootInv => HaltedWithThread0Traps
  BY DEF BootInv, Thread0Inv, HaltedWithThread0Traps
<1> QED BY <1>1, BootInvariance, PTL
=============================================================================
