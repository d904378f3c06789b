------------------------- MODULE ThreadBarrierProofs -------------------------
(***************************************************************************)
(* Proofs about thread_barrier for every number of cores and threads that  *)
(* fits the barrier's array, every counter width and every number of       *)
(* calls.  The inductive invariant ties each counter in memory to the      *)
(* number of calls its thread has announced (Announced) and records what   *)
(* a scan has already established about the counters above its index.      *)
(***************************************************************************)
EXTENDS ThreadBarrier, TLAPS

\* get_corethread_id numbers the hardware threads from 0 to the maximum it
\* returns, and the barrier's array has a byte for each number.
LEMMA CoreThreadIdRange ==
  ASSUME NEW h \in HwThreads
  PROVE  /\ CoreThreadId(h) \in 0 .. MaxCoreThreadId
         /\ MaxCoreThreadId \in 0 .. max_thread_count - 1
<1> DEFINE c == h[1]
           t == h[2]
           n == NumThreads
<1>1. /\ c \in 0 .. NumCores - 1
      /\ t \in 0 .. n - 1
      /\ n \in Nat \ {0}
      /\ NumCores \in Nat \ {0}
  BY TopologyAssumption DEF HwThreads
<1>2. c * n \in Nat /\ NumCores * n \in Nat
  BY <1>1
<1>3. (NumCores - 1 - c) * n >= 0
  <2>1. NumCores - 1 - c \in Nat
    BY <1>1
  <2> QED BY <2>1, <1>1
<1>4. (NumCores - 1 - c) * n = NumCores * n - n - c * n
  BY <1>1
<1>5. NumCores * n >= 1
  BY <1>1, <1>2, <1>3, <1>4
<1> HIDE DEF c, t
<1> QED
  BY <1>1, <1>2, <1>3, <1>4, <1>5, TopologyAssumption
  DEF CoreThreadId, MaxCoreThreadId, max_thread_count, c, t

\* No two hardware threads share a counter.
LEMMA CoreThreadIdInjective ==
  ASSUME NEW g \in HwThreads, NEW h \in HwThreads,
         CoreThreadId(g) = CoreThreadId(h)
  PROVE  g = h
<1>1. /\ g[1] \in 0 .. NumCores - 1 /\ h[1] \in 0 .. NumCores - 1
      /\ g[2] \in 0 .. NumThreads - 1 /\ h[2] \in 0 .. NumThreads - 1
      /\ g = <<g[1], g[2]>> /\ h = <<h[1], h[2]>>
      /\ NumThreads \in Nat \ {0}
      /\ NumCores \in Nat \ {0}
  BY TopologyAssumption DEF HwThreads
<1>2. ASSUME NEW a \in Nat, NEW b \in Nat, NEW n \in Nat \ {0},
             NEW x \in 0 .. n - 1, NEW y \in 0 .. n - 1,
             a * n + x = b * n + y
      PROVE  ~(a < b)
  <2>1. SUFFICES ASSUME a < b PROVE FALSE
    OBVIOUS
  <2>2. b - a - 1 \in Nat
    BY <2>1
  <2>3. (b - a - 1) * n >= 0
    BY <2>2
  <2>4. (b - a - 1) * n = b * n - a * n - n
    OBVIOUS
  <2>5. a * n \in Nat /\ b * n \in Nat
    OBVIOUS
  <2> QED BY <2>3, <2>4, <2>5, <1>2
<1>3. g[1] * NumThreads + g[2] = h[1] * NumThreads + h[2]
  BY DEF CoreThreadId
<1>4. ~(g[1] < h[1])
  BY <1>1, <1>2, <1>3
<1>5. ~(h[1] < g[1])
  BY <1>1, <1>2, <1>3
<1>6. g[1] = h[1]
  BY <1>1, <1>4, <1>5
<1>7. g[2] = h[2]
  <2>1. h[1] * NumThreads \in Int
    BY <1>1
  <2>2. h[1] * NumThreads + g[2] = h[1] * NumThreads + h[2]
    BY <1>3, <1>6
  <2> QED BY <2>1, <2>2, <1>1
<1> QED BY <1>1, <1>6, <1>7

\* The calls of g that memory shows: the present one counts from the moment
\* its counter store has left the store buffer.
Announced(g) ==
  IF pc[g] \in {"scan", "sync_out", "out"} /\ flagBuf[g] = None
  THEN calls[g] ELSE calls[g] - 1

\* A count in 0 .. CounterMod as its byte shows it.
Low(n) == IF n = CounterMod THEN 0 ELSE n

CallsInv ==
  \A h \in HwThreads :
    /\ calls[h] <= CounterMod
    /\ pc[h] # "out" => calls[h] >= 1
    /\ pc[h] \in {"sync_out", "out"} => calls[h] < CounterMod
    /\ pc[h] \in {"store", "scan", "sync_out", "out"} => v0[h] = calls[h]

MemoryInv ==
  \A h \in HwThreads :
    /\ flags[CoreThreadId(h)] = Low(Announced(h))
    /\ flagBuf[h] # None =>
         pc[h] \in {"scan", "sync_out"} /\ flagBuf[h] = Low(calls[h])
    /\ dataBuf[h] # None =>
         pc[h] = "sync_in" /\ dataBuf[h] = calls[h] /\ data[h] = calls[h] - 1
    /\ dataBuf[h] = None => data[h] = calls[h]

\* What the scan of h knows: everybody above its index has announced the
\* call h is in, and h's own counter has not wrapped if it was looked at.
ScanInv ==
  \A h \in HwThreads :
    /\ pc[h] = "scan" =>
         /\ \A g \in HwThreads \ {h} :
              CoreThreadId(g) > t0[h] => Announced(g) >= calls[h]
         /\ CoreThreadId(h) > t0[h] => calls[h] < CounterMod
    /\ pc[h] \in {"sync_out", "out"} =>
         \A g \in HwThreads \ {h} : Announced(g) >= calls[h]

IInv == TypeOK /\ CallsInv /\ MemoryInv /\ ScanInv

-----------------------------------------------------------------------------

\* sb stores the low byte: what is left of a count that has just reached the
\* number of byte values is 0.
LEMMA LowByte ==
  ASSUME NEW n \in 0 .. CounterMod
  PROVE  n % CounterMod = Low(n)
<1>1. CounterMod \in Nat \ {0, 1}
  BY ConfigAssumption
<1>2. CASE n = CounterMod
  BY <1>1, <1>2 DEF Low
<1>3. CASE n < CounterMod
  BY <1>1, <1>3 DEF Low
<1> QED BY <1>1, <1>2, <1>3

-----------------------------------------------------------------------------

\* Every variable keeps its type; in particular a counter stays a byte and a
\* scan never leaves the array.
THEOREM TypeCorrect == Spec => []TypeOK
<1>1. Init => TypeOK
  <2> SUFFICES ASSUME Init PROVE TypeOK
    OBVIOUS
  <2>1. 0 \in Bytes /\ 0 \in 0 .. CounterMod
    BY ConfigAssumption DEF Bytes
  <2>2. ASSUME NEW h \in HwThreads PROVE 0 \in 0 .. MaxCoreThreadId
    BY CoreThreadIdRange
  <2> QED BY <2>1, <2>2 DEF Init, TypeOK
<1>2. TypeOK /\ [Next]_vars => TypeOK'
  <2> SUFFICES ASSUME TypeOK, [Next]_vars PROVE TypeOK'
    OBVIOUS
  <2> USE DEF TypeOK
  <2>1. ASSUME NEW h \in HwThreads, Call(h) PROVE TypeOK'
    BY <2>1 DEF Call, Goto
  <2>2. ASSUME NEW h \in HwThreads, SyncIn(h) PROVE TypeOK'
    BY <2>2 DEF SyncIn, Goto, memory
  <2>3. ASSUME NEW h \in HwThreads, LoadFlag(h) PROVE TypeOK'
    <3>1. CoreThreadId(h) \in 0 .. max_thread_count - 1
      BY CoreThreadIdRange DEF max_thread_count
    <3>2. LoadByte(h, CoreThreadId(h)) \in Bytes
      BY <3>1 DEF LoadByte
    <3>3. LoadByte(h, CoreThreadId(h)) + 1 \in 0 .. CounterMod
      BY <3>2, ConfigAssumption DEF Bytes
    <3> QED BY <2>3, <3>3 DEF LoadFlag, Goto, memory
  <2>4. ASSUME NEW h \in HwThreads, StoreFlag(h) PROVE TypeOK'
    <3>1. v0[h] % CounterMod \in Bytes
      BY ConfigAssumption DEF Bytes
    <3>2. MaxCoreThreadId \in 0 .. MaxCoreThreadId
      BY CoreThreadIdRange DEF max_thread_count
    <3> QED BY <2>4, <3>1, <3>2 DEF StoreFlag, Goto
  <2>5. ASSUME NEW h \in HwThreads, ScanAgain(h) PROVE TypeOK'
    <3>1. MaxCoreThreadId \in 0 .. MaxCoreThreadId
      BY CoreThreadIdRange DEF max_thread_count
    <3> QED BY <2>5, <3>1 DEF ScanAgain, memory
  <2>6. ASSUME NEW h \in HwThreads, ScanNext(h) PROVE TypeOK'
    <3>1. t0[h] - 1 \in 0 .. MaxCoreThreadId
      BY <2>6, CoreThreadIdRange DEF ScanNext, max_thread_count
    <3> QED BY <2>6, <3>1 DEF ScanNext, memory
  <2>7. ASSUME NEW h \in HwThreads, ScanDone(h) PROVE TypeOK'
    BY <2>7 DEF ScanDone, Goto, memory
  <2>8. ASSUME NEW h \in HwThreads, Return(h) PROVE TypeOK'
    BY <2>8 DEF Return, Goto, memory
  <2>9. ASSUME NEW h \in HwThreads, DrainFlag(h) PROVE TypeOK'
    BY <2>9 DEF DrainFlag
  <2>10. ASSUME NEW h \in HwThreads, DrainData(h) PROVE TypeOK'
    BY <2>10 DEF DrainData
  <2>11. CASE UNCHANGED vars
    BY <2>11 DEF vars
  <2> QED
    BY <2>1, <2>2, <2>3, <2>4, <2>5, <2>6, <2>7, <2>8, <2>9, <2>10, <2>11
    DEF Next, Barrier, Scan, Drain
<1> QED BY <1>1, <1>2, PTL DEF Spec

-----------------------------------------------------------------------------

\* A byte never shows more than the count it stands for.
LEMMA LowBelow ==
  ASSUME NEW n \in Nat
  PROVE  Low(n) \in Nat /\ Low(n) <= n
BY ConfigAssumption DEF Low

\* The scan of h goes past index i only if the thread with that number has
\* announced h's call (or is h, with a counter that has not wrapped).
LEMMA SeenIsAnnounced ==
  ASSUME TypeOK, CallsInv, MemoryInv,
         NEW h \in HwThreads, pc[h] = "scan",
         NEW g \in HwThreads, ~Behind(h, CoreThreadId(g))
  PROVE  IF g = h THEN calls[h] < CounterMod ELSE Announced(g) >= calls[h]
<1>1. /\ v0[h] = calls[h] /\ calls[h] >= 1 /\ calls[h] <= CounterMod
      /\ calls \in [HwThreads -> Nat]
  BY DEF CallsInv, TypeOK
<1>2. CASE g = h
  <2>1. LoadByte(h, CoreThreadId(h)) = Low(calls[h])
    BY DEF LoadByte, MemoryInv, Announced
  <2>2. ~(v0[h] - Low(calls[h]) > 0)
    BY <1>2, <2>1 DEF Behind
  <2> QED BY <1>1, <1>2, <2>2, ConfigAssumption DEF Low
<1>3. CASE g # h
  <2>1. LoadByte(h, CoreThreadId(g)) = Low(Announced(g))
    BY <1>3, CoreThreadIdInjective DEF LoadByte, MemoryInv
  <2>2. Announced(g) \in Nat
    BY <1>1 DEF Announced, CallsInv, MemoryInv
  <2>3. ~(v0[h] - Low(Announced(g)) > 0)
    BY <2>1 DEF Behind
  <2> QED BY <1>1, <1>3, <2>2, <2>3, LowBelow
<1> QED BY <1>2, <1>3

\* Announcements are never taken back, and the scan's knowledge of them
\* stays true when a step leaves the scanning thread alone.
LEMMA ScanInvStable ==
  ASSUME TypeOK, TypeOK', CallsInv, ScanInv,
         NEW h \in HwThreads,
         \A g \in HwThreads : Announced(g)' >= Announced(g),
         \A g \in HwThreads \ {h} :
           pc'[g] = pc[g] /\ t0'[g] = t0[g] /\ calls'[g] = calls[g],
         /\ pc'[h] = "scan" =>
              /\ \A g \in HwThreads \ {h} :
                   CoreThreadId(g) > t0'[h] => Announced(g)' >= calls'[h]
              /\ CoreThreadId(h) > t0'[h] => calls'[h] < CounterMod
         /\ pc'[h] \in {"sync_out", "out"} =>
              \A g \in HwThreads \ {h} : Announced(g)' >= calls'[h]
  PROVE  ScanInv'
<1>1. ASSUME NEW g \in HwThreads
      PROVE  /\ Announced(g) \in Int /\ Announced(g)' \in Int
             /\ calls[g] \in Int /\ calls'[g] \in Int
  <2>1. calls[g] \in Int /\ calls'[g] \in Int
    BY DEF TypeOK
  <2> QED BY <2>1 DEF Announced
<1> QED BY <1>1 DEF ScanInv

\* A step that leaves what every thread has announced takes nothing back.
LEMMA AnnouncedKept ==
  ASSUME TypeOK, \A g \in HwThreads : Announced(g)' = Announced(g)
  PROVE  \A g \in HwThreads : Announced(g)' >= Announced(g)
<1>1. \A g \in HwThreads : Announced(g) \in Int
  BY DEF TypeOK, Announced
<1> QED BY <1>1

\* The inductive step: every step of a thread or a store buffer keeps the
\* relation between counters, announcements and scans.
LEMMA InductiveStep ==
  ASSUME TypeOK, TypeOK', CallsInv, MemoryInv, ScanInv, [Next]_vars
  PROVE  CallsInv' /\ MemoryInv' /\ ScanInv'
<1> USE ConfigAssumption
<1>1. ASSUME NEW h \in HwThreads, Call(h)
      PROVE  CallsInv' /\ MemoryInv' /\ ScanInv'
  <2> USE <1>1 DEF Call, Goto
  <2>1. CallsInv'
    BY DEF TypeOK, CallsInv
  <2>2. \A g \in HwThreads : Announced(g)' = Announced(g)
    BY DEF TypeOK, MemoryInv, Announced
  <2>3. dataBuf[h] = None /\ flagBuf[h] = None
    BY DEF MemoryInv
  <2>4. MemoryInv'
    BY <2>2, <2>3 DEF TypeOK, MemoryInv, Low, None
  <2>5. ScanInv'
    BY <2>2, AnnouncedKept, ScanInvStable DEF TypeOK
  <2> QED BY <2>1, <2>4, <2>5
<1>2. ASSUME NEW h \in HwThreads, SyncIn(h)
      PROVE  CallsInv' /\ MemoryInv' /\ ScanInv'
  <2> USE <1>2 DEF SyncIn, Goto, memory
  <2>1. CallsInv'
    BY DEF TypeOK, CallsInv
  <2>2. \A g \in HwThreads : Announced(g)' = Announced(g)
    BY DEF TypeOK, Announced
  <2>3. MemoryInv'
    BY <2>2 DEF TypeOK, MemoryInv, Drained, Low
  <2>4. ScanInv'
    BY <2>2, AnnouncedKept, ScanInvStable DEF TypeOK
  <2> QED BY <2>1, <2>3, <2>4
<1>3. ASSUME NEW h \in HwThreads, LoadFlag(h)
      PROVE  CallsInv' /\ MemoryInv' /\ ScanInv'
  <2> USE <1>3 DEF LoadFlag, Goto, memory
  <2>1. LoadByte(h, CoreThreadId(h)) = calls[h] - 1
    <3>1. flagBuf[h] = None /\ Announced(h) = calls[h] - 1
      BY DEF MemoryInv, Announced
    <3>2. calls[h] \in 1 .. CounterMod
      BY DEF TypeOK, CallsInv
    <3> QED BY <3>1, <3>2 DEF MemoryInv, LoadByte, Low
  <2>2. CallsInv'
    BY <2>1 DEF TypeOK, CallsInv
  <2>3. \A g \in HwThreads : Announced(g)' = Announced(g)
    BY DEF TypeOK, Announced
  <2>4. MemoryInv'
    BY <2>3 DEF TypeOK, MemoryInv, Low
  <2>5. ScanInv'
    BY <2>3, AnnouncedKept, ScanInvStable DEF TypeOK
  <2> QED BY <2>2, <2>4, <2>5
<1>4. ASSUME NEW h \in HwThreads, StoreFlag(h)
      PROVE  CallsInv' /\ MemoryInv' /\ ScanInv'
  <2> USE <1>4 DEF StoreFlag, Goto
  <2>1. CallsInv'
    BY DEF TypeOK, CallsInv
  <2>2. flagBuf'[h] = Low(calls[h]) /\ flagBuf'[h] # None
    <3>1. v0[h] = calls[h] /\ calls[h] \in 0 .. CounterMod
      BY DEF TypeOK, CallsInv
    <3> QED BY <3>1, LowByte DEF TypeOK, Low, None
  <2>3. \A g \in HwThreads : Announced(g)' = Announced(g)
    BY <2>2 DEF TypeOK, Announced
  <2>4. MemoryInv'
    BY <2>2, <2>3 DEF TypeOK, MemoryInv, Low
  <2>5. \A g \in HwThreads : ~(CoreThreadId(g) > MaxCoreThreadId)
    BY CoreThreadIdRange DEF max_thread_count
  <2>6. ScanInv'
    BY <2>3, <2>5, AnnouncedKept, ScanInvStable DEF TypeOK
  <2> QED BY <2>1, <2>4, <2>6
<1>5. ASSUME NEW h \in HwThreads, ScanAgain(h)
      PROVE  CallsInv' /\ MemoryInv' /\ ScanInv'
  <2> USE <1>5 DEF ScanAgain, memory
  <2>1. CallsInv'
    BY DEF TypeOK, CallsInv
  <2>2. \A g \in HwThreads : Announced(g)' = Announced(g)
    BY DEF Announced
  <2>3. MemoryInv'
    BY <2>2 DEF MemoryInv, Low
  <2>4. \A g \in HwThreads : ~(CoreThreadId(g) > MaxCoreThreadId)
    BY CoreThreadIdRange DEF max_thread_count
  <2>5. ScanInv'
    BY <2>2, <2>4, AnnouncedKept, ScanInvStable DEF TypeOK
  <2> QED BY <2>1, <2>3, <2>5
<1>6. ASSUME NEW h \in HwThreads, ScanNext(h)
      PROVE  CallsInv' /\ MemoryInv' /\ ScanInv'
  <2> USE <1>6 DEF ScanNext, memory
  <2>1. CallsInv'
    BY DEF TypeOK, CallsInv
  <2>2. \A g \in HwThreads : Announced(g)' = Announced(g)
    BY DEF Announced
  <2>3. MemoryInv'
    BY <2>2 DEF MemoryInv, Low
  <2>4. ASSUME NEW g \in HwThreads, CoreThreadId(g) > t0'[h]
        PROVE  IF g = h THEN calls[h] < CounterMod ELSE Announced(g) >= calls[h]
    <3>1. CoreThreadId(g) \in Int /\ t0[h] \in Int /\ t0'[h] = t0[h] - 1
      BY CoreThreadIdRange DEF TypeOK
    <3>2. CASE CoreThreadId(g) > t0[h]
      BY <3>2 DEF ScanInv
    <3>3. CASE CoreThreadId(g) = t0[h]
      BY <3>3, SeenIsAnnounced
    <3> QED BY <2>4, <3>1, <3>2, <3>3
  <2>5. ScanInv'
    <3>1. /\ \A g \in HwThreads \ {h} :
               CoreThreadId(g) > t0'[h] => Announced(g)' >= calls'[h]
          /\ CoreThreadId(h) > t0'[h] => calls'[h] < CounterMod
      BY <2>2, <2>4
    <3> QED BY <2>2, <3>1, AnnouncedKept, ScanInvStable DEF TypeOK
  <2> QED BY <2>1, <2>3, <2>5
<1>7. ASSUME NEW h \in HwThreads, ScanDone(h)
      PROVE  CallsInv' /\ MemoryInv' /\ ScanInv'
  <2> USE <1>7 DEF ScanDone, Goto, memory
  <2>1. \A g \in HwThreads : Announced(g)' = Announced(g)
    BY DEF TypeOK, Announced
  <2>2. MemoryInv'
    BY <2>1 DEF TypeOK, MemoryInv, Low
  <2>3. ASSUME NEW g \in HwThreads
        PROVE  IF g = h THEN calls[h] < CounterMod ELSE Announced(g) >= calls[h]
    <3>1. CoreThreadId(g) \in Nat
      BY CoreThreadIdRange
    <3>2. CASE CoreThreadId(g) > t0[h]
      BY <3>2 DEF ScanInv
    <3>3. CASE CoreThreadId(g) = t0[h]
      BY <3>3, SeenIsAnnounced
    <3> QED BY <3>1, <3>2, <3>3
  <2>4. CallsInv'
    BY <2>3 DEF TypeOK, CallsInv
  <2>5. ScanInv'
    <3>1. \A g \in HwThreads \ {h} : Announced(g)' >= calls'[h]
      BY <2>1, <2>3
    <3> QED BY <2>1, <3>1, AnnouncedKept, ScanInvStable DEF TypeOK
  <2> QED BY <2>2, <2>4, <2>5
<1>8. ASSUME NEW h \in HwThreads, Return(h)
      PROVE  CallsInv' /\ MemoryInv' /\ ScanInv'
  <2> USE <1>8 DEF Return, Goto, memory
  <2>1. CallsInv'
    BY DEF TypeOK, CallsInv
  <2>2. \A g \in HwThreads : Announced(g)' = Announced(g)
    BY DEF TypeOK, Announced
  <2>3. MemoryInv'
    BY <2>2 DEF TypeOK, MemoryInv, Drained, Low
  <2>4. ScanInv'
    <3>1. \A g \in HwThreads \ {h} : Announced(g)' >= calls'[h]
      BY <2>2 DEF ScanInv
    <3> QED BY <2>2, <3>1, AnnouncedKept, ScanInvStable DEF TypeOK
  <2> QED BY <2>1, <2>3, <2>4
<1>9. ASSUME NEW h \in HwThreads, DrainFlag(h)
      PROVE  CallsInv' /\ MemoryInv' /\ ScanInv'
  <2> USE <1>9 DEF DrainFlag
  <2>1. CallsInv'
    BY DEF TypeOK, CallsInv
  <2>2. /\ \A g \in HwThreads \ {h} : Announced(g)' = Announced(g)
        /\ Announced(h) = calls[h] - 1 /\ Announced(h)' = calls[h]
    BY DEF TypeOK, MemoryInv, Announced
  <2>3. MemoryInv'
    <3>1. CoreThreadId(h) \in 0 .. max_thread_count - 1
      BY CoreThreadIdRange DEF max_thread_count
    <3>2. flags'[CoreThreadId(h)] = Low(Announced(h)')
      BY <2>2, <3>1 DEF TypeOK, MemoryInv
    <3>3. \A g \in HwThreads \ {h} : flags'[CoreThreadId(g)] = Low(Announced(g)')
      BY <2>2, CoreThreadIdInjective DEF TypeOK, MemoryInv
    <3> QED BY <3>2, <3>3 DEF TypeOK, MemoryInv, Low
  <2>4. ScanInv'
    <3>1. \A g \in HwThreads : Announced(g)' >= Announced(g)
      BY <2>2 DEF TypeOK, Announced
    <3>2. \A g \in HwThreads \ {h} : Announced(g)' = Announced(g)
      BY <2>2
    <3> QED BY <3>1, <3>2, ScanInvStable DEF ScanInv
  <2> QED BY <2>1, <2>3, <2>4
<1>10. ASSUME NEW h \in HwThreads, DrainData(h)
       PROVE  CallsInv' /\ MemoryInv' /\ ScanInv'
  <2> USE <1>10 DEF DrainData
  <2>1. CallsInv'
    BY DEF TypeOK, CallsInv
  <2>2. \A g \in HwThreads : Announced(g)' = Announced(g)
    BY DEF Announced
  <2>3. MemoryInv'
    BY <2>2 DEF TypeOK, MemoryInv, Low
  <2>4. ScanInv'
    BY <2>2 DEF ScanInv
  <2> QED BY <2>1, <2>3, <2>4
<1>11. CASE UNCHANGED vars
  <2>1. \A g \in HwThreads : Announced(g)' = Announced(g)
    BY <1>11 DEF Announced, vars
  <2> QED BY <1>11, <2>1 DEF vars, CallsInv, MemoryInv, ScanInv, Low
<1> QED
  BY <1>1, <1>2, <1>3, <1>4, <1>5, <1>6, <1>7, <1>8, <1>9, <1>10, <1>11
  DEF Next, Barrier, Scan, Drain

\* The inductive invariant holds in every reachable state.
THEOREM Invariance == Spec => []IInv
<1>1. Init => CallsInv /\ MemoryInv /\ ScanInv
  <2> SUFFICES ASSUME Init PROVE CallsInv /\ MemoryInv /\ ScanInv
    OBVIOUS
  <2>1. \A g \in HwThreads :
          Announced(g) = 0 /\ CoreThreadId(g) \in 0 .. max_thread_count - 1
    BY CoreThreadIdRange DEF Init, Announced, max_thread_count
  <2>2. CallsInv
    BY ConfigAssumption DEF Init, CallsInv
  <2>3. MemoryInv
    BY <2>1, ConfigAssumption DEF Init, MemoryInv, Low
  <2>4. ScanInv
    BY <2>1 DEF Init, ScanInv
  <2> QED BY <2>2, <2>3, <2>4
<1>2. TypeOK /\ TypeOK' /\ CallsInv /\ MemoryInv /\ ScanInv /\ [Next]_vars
        => CallsInv' /\ MemoryInv' /\ ScanInv'
  BY InductiveStep
<1> QED BY <1>1, <1>2, TypeCorrect, PTL DEF Spec, IInv

\* lib.s, thread_barrier: nobody is back from its k-th call while another
\* thread has made fewer than k, whatever the interleaving of the scans, the
\* counter stores and their draining, and even when counters wrap.
THEOREM BarrierSafety == Spec => []NobodyLeavesEarly
<1>1. IInv => NobodyLeavesEarly
  <2> SUFFICES ASSUME IInv, NEW h \in HwThreads, NEW g \in HwThreads,
                      pc[h] = "out"
               PROVE  calls[g] >= calls[h]
    BY DEF NobodyLeavesEarly
  <2>1. calls[g] \in Nat /\ calls[h] \in Nat
    BY DEF IInv, TypeOK
  <2>2. CASE g # h
    BY <2>1, <2>2 DEF IInv, ScanInv, Announced
  <2>3. CASE g = h
    BY <2>1, <2>3
  <2> QED BY <2>2, <2>3
<1> QED BY <1>1, Invariance, PTL

\* lib.s, thread_barrier, the first sync: what was stored before a call is in
\* memory for everybody who is back from the same call.
THEOREM BarrierPublishes == Spec => []DataVisible
<1>1. IInv => DataVisible
  <2> SUFFICES ASSUME IInv, NEW h \in HwThreads, NEW g \in HwThreads,
                      pc[h] = "out"
               PROVE  data[g] >= calls[h]
    BY DEF DataVisible
  <2>1. calls[g] \in Nat /\ calls[h] \in Nat
    BY DEF IInv, TypeOK
  <2>2. CASE g # h
    <3>1. Announced(g) >= calls[h]
      BY <2>2 DEF IInv, ScanInv
    <3>2. data[g] \in Nat /\ data[g] >= Announced(g)
      <4>1. CASE dataBuf[g] # None
        BY <2>1, <4>1 DEF IInv, TypeOK, MemoryInv, Announced
      <4>2. CASE dataBuf[g] = None
        BY <2>1, <4>2 DEF IInv, TypeOK, MemoryInv, Announced
      <4> QED BY <4>1, <4>2
    <3> QED BY <2>1, <3>1, <3>2 DEF Announced
  <2>3. CASE g = h
    BY <2>1, <2>3 DEF IInv, MemoryInv
  <2> QED BY <2>2, <2>3
<1> QED BY <1>1, Invariance, PTL

\* lib.s, thread_barrier, the returned $v0: the result is the number of calls
\* made, until the counter wraps.
THEOREM BarrierResult == Spec => []ReturnsCallCount
<1>1. IInv => ReturnsCallCount
  BY DEF IInv, CallsInv, ReturnsCallCount
<1> QED BY <1>1, Invariance, PTL

\* lib.s, thread_barrier, the unmasked comparison of $v0 with a byte: nobody
\* comes back from the call that wraps its counter.
THEOREM WrappedCallStays == Spec => []NobodyLeavesWrappedCall
<1>1. IInv => NobodyLeavesWrappedCall
  BY DEF IInv, CallsInv, NobodyLeavesWrappedCall
<1> QED BY <1>1, Invariance, PTL

\* thread_barrier implements the abstract barrier its callers rely on: a
\* return is a step of Leave, a call a step of Enter, all else a stutter.
THEOREM BarrierRefinement == Spec => ImplementsAbstractBarrier
<1> DEFINE Left == [h \in HwThreads |->
                      IF pc[h] = "out" THEN calls[h] ELSE calls[h] - 1]
<1>1. Init => Abstract!Init
  BY DEF Init, Abstract!Init
<1>2. IInv /\ IInv' /\ [Next]_vars => [Abstract!Next]_(Abstract!vars)
  <2> SUFFICES ASSUME IInv, IInv', [Next]_vars
               PROVE  Abstract!Next \/ UNCHANGED <<calls, Left>>
    BY DEF Abstract!vars
  <2> USE DEF IInv, TypeOK
  <2>1. ASSUME NEW h \in HwThreads, Call(h) PROVE Abstract!Next
    <3>1. Left' = Left
      BY <2>1 DEF Call, Goto
    <3> QED BY <2>1, <3>1 DEF Call, Goto, Abstract!Next, Abstract!Enter
  <2>2. ASSUME NEW h \in HwThreads, Return(h) PROVE Abstract!Next
    <3>1. ASSUME NEW g \in HwThreads PROVE calls[g] >= calls[h]
      <4>1. calls[g] \in Nat /\ calls[h] \in Nat
        OBVIOUS
      <4>2. CASE g # h
        BY <2>2, <4>1, <4>2 DEF Return, Goto, ScanInv, Announced
      <4>3. CASE g = h
        BY <4>1, <4>3
      <4> QED BY <4>2, <4>3
    <3>2. Left' = [Left EXCEPT ![h] = calls[h]]
      BY <2>2 DEF Return, Goto
    <3>3. Left[h] < calls[h] /\ UNCHANGED calls
      BY <2>2 DEF Return, Goto
    <3> QED BY <3>1, <3>2, <3>3 DEF Abstract!Next, Abstract!Leave
  <2>3. ASSUME NEW h \in HwThreads,
               \/ SyncIn(h) \/ LoadFlag(h) \/ StoreFlag(h) \/ Scan(h) \/ Drain(h)
        PROVE  UNCHANGED <<calls, Left>>
    BY <2>3 DEF SyncIn, LoadFlag, StoreFlag, Scan, ScanAgain, ScanNext,
                ScanDone, Drain, DrainFlag, DrainData, Goto
  <2>4. CASE UNCHANGED vars
    BY <2>4 DEF vars
  <2> QED BY <2>1, <2>2, <2>3, <2>4 DEF Next, Barrier
<1> QED BY <1>1, <1>2, Invariance, PTL
        DEF Spec, ImplementsAbstractBarrier, Abstract!Spec
=============================================================================
