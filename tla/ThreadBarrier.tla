---------------------------- MODULE ThreadBarrier ----------------------------
(***************************************************************************)
(* The spinning barrier of lib.s (thread_barrier), with the hardware       *)
(* thread numbering it relies on (get_corethread_id) and the byte array    *)
(* reserved for it by mkBarrier (macros.s).                                *)
(*                                                                         *)
(* Every hardware thread repeatedly writes a word of its own (what a test  *)
(* computes before the barrier), calls the barrier and returns.  Memory is *)
(* weak: a store waits in the thread's store buffer and the two words a    *)
(* thread stores to may reach memory in either order; `sync' waits for the *)
(* buffer to empty.  Loads are made in program order and see the thread's  *)
(* own buffered store first.  One action is one access to shared memory,   *)
(* with the register-only instructions around it.                          *)
(***************************************************************************)
EXTENDS CoreThreads

CONSTANTS CounterMod,   \* values of one counter: 256, the counters are bytes
          MaxCalls      \* bound: calls one thread makes

ASSUME ConfigAssumption ==
  /\ CounterMod \in Nat \ {0, 1}
  /\ MaxCalls \in Nat

None == -1
Bytes == 0 .. CounterMod - 1

VARIABLES
  flags,    \* the barrier's byte array in memory
  data,     \* data[h]: the word h writes before each call, in memory
  flagBuf,  \* flagBuf[h]: h's buffered store to its byte, or None
  dataBuf,  \* dataBuf[h]: h's buffered store to its word, or None
  pc,       \* where h is in thread_barrier; "out" when it is in its caller
  v0,       \* register $v0: the incremented counter
  t0,       \* register $t0: the counter the scan looks at next
  calls     \* history: calls of the barrier h has begun

memory == <<flags, data, flagBuf, dataBuf>>
vars == <<flags, data, flagBuf, dataBuf, pc, v0, t0, calls>>

TypeOK ==
  /\ flags \in [0 .. max_thread_count - 1 -> Bytes]
  /\ data \in [HwThreads -> Nat]
  /\ flagBuf \in [HwThreads -> Bytes \cup {None}]
  /\ dataBuf \in [HwThreads -> Nat \cup {None}]
  /\ pc \in [HwThreads -> {"out", "sync_in", "load", "store", "scan", "sync_out"}]
  /\ v0 \in [HwThreads -> 0 .. CounterMod]
  /\ t0 \in [HwThreads -> 0 .. MaxCoreThreadId]
  /\ calls \in [HwThreads -> Nat]

Init ==
  /\ flags = [i \in 0 .. max_thread_count - 1 |-> 0]
  /\ data = [h \in HwThreads |-> 0]
  /\ flagBuf = [h \in HwThreads |-> None]
  /\ dataBuf = [h \in HwThreads |-> None]
  /\ pc = [h \in HwThreads |-> "out"]
  /\ v0 = [h \in HwThreads |-> 0]
  /\ t0 = [h \in HwThreads |-> 0]
  /\ calls = [h \in HwThreads |-> 0]

Goto(h, from, to) ==
  /\ pc[h] = from
  /\ pc' = [pc EXCEPT ![h] = to]

\* The caller stores its word and calls the barrier: bal get_corethread_id.
Call(h) ==
  /\ Goto(h, "out", "sync_in")
  /\ calls[h] < MaxCalls
  /\ calls' = [calls EXCEPT ![h] = @ + 1]
  /\ dataBuf' = [dataBuf EXCEPT ![h] = calls[h] + 1]
  /\ UNCHANGED <<flags, data, flagBuf, v0, t0>>

Drained(h) == flagBuf[h] = None /\ dataBuf[h] = None

SyncInNoWait(h) ==
  /\ Goto(h, "sync_in", "load")
  /\ UNCHANGED <<memory, v0, t0, calls>>

\* The first sync of thread_barrier.
SyncIn(h) ==
  /\ Goto(h, "sync_in", "load")
  /\ Drained(h)
  /\ UNCHANGED <<memory, v0, t0, calls>>

\* What a load by h of the byte with index i returns.
LoadByte(h, i) ==
  IF i = CoreThreadId(h) /\ flagBuf[h] # None THEN flagBuf[h] ELSE flags[i]

LoadFlagNoAdd(h) ==
  /\ Goto(h, "load", "store")
  /\ v0' = [v0 EXCEPT ![h] = LoadByte(h, CoreThreadId(h))]
  /\ UNCHANGED <<memory, t0, calls>>

\* lbu of the thread's own counter, and the add.
LoadFlag(h) ==
  /\ Goto(h, "load", "store")
  /\ v0' = [v0 EXCEPT ![h] = LoadByte(h, CoreThreadId(h)) + 1]
  /\ UNCHANGED <<memory, t0, calls>>

\* sb keeps the low byte of $v0 only; then barrier_loop starts the scan.
StoreFlag(h) ==
  /\ Goto(h, "store", "scan")
  /\ flagBuf' = [flagBuf EXCEPT ![h] = v0[h] % CounterMod]
  /\ t0' = [t0 EXCEPT ![h] = MaxCoreThreadId]
  /\ UNCHANGED <<flags, data, dataBuf, v0, calls>>

BehindByTwo(h, i) == v0[h] - LoadByte(h, i) > 1
BehindMasked(h, i) == (v0[h] % CounterMod) - LoadByte(h, i) > 0

\* bgtz of the difference: the thread looked at has not reached the barrier.
Behind(h, i) == v0[h] - LoadByte(h, i) > 0

\* One turn of thread_loop that restarts the scan (branch to barrier_loop).
ScanAgain(h) ==
  /\ pc[h] = "scan"
  /\ Behind(h, t0[h])
  /\ t0' = [t0 EXCEPT ![h] = MaxCoreThreadId]
  /\ UNCHANGED <<memory, pc, v0, calls>>

\* One turn of thread_loop that goes on to the next counter.
ScanNext(h) ==
  /\ pc[h] = "scan"
  /\ ~Behind(h, t0[h])
  /\ t0[h] > 0
  /\ t0' = [t0 EXCEPT ![h] = @ - 1]
  /\ UNCHANGED <<memory, pc, v0, calls>>

ScanDoneEarly(h) ==
  /\ Goto(h, "scan", "sync_out")
  /\ ~Behind(h, t0[h])
  /\ t0[h] <= 1
  /\ UNCHANGED <<memory, v0, t0, calls>>

\* The last turn of thread_loop: counter 0 has been seen.
ScanDone(h) ==
  /\ Goto(h, "scan", "sync_out")
  /\ ~Behind(h, t0[h])
  /\ t0[h] = 0
  /\ UNCHANGED <<memory, v0, t0, calls>>

\* The second sync, the epilogue and the return, with $v0 as the result.
Return(h) ==
  /\ Goto(h, "sync_out", "out")
  /\ Drained(h)
  /\ UNCHANGED <<memory, v0, t0, calls>>

\* The store buffer of h writes to memory, in either order.
DrainFlag(h) ==
  /\ flagBuf[h] # None
  /\ flags' = [flags EXCEPT ![CoreThreadId(h)] = flagBuf[h]]
  /\ flagBuf' = [flagBuf EXCEPT ![h] = None]
  /\ UNCHANGED <<data, dataBuf, pc, v0, t0, calls>>

DrainData(h) ==
  /\ dataBuf[h] # None
  /\ data' = [data EXCEPT ![h] = dataBuf[h]]
  /\ dataBuf' = [dataBuf EXCEPT ![h] = None]
  /\ UNCHANGED <<flags, flagBuf, pc, v0, t0, calls>>

Scan(h) == ScanAgain(h) \/ ScanNext(h) \/ ScanDone(h)
Barrier(h) == SyncIn(h) \/ LoadFlag(h) \/ StoreFlag(h) \/ Scan(h) \/ Return(h)
Drain(h) == DrainFlag(h) \/ DrainData(h)

Next == \E h \in HwThreads : Call(h) \/ Barrier(h) \/ Drain(h)

Spec == Init /\ [][Next]_vars

\* The processors run and their store buffers drain; every thread of the
\* test makes all of its calls.
Fairness ==
  \A h \in HwThreads :
    WF_vars(Call(h)) /\ WF_vars(Barrier(h)) /\ WF_vars(Drain(h))

FairSpec == Spec /\ Fairness

-----------------------------------------------------------------------------

\* A thread that is back from its k-th call finds that every thread has made
\* at least k calls: nobody passes the barrier early, not even when a fast
\* thread is already in the next call (lib.s, "equal or exceed our own").
NobodyLeavesEarly ==
  \A h, g \in HwThreads : pc[h] = "out" => calls[g] >= calls[h]

\* What a thread stored before its k-th call is in memory for every thread
\* that is back from its own k-th call: the first sync orders the store
\* before the counter, so no caller reads a stale word behind the barrier.
DataVisible ==
  \A h, g \in HwThreads : pc[h] = "out" => data[g] >= calls[h]

\* thread_barrier returns the number of times it has been called, as long as
\* the counters have not wrapped.
ReturnsCallCount ==
  \A h \in HwThreads : pc[h] = "out" => v0[h] = calls[h]

\* No thread returns from the call that wraps its byte: the incremented
\* register is compared unmasked, so the thread waits for its own counter
\* (the header comment: does not handle wrapping).
NobodyLeavesWrappedCall ==
  \A h \in HwThreads : pc[h] = "out" => calls[h] < CounterMod

\* Every call returns, up to the last but one that a byte can count.  The
\* last one it can count may not: a thread that is quick to make the next
\* call wraps its counter to 0 while a slow one still waits for it.
EveryCallReturns ==
  \A h \in HwThreads : \A k \in 1..(CounterMod - 2) :
    (calls[h] = k /\ pc[h] = "sync_in") ~> (calls[h] = k /\ pc[h] = "out")

\* The barrier implements what its callers rely on.
Abstract == INSTANCE AbstractBarrier WITH
  Threads <- HwThreads,
  entered <- calls,
  left <- [h \in HwThreads |-> IF pc[h] = "out" THEN calls[h] ELSE calls[h] - 1]

ImplementsAbstractBarrier == Abstract!Spec
=============================================================================
