----------------------------- MODULE CoreThreads -----------------------------
(***************************************************************************)
(* The hardware threads of a processor and the numbering of them that      *)
(* lib.s computes (get_corethread_id) from the CoreId and ThreadId         *)
(* registers.  On gxemul, which has neither register, get_corethread_id    *)
(* answers as for one core with one thread.                                *)
(*                                                                         *)
(* In this and the other modules an operator placed just before a          *)
(* definition and named after it (CoreThreadIdNoMul) is a plausible        *)
(* mistake in that code.  No specification uses one; they show that the    *)
(* properties can fail.                                                    *)
(***************************************************************************)
EXTENDS Integers

CONSTANTS NumCores,     \* CP0 register 15 select 6, high half, plus 1
          NumThreads    \* CP0 register 15 select 7, high half, plus 1

max_thread_count == 32

ASSUME TopologyAssumption ==
  /\ NumCores \in Nat \ {0}
  /\ NumThreads \in Nat \ {0}
  /\ NumCores * NumThreads <= max_thread_count

\* A hardware thread is its core number and its thread number on the core.
HwThreads == (0 .. NumCores - 1) \X (0 .. NumThreads - 1)

\* The two results of get_corethread_id, $v0 and $v1.
CoreThreadIdNoMul(h) == h[1] + h[2]
CoreThreadId(h) == h[1] * NumThreads + h[2]

MaxCoreThreadId == NumCores * NumThreads - 1
=============================================================================
