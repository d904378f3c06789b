--------------------------- MODULE AbstractBarrier ---------------------------
(***************************************************************************)
(* What thread_barrier (lib.s) promises its callers: a call returns only   *)
(* after every hardware thread has made as many calls as the caller has.   *)
(* A thread may be at most one call ahead of the slowest one.              *)
(***************************************************************************)
EXTENDS Naturals

CONSTANTS Threads,      \* the hardware threads taking part
          MaxCalls      \* bound on the calls one thread makes

VARIABLES entered,      \* entered[h]: calls of the barrier h has begun
          left          \* left[h]: calls of the barrier h has returned from

vars == <<entered, left>>

Init ==
  /\ entered = [h \in Threads |-> 0]
  /\ left = [h \in Threads |-> 0]

Enter(h) ==
  /\ left[h] = entered[h]
  /\ entered[h] < MaxCalls
  /\ entered' = [entered EXCEPT ![h] = @ + 1]
  /\ UNCHANGED left

Leave(h) ==
  /\ left[h] < entered[h]
  /\ \A g \in Threads : entered[g] >= entered[h]
  /\ left' = [left EXCEPT ![h] = entered[h]]
  /\ UNCHANGED entered

Next == \E h \in Threads : Enter(h) \/ Leave(h)

Spec == Init /\ [][Next]_vars
=============================================================================
