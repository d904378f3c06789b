--------------------------- MODULE MCThreadBarrier ---------------------------
(***************************************************************************)
(* The barrier for TLC, together with the inductive invariant of its       *)
(* proofs, so that a run can check the invariant on small instances.       *)
(***************************************************************************)
EXTENDS ThreadBarrierProofs
=============================================================================
