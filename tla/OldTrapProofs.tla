---------------------------- MODULE OldTrapProofs ----------------------------
(***************************************************************************)
(* Proofs about exception_count_handler for programs of every length, any  *)
(* number of timer interrupts and any budget.  The inductive invariant     *)
(* says where EPC can point at each step of the handler, and that an       *)
(* interrupt is still pending when the handler reads Cause (SkipInv); and  *)
(* what both counts and the budget show at each step (CountInv).           *)
(***************************************************************************)
EXTENDS OldTrap, TLAPS

InHandler == {"entry", "count", "cause", "bump", "eret", "die"}

OldTypeOK ==
  /\ program \in Programs
  /\ pc \in Nat \ {0} /\ target \in Nat
  /\ target # 0 =>
       /\ pc \in 2 .. ProgLen
       /\ IsBranch(program[pc - 1])
       /\ target = IF program[pc - 1] = "taken" THEN pc + 2 ELSE pc + 1
  /\ hpc \in InHandler \cup {"none"}
  /\ epc \in Int
  /\ ip7 \in BOOLEAN /\ dieOnException \in BOOLEAN
  /\ {userLocal, exceptions, continue_after_exception, budget} \subseteq Nat

\* Instruction i has completed, or a taken branch has jumped over it.
Accounted(i) == i \in ran \/ (i > 2 /\ program[i - 2] = "taken")

SkipInv ==
  /\ \A i \in 1 .. ProgLen : i < pc /\ program[i] = "ok" => Accounted(i)
  /\ hpc \in {"entry", "count", "cause"} /\ excCode = Int_ => ip7
  /\ hpc \in {"entry", "count", "cause"} /\ excCode # Int_ => program[pc] # "ok"
  /\ hpc \in {"entry", "count", "cause", "bump"} => epc \in {pc, pc - 1} /\ epc >= 1
  /\ hpc = "bump" => program[pc] # "ok"
  /\ hpc = "eret" => /\ epc >= 1 /\ epc <= pc + 1
                     /\ epc = pc + 1 => program[pc] # "ok"

CountInv ==
  /\ exceptions = userLocal + (IF hpc \in {"entry", "count", "die"} THEN 1 ELSE 0)
  /\ exception_count = userLocal
  /\ dieOnException =>
       continue_after_exception + exceptions =
         budget + (IF hpc \in {"entry", "die"} THEN 1 ELSE 0)
  /\ hpc = "die" => continue_after_exception = 0 /\ dieOnException
  /\ died => hpc = "die"

OldInv == OldTypeOK /\ SkipInv /\ CountInv

-----------------------------------------------------------------------------

\* A test starts with nothing executed and nothing counted.
LEMMA OldInvInit == Init => OldInv
<1> SUFFICES ASSUME Init PROVE OldInv
  OBVIOUS
<1>1. ip7 \in BOOLEAN /\ dieOnException \in BOOLEAN
  BY DEF Init, CpuInit
<1>2. OldTypeOK
  BY <1>1, OldTrapAssumption DEF Init, CpuInit, OldTypeOK
<1>3. SkipInv
  BY DEF Init, CpuInit, SkipInv
<1>4. CountInv
  BY OldTrapAssumption DEF Init, CpuInit, CountInv
<1> QED BY <1>2, <1>3, <1>4 DEF OldInv

\* An instruction that completes is accounted for, and so is the one that a
\* taken branch jumps over when its delay slot completes.
LEMMA OldExecute ==
  ASSUME OldInv, Execute, UNCHANGED handlerVars
  PROVE  OldInv'
<1> USE DEF OldInv, Execute, Running, NextPc, handlerVars
<1>0. ProgLen \in Nat \ {0}
  BY CpuAssumption
<1>1. pc \in 1 .. ProgLen /\ program[pc] \in {"ok", "taken", "untaken"}
  BY <1>0 DEF OldTypeOK
<1>2. OldTypeOK'
  <2>1. CASE target # 0
    <3>1. ~IsBranch(program[pc])
      <4>1. pc - 1 \in 1 .. ProgLen - 1 /\ IsBranch(program[pc - 1])
        BY <1>0, <2>1 DEF OldTypeOK
      <4>2. ~(IsBranch(program[pc - 1]) /\ IsBranch(program[(pc - 1) + 1]))
        BY <4>1 DEF OldTypeOK, Programs
      <4> QED BY <1>1, <4>1, <4>2
    <3>2. target' = 0 /\ pc' \in Nat \ {0}
      BY <2>1, <3>1 DEF OldTypeOK, IsBranch
    <3> QED BY <3>2 DEF OldTypeOK
  <2>2. CASE target = 0 /\ IsBranch(program[pc])
    <3>1. pc # ProgLen
      BY <2>2 DEF OldTypeOK, Programs
    <3>2. pc' = pc + 1 /\ target' = IF program[pc] = "taken" THEN pc + 3 ELSE pc + 2
      BY <2>2 DEF IsBranch
    <3>3. pc' - 1 = pc /\ pc' \in 2 .. ProgLen /\ pc' + 2 = pc + 3 /\ pc' + 1 = pc + 2
      BY <1>0, <1>1, <3>1, <3>2
    <3> QED BY <1>1, <2>2, <3>2, <3>3 DEF OldTypeOK
  <2>3. CASE target = 0 /\ ~IsBranch(program[pc])
    <3>1. target' = 0 /\ pc' \in Nat \ {0}
      BY <1>1, <2>3 DEF IsBranch
    <3> QED BY <3>1 DEF OldTypeOK
  <2> QED BY <2>1, <2>2, <2>3
<1>3. SkipInv'
  <2>1. ASSUME NEW i \in 1 .. ProgLen, i < pc', program[i] = "ok" PROVE Accounted(i)'
    <3>1. CASE i < pc
      BY <2>1, <3>1 DEF SkipInv, Accounted
    <3>2. CASE i = pc
      BY <3>2 DEF Accounted
    <3>3. CASE i > pc
      <4>1. target # 0 /\ target = pc + 2 /\ program[pc - 1] = "taken" /\ pc >= 2
        BY <1>1, <2>1, <3>3 DEF OldTypeOK
      <4>2. i - 2 = pc - 1 /\ i > 2
        BY <1>1, <2>1, <3>3, <4>1
      <4> QED BY <4>1, <4>2 DEF Accounted
    <3> QED BY <1>1, <3>1, <3>2, <3>3
  <2> QED BY <2>1 DEF SkipInv
<1>4. CountInv'
  BY DEF CountInv
<1> QED BY <1>2, <1>3, <1>4

\* Exception entry: EPC points to the instruction, or to the branch before it.
LEMMA OldException ==
  ASSUME OldInv, NEW code, Running, Exception(code), UNCHANGED handlerVars,
         code = Int_ => ip7, code # Int_ => program[pc] # "ok"
  PROVE  OldInv'
<1> USE DEF OldInv, Running, Exception, handlerVars
<1>1. OldTypeOK'
  BY DEF OldTypeOK, InHandler
<1>2. SkipInv'
  <2>1. epc' \in {pc, pc - 1} /\ epc' >= 1
    BY DEF OldTypeOK
  <2> QED BY <2>1 DEF SkipInv, Accounted
<1>3. CountInv'
  BY DEF OldTypeOK, CountInv
<1> QED BY <1>1, <1>2, <1>3

\* Every step keeps the invariant.
LEMMA OldInvNext == OldInv /\ [Next]_vars => OldInv'
<1> SUFFICES ASSUME OldInv, [Next]_vars PROVE OldInv'
  OBVIOUS
<1> USE DEF OldInv
<1>1. CASE Execute /\ UNCHANGED handlerVars
  BY <1>1, OldExecute
<1>2. CASE Fault /\ UNCHANGED handlerVars
  <2>1. PICK code \in Codes \cup {Syscall} : Exception(code)
    BY <1>2 DEF Fault
  <2>2. Running /\ program[pc] # "ok" /\ code # Int_
    BY <1>2 DEF Fault, Codes, Cop2, Syscall, Int_
  <2> QED BY <1>2, <2>1, <2>2, OldException
<1>3. CASE Interrupt /\ UNCHANGED handlerVars
  BY <1>3, OldException DEF Interrupt
<1>4. CASE TimerFires /\ UNCHANGED handlerVars
  <2> USE <1>4 DEF TimerFires, handlerVars
  <2>1. OldTypeOK'
    BY DEF OldTypeOK
  <2>2. SkipInv' /\ CountInv'
    BY DEF SkipInv, Accounted, CountInv
  <2> QED BY <2>1, <2>2
<1>5. CASE EntryPlain
  <2> USE <1>5 DEF EntryPlain, HandlerStep, handlerVars
  <2>1. OldTypeOK'
    BY DEF OldTypeOK, InHandler
  <2>2. SkipInv' /\ CountInv'
    BY DEF OldTypeOK, SkipInv, Accounted, CountInv
  <2> QED BY <2>1, <2>2
<1>6. CASE EntryContinue
  <2> USE <1>6 DEF EntryContinue, HandlerStep, MayContinue
  <2>1. OldTypeOK'
    BY DEF OldTypeOK, InHandler
  <2>2. SkipInv' /\ CountInv'
    BY DEF OldTypeOK, SkipInv, Accounted, CountInv
  <2> QED BY <2>1, <2>2
<1>7. CASE EntryDie
  <2> USE <1>7 DEF EntryDie, HandlerStep, MayContinue
  <2>1. OldTypeOK'
    BY DEF OldTypeOK, InHandler
  <2>2. SkipInv' /\ CountInv'
    BY DEF OldTypeOK, SkipInv, Accounted, CountInv
  <2> QED BY <2>1, <2>2
<1>8. CASE Count
  <2> USE <1>8 DEF Count, HandlerStep
  <2>1. OldTypeOK'
    BY DEF OldTypeOK, InHandler
  <2>2. SkipInv' /\ CountInv'
    BY DEF OldTypeOK, SkipInv, Accounted, CountInv
  <2> QED BY <2>1, <2>2
<1>9. CASE ClearTimer
  <2> USE <1>9 DEF ClearTimer, HandlerStep, handlerVars
  <2>1. OldTypeOK'
    BY DEF OldTypeOK, InHandler
  <2>2. SkipInv' /\ CountInv'
    BY DEF OldTypeOK, SkipInv, Accounted, CountInv
  <2> QED BY <2>1, <2>2
<1>10. CASE NoTimer
  <2> USE <1>10 DEF NoTimer, HandlerStep, handlerVars
  <2>1. OldTypeOK'
    BY DEF OldTypeOK, InHandler
  <2>2. SkipInv' /\ CountInv'
    BY DEF OldTypeOK, SkipInv, Accounted, CountInv
  <2> QED BY <2>1, <2>2
<1>11. CASE IncrementPc
  <2> USE <1>11 DEF IncrementPc, HandlerStep, handlerVars
  <2>1. OldTypeOK'
    BY DEF OldTypeOK, InHandler
  <2>2. SkipInv' /\ CountInv'
    BY DEF OldTypeOK, SkipInv, Accounted, CountInv
  <2> QED BY <2>1, <2>2
<1>12. CASE Return
  <2> USE <1>12 DEF Return, Eret, HandlerStep, handlerVars
  <2>1. OldTypeOK'
    BY DEF OldTypeOK, SkipInv
  <2>2. SkipInv'
    <3>1. ASSUME NEW i \in 1 .. ProgLen, i < pc', program[i] = "ok" PROVE Accounted(i)
      <4>1. i < pc
        BY <3>1 DEF OldTypeOK, SkipInv
      <4> QED BY <3>1, <4>1 DEF SkipInv
    <3> QED BY <3>1 DEF SkipInv, Accounted
  <2>3. CountInv'
    BY DEF CountInv
  <2> QED BY <2>1, <2>2, <2>3
<1>13. CASE UNCHANGED vars
  <2> USE <1>13 DEF vars, cpuVars, handlerVars
  <2>1. OldTypeOK'
    BY DEF OldTypeOK
  <2>2. SkipInv' /\ CountInv'
    BY DEF SkipInv, Accounted, CountInv
  <2> QED BY <2>1, <2>2
<1> QED
  BY <1>1, <1>2, <1>3, <1>4, <1>5, <1>6, <1>7, <1>8, <1>9, <1>10, <1>11, <1>12, <1>13
  DEF Next, Cpu, Handler

-----------------------------------------------------------------------------

\* The invariant holds for every program and every timing of the interrupts.
THEOREM OldInvariance == Spec => []OldInv
BY OldInvInit, OldInvNext, PTL DEF Spec

\* A timer interrupt at any point loses no instruction: the handler skips one
\* only if it trapped (init.s, the branch to skip_increment).
THEOREM NoInstructionLost == Spec => []NothingSkippedUnexecuted
<1>1. OldInv => NothingSkippedUnexecuted
  BY DEF OldInv, SkipInv, Accounted, NothingSkippedUnexecuted
<1> QED BY <1>1, OldInvariance, PTL

\* Both counts show every exception that was returned from, interrupts
\* included (init.s, exception_count_handler).
THEOREM EveryExceptionCounted == Spec => []CountsEveryException
<1>1. OldInv => CountsEveryException
  BY DEF OldInv, OldTypeOK, CountInv, CountsEveryException
<1> QED BY <1>1, OldInvariance, PTL

\* A test dies exactly at the first exception beyond the budget it has set
\* (init.s, continue_after_exception).
THEOREM BudgetKept == Spec => []DiesWhenBudgetUsed
<1>1. OldInv => DiesWhenBudgetUsed
  BY DEF OldInv, OldTypeOK, CountInv, DiesWhenBudgetUsed
<1> QED BY <1>1, OldInvariance, PTL

-----------------------------------------------------------------------------
(***************************************************************************)
(* Termination.                                                            *)
(***************************************************************************)
\* Before it is moved, EPC is the instruction, or the branch before its slot.
ResumeInv ==
  /\ timer \in Nat
  /\ hpc \in {"entry", "count", "cause", "bump"} => epc = IF target # 0 THEN pc - 1 ELSE pc

\* Where the program goes on, and whether in a delay slot.
ResumeAt == IF hpc = "eret" THEN epc ELSE pc
InSlot == hpc # "eret" /\ target # 0

Stages == <<"eret", "none", "entry", "die", "count", "cause", "bump">>
Onward(p, q) == \E i, j \in 1 .. 7 : i < j /\ p = Stages[i] /\ q = Stages[j]

\* A step uses up a timer interrupt, clears one, or moves the program on: to
\* a later instruction, out of a delay slot, or to the next stage of the
\* handler.
GoesOn ==
  \/ timer < timer' /\ timer' <= MaxTimer
  \/ timer' = timer /\ ip7 /\ ~ip7'
  \/ /\ timer' = timer /\ ip7' = ip7
     /\ \/ ResumeAt < ResumeAt'
        \/ ResumeAt' = ResumeAt /\ InSlot /\ ~InSlot'
        \/ ResumeAt' = ResumeAt /\ InSlot' = InSlot /\ Onward(hpc, hpc')

\* EPC keeps pointing there until the handler moves it.
LEMMA ResumeNext == OldInv /\ ResumeInv /\ [Next]_vars => ResumeInv'
<1> SUFFICES ASSUME OldInv, ResumeInv, [Next]_vars PROVE ResumeInv'
  OBVIOUS
<1>1. CASE Execute
  BY <1>1 DEF Execute, Running, ResumeInv
<1>2. CASE Fault \/ Interrupt
  BY <1>2 DEF Fault, Interrupt, Exception, ResumeInv
<1>3. CASE TimerFires
  BY <1>3 DEF TimerFires, ResumeInv
<1>4. CASE Handler
  BY <1>4 DEF Handler, EntryPlain, EntryContinue, EntryDie, Count, ClearTimer, NoTimer,
              IncrementPc, Return, Eret, HandlerStep, ResumeInv
<1>5. CASE UNCHANGED vars
  BY <1>5 DEF vars, cpuVars, ResumeInv
<1> QED BY <1>1, <1>2, <1>3, <1>4, <1>5 DEF Next, Cpu

\* A fault in a delay slot is returned to once, outside the slot.
LEMMA StepGoesOn == OldInv /\ ResumeInv /\ Next => GoesOn
<1> SUFFICES ASSUME OldInv, ResumeInv, Next PROVE GoesOn
  OBVIOUS
<1>1. /\ pc \in Nat \ {0} /\ target \in Nat /\ epc \in Int /\ timer \in Nat /\ MaxTimer \in Nat
      /\ target # 0 => target > pc
  BY CpuAssumption DEF OldInv, OldTypeOK, ResumeInv
<1>2. /\ Onward("none", "entry") /\ Onward("entry", "count") /\ Onward("entry", "die")
      /\ Onward("count", "cause") /\ Onward("cause", "bump") /\ Onward("eret", "none")
  BY DEF Onward, Stages
<1>3. CASE Execute
  <2>1. ResumeAt < ResumeAt'
    BY <1>1, <1>3 DEF Execute, Running, NextPc, ResumeAt
  <2> QED BY <1>3, <2>1 DEF Execute, GoesOn
<1>4. CASE Fault \/ Interrupt
  <2>1. hpc = "none" /\ hpc' = "entry" /\ UNCHANGED <<pc, target, ip7, timer>>
    BY <1>4 DEF Fault, Interrupt, Exception, Running
  <2> QED BY <1>2, <2>1 DEF GoesOn, ResumeAt, InSlot
<1>5. CASE TimerFires
  <2>1. timer < timer' /\ timer' <= MaxTimer
    BY <1>1, <1>5 DEF TimerFires
  <2> QED BY <2>1 DEF GoesOn
<1>6. CASE EntryPlain \/ EntryContinue \/ EntryDie \/ Count \/ NoTimer
  <2>1. /\ UNCHANGED <<pc, target, ip7, timer>> /\ Onward(hpc, hpc')
        /\ hpc # "eret" /\ hpc' # "eret"
    BY <1>2, <1>6 DEF EntryPlain, EntryContinue, EntryDie, Count, NoTimer, HandlerStep
  <2> QED BY <2>1 DEF GoesOn, ResumeAt, InSlot
<1>7. CASE ClearTimer
  BY <1>7 DEF ClearTimer, HandlerStep, GoesOn
<1>8. CASE IncrementPc
  <2>1. /\ hpc = "bump" /\ hpc' = "eret" /\ UNCHANGED <<ip7, timer>>
        /\ epc' = IF target # 0 THEN pc ELSE pc + 1
    BY <1>1, <1>8 DEF IncrementPc, HandlerStep, ResumeInv
  <2> QED BY <1>1, <2>1 DEF GoesOn, ResumeAt, InSlot
<1>9. CASE Return
  <2>1. /\ hpc = "eret" /\ hpc' = "none" /\ UNCHANGED <<ip7, timer>> /\ pc' = epc /\ target' = 0
    BY <1>9 DEF Return, Eret, HandlerStep
  <2> QED BY <1>2, <2>1 DEF GoesOn, ResumeAt, InSlot
<1> QED BY <1>3, <1>4, <1>5, <1>6, <1>7, <1>8, <1>9 DEF Next, Cpu, Handler

\* No exception is returned to for ever, whenever the timer strikes: but for
\* timer interrupts, of which there are finitely many, every step moves the
\* program on, although an interrupted or faulting delay slot sends it back to
\* the branch or to the instruction (init.s, exception_count_handler).  It is
\* the safe half of ProgramEnds.
THEOREM ProgramGoesOn == Spec => [][GoesOn]_vars
<1>1. Init => ResumeInv
  BY DEF Init, CpuInit, ResumeInv
<1>2. OldInv /\ ResumeInv /\ [Next]_vars => [GoesOn]_vars
  BY StepGoesOn
<1> QED BY <1>1, <1>2, ResumeNext, OldInvariance, PTL DEF Spec
=============================================================================
