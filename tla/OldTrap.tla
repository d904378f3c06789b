------------------------------- MODULE OldTrap -------------------------------
(***************************************************************************)
(* exception_count_handler (init.s), the handler of tests that begin with  *)
(* BEGIN_TEST_WITH_OLD_EXCEPTION_HANDLER: it counts the exception, clears  *)
(* a timer interrupt or skips the instruction, and returns; built with     *)
(* DIE_ON_EXCEPTION it ends the test once continue_after_exception, which  *)
(* the test sets, is used up.  Which of the two was built is chosen in     *)
(* Init.                                                                   *)
(***************************************************************************)
EXTENDS TrapCpu

CONSTANT MaxBudget           \* bound: values of continue_after_exception

ASSUME OldTrapAssumption == MaxBudget \in Nat

VARIABLES
  dieOnException,            \* built with DIE_ON_EXCEPTION
  userLocal,                 \* UserLocal: the exception count
  exception_count,           \* ... and its copy in memory
  continue_after_exception,  \* exceptions the test may still survive
  budget,                    \* history: what the test set it to
  died                       \* die_on_exception has been reached

handlerVars == <<dieOnException, userLocal, exception_count,
                 continue_after_exception, budget, died>>
vars == <<cpuVars, handlerVars>>

Init ==
  /\ CpuInit
  /\ dieOnException \in BOOLEAN
  /\ userLocal = 0 /\ exception_count = 0
  /\ budget \in 0 .. MaxBudget
  /\ continue_after_exception = budget
  /\ died = FALSE

MayContinueAtZero == continue_after_exception >= 0
MayContinue == continue_after_exception > 0

\* The entry, without DIE_ON_EXCEPTION.
EntryPlain ==
  /\ ~dieOnException
  /\ HandlerStep("entry", "count")
  /\ UNCHANGED <<pc, target, epc, ip7, handlerVars>>

\* With it: one skippable exception less,
EntryContinue ==
  /\ dieOnException /\ MayContinue
  /\ HandlerStep("entry", "count")
  /\ continue_after_exception' = continue_after_exception - 1
  /\ UNCHANGED <<pc, target, epc, ip7, dieOnException, userLocal,
                 exception_count, budget, died>>

EntryDieUnmapped ==
  /\ dieOnException /\ ~MayContinue
  /\ HandlerStep("entry", "die")
  /\ UNCHANGED <<pc, target, epc, ip7, handlerVars>>

\* ... or die_on_exception, which goes to finish with 0xbadc in $v0.
EntryDie ==
  /\ dieOnException /\ ~MayContinue
  /\ HandlerStep("entry", "die")
  /\ died' = TRUE
  /\ UNCHANGED <<pc, target, epc, ip7, dieOnException, userLocal, exception_count,
                 continue_after_exception, budget>>

CountNoCopy ==
  /\ HandlerStep("count", "cause")
  /\ userLocal' = userLocal + 1
  /\ UNCHANGED <<pc, target, epc, ip7, dieOnException, exception_count,
                 continue_after_exception, budget, died>>

\* The exception counter, in UserLocal and in memory.
Count ==
  /\ HandlerStep("count", "cause")
  /\ userLocal' = userLocal + 1
  /\ exception_count' = userLocal + 1
  /\ UNCHANGED <<pc, target, epc, ip7, dieOnException, continue_after_exception,
                 budget, died>>

ClearTimerAndSkip ==
  /\ HandlerStep("cause", "bump")
  /\ ip7
  /\ ip7' = FALSE
  /\ UNCHANGED <<pc, target, epc, handlerVars>>

\* Cause & 0x8000: a pending timer interrupt is cleared by writing Compare,
ClearTimer ==
  /\ HandlerStep("cause", "eret")
  /\ ip7
  /\ ip7' = FALSE
  /\ UNCHANGED <<pc, target, epc, handlerVars>>

\* ... and otherwise the handler goes to increment_pc:
NoTimer ==
  /\ HandlerStep("cause", "bump")
  /\ ~ip7
  /\ UNCHANGED <<pc, target, epc, ip7, handlerVars>>

\* EPC += 4.
IncrementPc ==
  /\ HandlerStep("bump", "eret")
  /\ epc' = epc + 1
  /\ UNCHANGED <<pc, target, ip7, handlerVars>>

Return ==
  /\ Eret("eret")
  /\ UNCHANGED handlerVars

Handler ==
  \/ EntryPlain \/ EntryContinue \/ EntryDie \/ Count \/ ClearTimer \/ NoTimer
  \/ IncrementPc \/ Return

Next == (Cpu /\ UNCHANGED handlerVars) \/ Handler

Spec == Init /\ [][Next]_vars

\* The processor and the handler run.
FairSpec == Spec /\ WF_vars(Cpu /\ UNCHANGED handlerVars) /\ WF_vars(Handler)

-----------------------------------------------------------------------------

\* No instruction is lost to a timer interrupt, wherever it strikes: every
\* plain instruction before pc has completed, or was jumped over by a taken
\* branch (init.s, the timer branch to skip_increment).
NothingSkippedUnexecuted ==
  hpc = "none" =>
    \A i \in 1 .. ProgLen :
      i < pc /\ program[i] = "ok" =>
        i \in ran \/ (i > 2 /\ program[i - 2] = "taken")

\* Both counts show every exception the handler returned from, interrupts
\* included (init.s, "Increment exception counter").
CountsEveryException ==
  hpc = "none" => userLocal = exceptions /\ exception_count = userLocal

\* With DIE_ON_EXCEPTION the test survives exactly the exceptions it asked
\* to survive, and dies at the next (init.s, continue_after_exception).
DiesWhenBudgetUsed ==
  /\ died => exceptions = budget + 1
  /\ dieOnException /\ hpc = "none" => exceptions <= budget

\* The program ends or dies: no exception is returned to for ever.
ProgramEnds == <>(died \/ (hpc = "none" /\ pc > ProgLen))
=============================================================================
