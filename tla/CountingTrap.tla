---------------------------- MODULE CountingTrap ----------------------------
(***************************************************************************)
(* The trap handler that BEGIN_TEST gives a test (macros.s,                *)
(* DEFINE_COUNTING_CHERI_TRAP_HANDLER with collect_compressed_trap_info):  *)
(* it counts the trap, leaves its description in $k1, and returns behind   *)
(* the trapping instruction, or ends the test on a system call.  The       *)
(* description is decoded by CompressedTrapInfo (beritest_tools.py).       *)
(* 64-bit registers are sequences of four halfwords, the lowest first.     *)
(***************************************************************************)
EXTENDS TrapCpu

\* The handler does not serve timer interrupts, and its packed description has
\* 16 bits for the count of traps.
ASSUME CountingTrapAssumption == MaxTimer = 0 /\ ProgLen < Halfword

VARIABLES
  userLocal,  \* UserLocal: the trap count
  v0, k1,     \* $v0 and $k1
  cp2,        \* Status: CP2 is enabled
  exited      \* the handler has jumped to finish

vars == <<cpuVars, userLocal, v0, k1, cp2, exited>>

Zero64 == <<0, 0, 0, 0>>

Init ==
  /\ CpuInit
  /\ userLocal = 0 /\ v0 = 0 /\ k1 = Zero64
  /\ cp2 \in BOOLEAN /\ exited = FALSE

\* dsll and dsrl by n halfwords.
ShiftLeft(r, n) == [i \in 1 .. 4 |-> IF i > n THEN r[i - n] ELSE 0]
ShiftRight(r, n) == [i \in 1 .. 4 |-> IF i + n <= 4 THEN r[i + n] ELSE 0]
\* or, of registers that have no halfword in common.
Or(r, s) == [i \in 1 .. 4 |-> r[i] + s[i]]
ToReg(n) == <<n % Halfword, 0, 0, 0>>

EntryCountsSyscall ==
  /\ HandlerStep("entry", IF excCode = Syscall THEN "finish" ELSE "collect")
  /\ userLocal' = IF excCode = Syscall THEN userLocal + 1 ELSE userLocal
  /\ UNCHANGED <<pc, target, epc, ip7, v0, k1, cp2, exited>>

\* The syscall check.
Entry ==
  /\ HandlerStep("entry", IF excCode = Syscall THEN "finish" ELSE "collect")
  /\ UNCHANGED <<pc, target, epc, ip7, userLocal, v0, k1, cp2, exited>>

CompressedInfoAt32(n) ==
  Or(ShiftRight(ShiftLeft(CauseReg, 2), 1),
     Or(IF cp2 THEN ToReg(capCause) ELSE Zero64, ShiftLeft(ToReg(n), 2)))

\* collect_compressed_trap_info: Cause goes to bits 16-47, CapCause to bits
\* 0-15 if CP2 is enabled, the new count to bits 48-63.
CompressedInfo(n) ==
  Or(ShiftRight(ShiftLeft(CauseReg, 2), 1),
     Or(IF cp2 THEN ToReg(capCause) ELSE Zero64, ShiftLeft(ToReg(n), 3)))

CollectInfo ==
  /\ HandlerStep("collect", "bump")
  /\ userLocal' = userLocal + 1
  /\ k1' = CompressedInfo(userLocal + 1)
  /\ v0' = (userLocal + 1) % Halfword
  /\ UNCHANGED <<pc, target, epc, ip7, cp2, exited>>

BumpEpcByOne ==
  /\ HandlerStep("bump", "eret")
  /\ epc' = epc + 1
  /\ UNCHANGED <<pc, target, ip7, userLocal, v0, k1, cp2, exited>>

\* Bit 47 of the description, Cause.BD, decides how far EPC moves.
BumpEpc ==
  /\ HandlerStep("bump", "eret")
  /\ epc' = IF k1[3] \div 32768 = 1 THEN epc + 2 ELSE epc + 1
  /\ UNCHANGED <<pc, target, ip7, userLocal, v0, k1, cp2, exited>>

Return ==
  /\ Eret("eret")
  /\ UNCHANGED <<userLocal, v0, k1, cp2, exited>>

ExitTestUnmapped ==
  /\ ~exited
  /\ HandlerStep("finish", "finish")
  /\ v0' = userLocal
  /\ UNCHANGED <<pc, target, epc, ip7, userLocal, k1, cp2, exited>>

\* .Lsyscall: the count goes to $v0 and the handler jumps to finish.
ExitTest ==
  /\ ~exited
  /\ HandlerStep("finish", "finish")
  /\ v0' = userLocal
  /\ exited' = TRUE
  /\ UNCHANGED <<pc, target, epc, ip7, userLocal, k1, cp2>>

\* clear_counting_exception_handler_regs, by the test between instructions.
ClearInfo ==
  /\ hpc = "none" /\ k1 # Zero64
  /\ k1' = Zero64
  /\ UNCHANGED <<cpuVars, userLocal, v0, cp2, exited>>

Handler == Entry \/ CollectInfo \/ BumpEpc \/ Return \/ ExitTest

Next ==
  \/ Cpu /\ UNCHANGED <<userLocal, v0, k1, cp2, exited>>
  \/ Handler
  \/ ClearInfo

Spec == Init /\ [][Next]_vars

\* The processor and the handler run.
FairSpec == Spec /\ WF_vars(Cpu /\ UNCHANGED <<userLocal, v0, k1, cp2, exited>>)
                 /\ WF_vars(Handler)

-----------------------------------------------------------------------------

\* CompressedTrapInfo of beritest_tools.py.
Decode(r) ==
  [capreg     |-> r[1] % 256,
   capcause   |-> r[1] \div 256,
   cause      |-> (r[2] \div 4) % 32,
   bdelay     |-> r[3] \div 32768 = 1,
   trap_count |-> r[4]]

\* Traps taken: the faults of all instructions.  A system call ends the
\* program, so at most the last exception is one.
TrapsTaken ==
  Cardinality({x \in (1 .. ProgLen) \X (1 .. 2 * ProgLen) :
                 program[x[1]] = "fault" /\ x[2] <= faults[x[1]]})

\* What the decoder finds in $k1 after a trap is the exception the processor
\* took: its code, its delay slot flag, its capability cause (when CP2 is
\* enabled) and its number (macros.s packs, beritest_tools.py unpacks).
InfoDecodesToTrap ==
  hpc \in {"bump", "eret"} =>
    Decode(k1) = [capreg |-> IF cp2 THEN capCause % 256 ELSE 0,
                  capcause |-> IF cp2 THEN capCause \div 256 ELSE 0,
                  cause |-> excCode, bdelay |-> bd, trap_count |-> TrapsTaken]

\* The handler returns to the instruction behind the one that trapped, also
\* from a delay slot, so no trapping instruction is run again and none
\* behind it is lost (macros.s, .Lskip_branch_and_delay_slot).
ResumesBehindFault ==
  [][hpc = "eret" /\ hpc' = "none" => pc' = faulting + 1]_vars

\* Every trapping instruction is counted once: none traps a second time,
\* outside the handler the count is the number of traps, and a test that
\* exits by a system call ends with that number in $v0, the system call not
\* counted (macros.s, the trap handler and its exit).
CountedOnce ==
  /\ \A i \in 1 .. ProgLen : faults[i] <= 1
  /\ hpc = "none" => userLocal = TrapsTaken
  /\ exited => v0 = TrapsTaken

\* The program ends, or exits, however many of its instructions trap.
ProgramEnds == <>(exited \/ (hpc = "none" /\ pc > ProgLen))

=============================================================================
