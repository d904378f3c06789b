------------------------------- MODULE TrapCpu -------------------------------
(***************************************************************************)
(* The part of a MIPS hardware thread that the trap handlers of this       *)
(* repository deal with, as far as they use it: a short program with       *)
(* branches, delay slots and faulting instructions, the Cause, EPC and     *)
(* CapCause registers, exception entry, eret, and the timer interrupt.     *)
(* It is the environment of CountingTrap and OldTrap, and not itself code  *)
(* of the repository.                                                      *)
(*                                                                         *)
(* Addresses count instructions, so the code's "EPC += 4" is + 1 here.     *)
(***************************************************************************)
EXTENDS Integers, FiniteSets

CONSTANTS ProgLen,    \* bound: instructions of the program
          Branches,   \* the program may have branches
          MaxTimer    \* bound: how often the timer fires

ASSUME CpuAssumption ==
  ProgLen \in Nat \ {0} /\ Branches \in BOOLEAN /\ MaxTimer \in Nat

Int_ == 0       \* Cause.ExcCode of an interrupt,
Syscall == 8    \* of a system call,
Cop2 == 18      \* and of a capability exception
Codes == {4, Cop2}
CapCauses == {0, 515}   \* CapCause: exception code 2, register 3

Kinds == {"ok", "fault", "syscall"} \cup IF Branches THEN {"taken", "untaken"} ELSE {}
IsBranch(k) == k \in {"taken", "untaken"}

\* A delay slot holds no branch, and the program ends behind one.
Programs ==
  {p \in [1 .. ProgLen -> Kinds] :
     /\ ~IsBranch(p[ProgLen])
     /\ \A i \in 1 .. ProgLen - 1 : ~(IsBranch(p[i]) /\ IsBranch(p[i + 1]))}

VARIABLES
  program, pc,
  target,     \* where the branch goes whose delay slot pc is in, else 0
  hpc,        \* where the trap handler is; "none" outside it
  epc,
  excCode, bd, ce, ip7,   \* fields of Cause: ExcCode, BD, CE, timer pending
  capCause,
  timer,      \* history: how often the timer has fired
  faulting,   \* history: the instruction of the last exception
  faults,     \* history: faults[i]: exceptions that instruction i caused
  exceptions, \* history: exceptions taken, interrupts included
  ran         \* history: the instructions that have completed

cpuVars == <<program, pc, target, hpc, epc, excCode, bd, ce, ip7, capCause,
             timer, faulting, faults, exceptions, ran>>

CpuInit ==
  /\ program \in Programs
  /\ pc = 1 /\ target = 0 /\ epc = 0 /\ hpc = "none"
  /\ excCode = Int_ /\ bd = FALSE /\ ce = 0 /\ ip7 = FALSE /\ capCause = 0
  /\ timer = 0 /\ faulting = 0 /\ exceptions = 0
  /\ faults = [i \in 1 .. ProgLen |-> 0]
  /\ ran = {}

Running == hpc = "none" /\ pc <= ProgLen

NextPc == IF target # 0 THEN target ELSE pc + 1

\* An instruction that does not trap; a pending timer interrupt comes first.
Execute ==
  /\ Running /\ ~ip7
  /\ program[pc] \in {"ok", "taken", "untaken"}
  /\ pc' = NextPc
  /\ target' = CASE program[pc] = "taken" -> pc + 3
                 [] program[pc] = "untaken" -> pc + 2
                 [] OTHER -> 0
  /\ ran' = ran \cup {pc}
  /\ UNCHANGED <<program, hpc, epc, excCode, bd, ce, ip7, capCause, timer,
                 faulting, faults, exceptions>>

\* Exception entry: EPC is the branch when pc is in its delay slot.
Exception(code) ==
  /\ excCode' = code
  /\ bd' = (target # 0)
  /\ epc' = IF target # 0 THEN pc - 1 ELSE pc
  /\ faulting' = pc
  /\ exceptions' = exceptions + 1
  /\ hpc' = "entry"
  /\ UNCHANGED <<program, pc, target, ip7, timer, ran>>

Fault ==
  /\ Running /\ ~ip7
  /\ program[pc] \in {"fault", "syscall"}
  /\ \E code \in Codes, c \in {0, 2}, cc \in CapCauses :
       /\ program[pc] = "syscall" => c = 0 /\ cc = capCause
       /\ Exception(IF program[pc] = "syscall" THEN Syscall ELSE code)
       /\ ce' = c /\ capCause' = cc
  /\ faults' = [faults EXCEPT ![pc] = @ + 1]

TimerFires ==
  /\ timer < MaxTimer
  /\ timer' = timer + 1
  /\ ip7' = TRUE
  /\ UNCHANGED <<program, pc, target, hpc, epc, excCode, bd, ce, capCause,
                 faulting, faults, exceptions, ran>>

Interrupt ==
  /\ Running /\ ip7
  /\ Exception(Int_)
  /\ UNCHANGED <<ce, capCause, faults>>

Cpu == Execute \/ Fault \/ TimerFires \/ Interrupt

\* What a step of the handler leaves alone; `to' is where it goes next.
HandlerStep(from, to) ==
  /\ hpc = from
  /\ hpc' = to
  /\ UNCHANGED <<program, excCode, bd, ce, capCause, timer, faulting, faults,
                 exceptions, ran>>

\* eret.
Eret(from) ==
  /\ HandlerStep(from, "none")
  /\ pc' = epc
  /\ target' = 0
  /\ UNCHANGED <<epc, ip7>>

Halfword == 65536

\* dmfc0 of the 32-bit Cause register: the halfwords of the sign-extended
\* 64-bit value, the lowest first.
CauseReg ==
  LET sign == IF bd THEN Halfword - 1 ELSE 0 IN
  <<excCode * 4 + (IF ip7 THEN 32768 ELSE 0),
    ce * 4096 + (IF bd THEN 32768 ELSE 0), sign, sign>>
=============================================================================
