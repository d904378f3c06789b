------------------------- MODULE CountingTrapProofs -------------------------
(***************************************************************************)
(* Proofs about the counting trap handler for programs of every length up  *)
(* to the capacity of the packed count.  The inductive invariant relates   *)
(* EPC, the delay slot flag and the packed description to the instruction  *)
(* that trapped (ReturnInv, InfoInv), and the counts to the instructions   *)
(* behind which the program is (CountInv).                                 *)
(***************************************************************************)
EXTENDS CountingTrap, FiniteSetTheorems, TLAPS

InHandler == {"entry", "collect", "bump", "eret", "finish"}

TrapTypeOK ==
  /\ program \in Programs
  /\ pc \in Nat \ {0} /\ target \in Nat
  /\ target # 0 => target > pc /\ pc \in 2 .. ProgLen /\ IsBranch(program[pc - 1])
  /\ hpc \in InHandler \cup {"none"}
  /\ epc \in Int /\ faulting \in Int
  /\ excCode \in Codes \cup {Int_, Syscall} /\ ce \in {0, 2} /\ capCause \in CapCauses
  /\ bd \in BOOLEAN /\ ip7 = FALSE /\ timer = 0
  /\ faults \in [1 .. ProgLen -> {0, 1}]
  /\ userLocal \in Nat
  /\ exited \in BOOLEAN

\* From the exception to the return.
ReturnInv ==
  /\ hpc \in InHandler =>
       /\ pc \in 1 .. ProgLen /\ faulting = pc
       /\ program[pc] \in {"fault", "syscall"}
       /\ excCode = Syscall <=> program[pc] = "syscall"
       /\ excCode # Int_
  /\ hpc \in {"collect", "bump", "eret"} => program[pc] = "fault"
  /\ hpc = "finish" => program[pc] = "syscall"
  /\ hpc \in {"entry", "collect", "bump"} => epc = IF bd THEN faulting - 1 ELSE faulting
  /\ hpc = "eret" => epc = faulting + 1
  /\ exited => hpc = "finish"

InfoInv ==
  hpc \in {"bump", "eret"} =>
    /\ k1[1] = (IF cp2 THEN capCause ELSE 0)
    /\ k1[2] = excCode * 4
    /\ k1[3] = ce * 4096 + (IF bd THEN 32768 ELSE 0)
    /\ k1[4] = userLocal % Halfword

\* The trap in progress, before it is counted.
Uncounted == IF hpc \in {"entry", "collect"} /\ program[pc] = "fault" THEN 1 ELSE 0

CountInv ==
  /\ \A i \in 1 .. ProgLen : (i > pc \/ (i = pc /\ hpc = "none")) => faults[i] = 0
  /\ userLocal + Uncounted = TrapsTaken
  /\ exited => v0 = userLocal

TrapInv == TrapTypeOK /\ ReturnInv /\ InfoInv /\ CountInv

-----------------------------------------------------------------------------

Trapped ==
  {x \in (1 .. ProgLen) \X (1 .. 2 * ProgLen) :
     program[x[1]] = "fault" /\ x[2] <= faults[x[1]]}

\* As long as nothing traps twice, there are at most as many traps as
\* instructions, so their number fits the 16 bits the handler packs it in.
LEMMA TrapsFit ==
  ASSUME faults \in [1 .. ProgLen -> {0, 1}]
  PROVE  /\ IsFiniteSet(Trapped)
         /\ TrapsTaken \in 0 .. ProgLen
<1>1. ProgLen \in Nat \ {0}
  BY CpuAssumption
<1>2. IsFiniteSet(1 .. ProgLen) /\ Cardinality(1 .. ProgLen) = ProgLen
  <2>1. 1 \in Int /\ ProgLen \in Int /\ ~(1 > ProgLen)
    BY <1>1
  <2>2. /\ IsFiniteSet(1 .. ProgLen)
        /\ Cardinality(1 .. ProgLen) = IF 1 > ProgLen THEN 0 ELSE ProgLen - 1 + 1
    BY <2>1, FS_Interval
  <2> QED BY <1>1, <2>1, <2>2
<1>3. /\ IsFiniteSet((1 .. ProgLen) \X {1})
      /\ Cardinality((1 .. ProgLen) \X {1}) = ProgLen
  <2>1. IsFiniteSet({1}) /\ Cardinality({1}) = 1
    BY FS_Singleton
  <2>2. /\ IsFiniteSet((1 .. ProgLen) \X {1})
        /\ Cardinality((1 .. ProgLen) \X {1}) = Cardinality(1 .. ProgLen) * Cardinality({1})
    BY <1>2, <2>1, FS_Product
  <2> QED BY <1>1, <1>2, <2>1, <2>2
<1>4. Trapped \in SUBSET ((1 .. ProgLen) \X {1})
  BY <1>1 DEF Trapped
<1>5. IsFiniteSet(Trapped) /\ Cardinality(Trapped) <= ProgLen
  BY <1>3, <1>4, FS_Subset
<1>6. Cardinality(Trapped) \in Nat
  BY <1>5, FS_CardinalityType
<1> QED BY <1>1, <1>5, <1>6 DEF TrapsTaken, Trapped

\* A first fault at p adds one trap, a system call none.
LEMMA TrapAdded ==
  ASSUME faults \in [1 .. ProgLen -> {0, 1}],
         NEW p \in 1 .. ProgLen, faults[p] = 0,
         faults' = [faults EXCEPT ![p] = @ + 1], program' = program
  PROVE  TrapsTaken' = TrapsTaken + (IF program[p] = "fault" THEN 1 ELSE 0)
<1>0. TrapsTaken = Cardinality(Trapped) /\ TrapsTaken' = Cardinality(Trapped')
  BY DEF TrapsTaken, Trapped
<1>1. ProgLen \in Nat \ {0} /\ IsFiniteSet(Trapped)
  BY CpuAssumption, TrapsFit
<1>2. \A i \in 1 .. ProgLen : faults'[i] = IF i = p THEN 1 ELSE faults[i]
  OBVIOUS
<1>3. CASE program[p] = "fault"
  <2>1. Trapped' = Trapped \cup {<<p, 1>>}
    BY <1>1, <1>2, <1>3 DEF Trapped
  <2>2. <<p, 1>> \notin Trapped
    BY DEF Trapped
  <2>3. Cardinality(Trapped \cup {<<p, 1>>}) = Cardinality(Trapped) + 1
    BY <1>1, <2>2, FS_AddElement
  <2> QED BY <1>0, <1>3, <2>1, <2>3
<1>4. CASE program[p] # "fault"
  <2>1. Trapped' = Trapped
    BY <1>1, <1>2, <1>4 DEF Trapped
  <2>2. Cardinality(Trapped) \in Nat
    BY <1>1, FS_CardinalityType
  <2> QED BY <1>0, <1>4, <2>1, <2>2
<1> QED BY <1>3, <1>4

\* collect_compressed_trap_info packs Cause, CapCause and the count in fields
\* of their own, also when the sign of Cause fills the upper half.
LEMMA Packed ==
  ASSUME TrapTypeOK, NEW n \in Nat
  PROVE  /\ CompressedInfo(n)[1] = (IF cp2 THEN capCause ELSE 0)
         /\ CompressedInfo(n)[2] = excCode * 4
         /\ CompressedInfo(n)[3] = ce * 4096 + (IF bd THEN 32768 ELSE 0)
         /\ CompressedInfo(n)[4] = n % Halfword
<1>1. /\ capCause \in {0, 515} /\ excCode \in {0, 4, 8, 18} /\ ce \in {0, 2}
      /\ ip7 = FALSE
  BY DEF TrapTypeOK, CapCauses, Codes, Cop2, Int_, Syscall
<1>2. n % Halfword \in Nat /\ capCause % Halfword = capCause
  BY <1>1 DEF Halfword
<1> DEFINE c == ShiftRight(ShiftLeft(CauseReg, 2), 1)
           k == IF cp2 THEN ToReg(capCause) ELSE Zero64
           m == ShiftLeft(ToReg(n), 3)
<1>3. /\ CauseReg[1] = excCode * 4
      /\ CauseReg[2] = ce * 4096 + (IF bd THEN 32768 ELSE 0)
  BY <1>1 DEF CauseReg
<1>4. c[1] = 0 /\ c[2] = CauseReg[1] /\ c[3] = CauseReg[2] /\ c[4] = 0
  BY DEF ShiftLeft, ShiftRight
<1>5. /\ k[1] = (IF cp2 THEN capCause ELSE 0)
      /\ k[2] = 0 /\ k[3] = 0 /\ k[4] = 0
  BY <1>2 DEF ToReg, Zero64
<1>6. m[1] = 0 /\ m[2] = 0 /\ m[3] = 0 /\ m[4] = n % Halfword
  BY DEF ShiftLeft, ToReg
<1>7. \A i \in 1 .. 4 : CompressedInfo(n)[i] = c[i] + (k[i] + m[i])
  BY DEF CompressedInfo, Or
<1> HIDE DEF c, k, m
<1> QED BY <1>1, <1>2, <1>3, <1>4, <1>5, <1>6, <1>7

-----------------------------------------------------------------------------

\* A test starts with no trap taken.
LEMMA TrapInvInit == Init => TrapInv
<1> SUFFICES ASSUME Init PROVE TrapInv
  OBVIOUS
<1>1. TrapTypeOK
  <2>1. ip7 = FALSE /\ bd \in BOOLEAN /\ exited \in BOOLEAN
    BY DEF Init, CpuInit
  <2>2. faults \in [1 .. ProgLen -> {0, 1}]
    BY DEF Init, CpuInit
  <2> QED BY <2>1, <2>2 DEF Init, CpuInit, TrapTypeOK, CapCauses
<1>2. ReturnInv /\ InfoInv
  BY DEF Init, CpuInit, ReturnInv, InfoInv, InHandler
<1>3. TrapsTaken = 0
  <2>1. Trapped = {}
    BY CpuAssumption DEF Init, CpuInit, Trapped
  <2> QED BY <2>1, FS_EmptySet DEF TrapsTaken, Trapped
<1>4. CountInv
  BY <1>3 DEF Init, CpuInit, CountInv, Uncounted
<1> QED BY <1>1, <1>2, <1>4 DEF TrapInv

\* The program only goes forward, so no instruction traps twice; the handler
\* counts the trap once and returns behind it.
LEMMA TrapInvNext == TrapInv /\ [Next]_vars => TrapInv'
<1> SUFFICES ASSUME TrapInv, [Next]_vars PROVE TrapInv'
  OBVIOUS
<1> USE DEF TrapInv
<1>0. ProgLen \in Nat \ {0} /\ MaxTimer = 0 /\ TrapsTaken \in Nat
  <2>1. TrapsTaken \in 0 .. ProgLen
    BY TrapsFit DEF TrapTypeOK
  <2> QED BY <2>1, CpuAssumption, CountingTrapAssumption
<1>1. ASSUME UNCHANGED <<program, faults>> PROVE TrapsTaken' = TrapsTaken
  BY <1>1 DEF TrapsTaken
<1>2. CASE Execute /\ UNCHANGED <<userLocal, v0, k1, cp2, exited>>
  <2> USE <1>2 DEF Execute, Running, NextPc
  <2>1. pc' \in Nat /\ pc' > pc
    BY DEF TrapTypeOK
  <2>2. TrapTypeOK'
    <3>1. pc \in 1 .. ProgLen /\ program[pc] \in {"ok", "taken", "untaken"}
      BY <1>0 DEF TrapTypeOK
    <3>2. CASE target # 0
      <4>1. ~IsBranch(program[pc])
        <5>1. pc - 1 \in 1 .. ProgLen - 1 /\ IsBranch(program[pc - 1])
          BY <1>0, <3>2 DEF TrapTypeOK
        <5>2. ~(IsBranch(program[pc - 1]) /\ IsBranch(program[(pc - 1) + 1]))
          BY <5>1 DEF TrapTypeOK, Programs
        <5> QED BY <3>1, <5>1, <5>2
      <4>2. target' = 0
        BY <4>1 DEF IsBranch
      <4> QED BY <2>1, <4>2 DEF TrapTypeOK
    <3>3. CASE target = 0 /\ IsBranch(program[pc])
      <4>1. pc # ProgLen
        BY <3>3 DEF TrapTypeOK, Programs
      <4>2. pc' = pc + 1 /\ target' \in {pc + 2, pc + 3}
        BY <3>3 DEF IsBranch
      <4>3. pc' - 1 = pc /\ pc' \in 2 .. ProgLen /\ target' \in Nat /\ target' > pc'
        BY <1>0, <3>1, <4>1, <4>2
      <4> QED BY <2>1, <3>3, <4>3 DEF TrapTypeOK
    <3>4. CASE target = 0 /\ ~IsBranch(program[pc])
      <4>1. target' = 0
        BY <3>4 DEF IsBranch
      <4> QED BY <2>1, <4>1 DEF TrapTypeOK
    <3> QED BY <3>2, <3>3, <3>4
  <2>3. ReturnInv' /\ InfoInv'
    BY DEF ReturnInv, InfoInv, InHandler
  <2>4. CountInv'
    BY <1>1, <2>1 DEF TrapTypeOK, CountInv, Uncounted
  <2> QED BY <2>2, <2>3, <2>4
<1>3. CASE Fault /\ UNCHANGED <<userLocal, v0, k1, cp2, exited>>
  <2> USE <1>3 DEF Fault, Exception, Running
  <2>1. pc \in 1 .. ProgLen /\ faults[pc] = 0
    BY <1>0 DEF TrapTypeOK, CountInv
  <2>2. \A i \in 1 .. ProgLen : faults'[i] = IF i = pc THEN 1 ELSE faults[i]
    BY <2>1 DEF TrapTypeOK
  <2>3. TrapTypeOK'
    <3>1. faults' \in [1 .. ProgLen -> {0, 1}]
      BY <2>1, <2>2 DEF TrapTypeOK
    <3>2. /\ excCode' \in Codes \cup {Int_, Syscall} /\ ce' \in {0, 2}
          /\ capCause' \in CapCauses
      BY DEF TrapTypeOK
    <3>3. bd' \in BOOLEAN
      OBVIOUS
    <3> QED BY <3>1, <3>2, <3>3 DEF TrapTypeOK, InHandler
  <2>4. ReturnInv'
    <3>1. program[pc] \in {"fault", "syscall"} /\ hpc' = "entry" /\ faulting' = pc
      OBVIOUS
    <3>2. excCode' \in {4, 18} \/ (program[pc] = "syscall" /\ excCode' = 8)
      BY DEF Codes, Cop2, Syscall
    <3>3. program[pc] = "syscall" => excCode' = 8
      BY DEF Syscall
    <3>4. epc' = IF bd' THEN faulting' - 1 ELSE faulting'
      OBVIOUS
    <3>5. ~exited'
      BY DEF ReturnInv
    <3>6. (excCode' = Syscall <=> program[pc] = "syscall") /\ excCode' # Int_
      BY <3>2, <3>3 DEF Syscall, Int_
    <3> QED BY <2>1, <3>1, <3>4, <3>5, <3>6 DEF ReturnInv, InHandler
  <2>5. InfoInv'
    BY DEF InfoInv
  <2>6. CountInv'
    <3>1. TrapsTaken' = TrapsTaken + (IF program[pc] = "fault" THEN 1 ELSE 0)
      BY <2>1, TrapAdded DEF TrapTypeOK
    <3>2. userLocal' + Uncounted' = TrapsTaken'
      BY <1>0, <3>1 DEF TrapTypeOK, CountInv, Uncounted
    <3> QED BY <2>1, <2>2, <3>2 DEF CountInv, TrapTypeOK
  <2> QED BY <2>3, <2>4, <2>5, <2>6
<1>4. ~TimerFires /\ ~Interrupt
  BY <1>0 DEF TimerFires, Interrupt, TrapTypeOK
<1>5. CASE Entry
  <2> USE <1>5 DEF Entry, HandlerStep
  <2>1. TrapTypeOK'
    BY DEF TrapTypeOK, InHandler
  <2>2. ReturnInv' /\ InfoInv'
    BY DEF ReturnInv, InfoInv, InHandler
  <2>3. CountInv'
    BY <1>1 DEF CountInv, Uncounted, ReturnInv, InHandler
  <2> QED BY <2>1, <2>2, <2>3
<1>6. CASE CollectInfo
  <2> USE <1>6 DEF CollectInfo, HandlerStep
  <2>1. TrapTypeOK'
    BY DEF TrapTypeOK, InHandler
  <2>2. ReturnInv'
    BY DEF ReturnInv, InHandler
  <2>3. InfoInv'
    <3>1. userLocal + 1 \in Nat
      BY DEF TrapTypeOK
    <3>2. /\ k1'[1] = (IF cp2 THEN capCause ELSE 0)
          /\ k1'[2] = excCode * 4
          /\ k1'[3] = ce * 4096 + (IF bd THEN 32768 ELSE 0)
          /\ k1'[4] = (userLocal + 1) % Halfword
      BY <3>1, Packed
    <3> QED BY <3>2 DEF InfoInv
  <2>4. CountInv'
    BY <1>1 DEF CountInv, Uncounted, ReturnInv, InHandler, TrapTypeOK
  <2> QED BY <2>1, <2>2, <2>3, <2>4
<1>7. CASE BumpEpc
  <2> USE <1>7 DEF BumpEpc, HandlerStep
  <2>1. k1[3] \div 32768 = IF bd THEN 1 ELSE 0
    BY DEF InfoInv, TrapTypeOK
  <2>2. TrapTypeOK'
    BY DEF TrapTypeOK, InHandler
  <2>3. ReturnInv' /\ InfoInv'
    BY <2>1 DEF ReturnInv, InfoInv, InHandler, TrapTypeOK
  <2>4. CountInv'
    BY <1>1 DEF CountInv, Uncounted
  <2> QED BY <2>2, <2>3, <2>4
<1>8. CASE Return
  <2> USE <1>8 DEF Return, Eret, HandlerStep
  <2>1. pc' = pc + 1
    BY DEF ReturnInv, InHandler
  <2>2. TrapTypeOK'
    BY <2>1 DEF TrapTypeOK
  <2>3. ReturnInv' /\ InfoInv'
    BY DEF ReturnInv, InfoInv, InHandler
  <2>4. CountInv'
    BY <1>1, <2>1 DEF CountInv, Uncounted, TrapTypeOK
  <2> QED BY <2>2, <2>3, <2>4
<1>9. CASE ExitTest
  <2> USE <1>9 DEF ExitTest, HandlerStep
  <2>1. TrapTypeOK'
    BY DEF TrapTypeOK
  <2>2. ReturnInv' /\ InfoInv'
    BY DEF ReturnInv, InfoInv
  <2>3. CountInv'
    BY <1>1 DEF CountInv, Uncounted
  <2> QED BY <2>1, <2>2, <2>3
<1>10. CASE ClearInfo
  <2> USE <1>10 DEF ClearInfo, cpuVars
  <2>1. TrapTypeOK'
    BY DEF TrapTypeOK
  <2>2. ReturnInv' /\ InfoInv'
    BY DEF ReturnInv, InfoInv
  <2>3. CountInv'
    BY <1>1 DEF CountInv, Uncounted
  <2> QED BY <2>1, <2>2, <2>3
<1>11. CASE UNCHANGED vars
  <2> USE <1>11 DEF vars, cpuVars
  <2>1. TrapTypeOK'
    BY DEF TrapTypeOK
  <2>2. ReturnInv' /\ InfoInv'
    BY DEF ReturnInv, InfoInv
  <2>3. CountInv'
    BY <1>1 DEF CountInv, Uncounted
  <2> QED BY <2>1, <2>2, <2>3
<1> QED
  BY <1>2, <1>3, <1>4, <1>5, <1>6, <1>7, <1>8, <1>9, <1>10, <1>11 DEF Next, Cpu, Handler

-----------------------------------------------------------------------------

\* The invariant holds for every program.
THEOREM TrapInvariance == Spec => []TrapInv
BY TrapInvInit, TrapInvNext, PTL DEF Spec

\* What CompressedTrapInfo decodes from $k1 is the exception that was taken,
\* delay slot, capability cause and number included (macros.s,
\* collect_compressed_trap_info).
THEOREM InfoFaithful == Spec => []InfoDecodesToTrap
<1>1. TrapInv => InfoDecodesToTrap
  <2> SUFFICES ASSUME TrapInv, hpc \in {"bump", "eret"}
               PROVE  Decode(k1) = [capreg |-> IF cp2 THEN capCause % 256 ELSE 0,
                                    capcause |-> IF cp2 THEN capCause \div 256 ELSE 0,
                                    cause |-> excCode, bdelay |-> bd,
                                    trap_count |-> TrapsTaken]
    BY DEF InfoDecodesToTrap
  <2>1. /\ k1[1] % 256 = (IF cp2 THEN capCause % 256 ELSE 0)
        /\ k1[1] \div 256 = (IF cp2 THEN capCause \div 256 ELSE 0)
    BY DEF TrapInv, InfoInv, TrapTypeOK, CapCauses
  <2>2. (k1[2] \div 4) % 32 = excCode
    <3>1. k1[2] = excCode * 4
      BY DEF TrapInv, InfoInv
    <3>2. excCode \in 0 .. 31
      BY DEF TrapInv, TrapTypeOK, Codes, Cop2, Int_, Syscall
    <3>3. \A x \in 0 .. 31 : ((x * 4) \div 4) % 32 = x
      OBVIOUS
    <3> QED BY <3>1, <3>2, <3>3
  <2>3. (k1[3] \div 32768 = 1) = bd
    <3>1. k1[3] \div 32768 = IF bd THEN 1 ELSE 0
      BY DEF TrapInv, InfoInv, TrapTypeOK
    <3> QED BY <3>1 DEF TrapInv, TrapTypeOK
  <2>4. k1[4] = TrapsTaken
    <3>1. userLocal = TrapsTaken
      BY DEF TrapInv, CountInv, Uncounted, TrapTypeOK
    <3>2. TrapsTaken \in Nat /\ TrapsTaken < Halfword
      <4>1. TrapsTaken \in 0 .. ProgLen
        BY TrapsFit DEF TrapInv, TrapTypeOK
      <4> QED BY <4>1, CpuAssumption, CountingTrapAssumption DEF Halfword
    <3>3. TrapsTaken % Halfword = TrapsTaken
      BY <3>2 DEF Halfword
    <3> QED BY <3>1, <3>3 DEF TrapInv, InfoInv
  <2> QED BY <2>1, <2>2, <2>3, <2>4 DEF Decode
<1> QED BY <1>1, TrapInvariance, PTL

\* No instruction traps twice, and every trap is counted once (macros.s, the
\* counting trap handler).
THEOREM TrapsCountedOnce == Spec => []CountedOnce
<1>1. TrapInv => CountedOnce
  BY DEF TrapInv, TrapTypeOK, ReturnInv, CountInv, Uncounted, CountedOnce
<1> QED BY <1>1, TrapInvariance, PTL

\* The handler returns behind the instruction that trapped, also from a delay
\* slot (macros.s, .Lskip_branch_and_delay_slot).
THEOREM TrapReturns == Spec => ResumesBehindFault
<1>1. TrapInv /\ [Next]_vars =>
        [hpc = "eret" /\ hpc' = "none" => pc' = faulting + 1]_vars
  <2> SUFFICES ASSUME TrapInv, [Next]_vars, hpc = "eret", hpc' = "none"
               PROVE  pc' = faulting + 1
    OBVIOUS
  <2>1. Return
    BY DEF Next, vars, cpuVars, Cpu, Execute, Fault, TimerFires, Interrupt, Running, Handler,
       Entry, CollectInfo, BumpEpc, ExitTest, ClearInfo, HandlerStep
  <2> QED BY <2>1 DEF Return, Eret, TrapInv, ReturnInv
<1> QED BY <1>1, TrapInvariance, PTL DEF Spec, ResumesBehindFault

-----------------------------------------------------------------------------
(***************************************************************************)
(* Termination.                                                            *)
(***************************************************************************)
Stages == <<"none", "entry", "finish", "collect", "bump", "eret">>
Onward(p, q) == \E i, j \in 1 .. 6 : i < j /\ p = Stages[i] /\ q = Stages[j]

\* A step moves the program to a later instruction, the handler to its next
\* stage or to finish, or is the test's clearing of $k1.
GoesOn ==
  \/ pc < pc'
  \/ pc' = pc /\ Onward(hpc, hpc')
  \/ pc' = pc /\ hpc' = hpc /\ ~exited /\ exited'
  \/ pc' = pc /\ hpc' = hpc /\ exited' = exited /\ k1 # Zero64 /\ k1' = Zero64

\* The return of the handler is what moves the program behind a trap.
LEMMA StepGoesOn == TrapInv /\ Next => GoesOn
<1> SUFFICES ASSUME TrapInv, Next PROVE GoesOn
  OBVIOUS
<1>1. pc \in Nat \ {0} /\ target \in Nat /\ (target # 0 => target > pc) /\ timer = 0 /\ ~ip7
  BY DEF TrapInv, TrapTypeOK
<1>2. /\ Onward("none", "entry") /\ Onward("entry", "finish") /\ Onward("entry", "collect")
      /\ Onward("collect", "bump") /\ Onward("bump", "eret")
  BY DEF Onward, Stages
<1>3. CASE Execute
  BY <1>1, <1>3 DEF Execute, NextPc, GoesOn
<1>4. CASE Fault
  BY <1>2, <1>4 DEF Fault, Running, Exception, GoesOn
<1>5. CASE TimerFires \/ Interrupt
  BY <1>1, <1>5, CountingTrapAssumption DEF TimerFires, Interrupt
<1>6. CASE Entry \/ CollectInfo \/ BumpEpc
  BY <1>2, <1>6 DEF Entry, CollectInfo, BumpEpc, HandlerStep, GoesOn
<1>7. CASE Return
  BY <1>1, <1>7 DEF Return, Eret, HandlerStep, TrapInv, ReturnInv, InHandler, GoesOn
<1>8. CASE ExitTest \/ ClearInfo
  BY <1>8 DEF ExitTest, ClearInfo, HandlerStep, cpuVars, GoesOn
<1> QED BY <1>3, <1>4, <1>5, <1>6, <1>7, <1>8 DEF Next, Cpu, Handler

\* No trap is returned to for ever: every step takes the program to a later
\* instruction, behind the last of which nothing runs, or leaves it and takes
\* the handler on, or only ends the test or clears $k1 (macros.s, the counting
\* trap handler).  It is the safe half of ProgramEnds.
THEOREM ProgramGoesOn == Spec => [][GoesOn]_vars
<1>1. TrapInv /\ [Next]_vars => [GoesOn]_vars
  BY StepGoesOn
<1> QED BY <1>1, TrapInvariance, PTL DEF Spec
=============================================================================
