---------------------------- MODULE TestRuntime ----------------------------
(***************************************************************************)
(* The handler with which the FreeBSD build of the C tests survives a      *)
(* capability exception (test_runtime.c).  It calls the fault handler of   *)
(* the test and skips the instruction that faulted.  In a delay slot the   *)
(* processor reports the address of the branch, so that the handler has to *)
(* decode the branch and to find out where it goes.                        *)
(*                                                                         *)
(* An instruction is the set of the bits that are 1 in it.  mc_pc counts   *)
(* bytes from the base of PCC (getAdjustedPc).  The state is one fault of  *)
(* one test and what the handler makes of it.                              *)
(***************************************************************************)
EXTENDS Integers, FiniteSetsExt

CONSTANT CapSizes     \* the sizes of a pointer that the tests are built for

VARIABLES
  cap_size,   \* sizeof(void *)
  fault,      \* the instruction that faults: whether in a delay slot, behind
              \* which branch, and the register that CapCause names
  faults,     \* the count of the default test_fault_handler
  handled,    \* the signal handler has run
  resumed     \* where it lets the test go on, or Abort

vars == <<cap_size, fault, faults, handled, resumed>>

\* A place to go on at: OwnPcc or the capability register that becomes PCC, and
\* mc_pc.
OwnPcc == -1
At(pcc, pc) == <<pcc, pc>>

\* Where an assertion or the call of abort ends the test.
Abort == <<>>

\* getImm.  The mask is a word of ones, shifted by cap_size - len and back; of
\* the shift distance a MIPS processor uses five bits.
Ones(b) == 32 - ((cap_size - b) % 32)
Mask(start, len) == {b \in 0 .. 31 : b \in start - len + 1 .. start - len + Ones(len)}
getImm(instr, start, len) ==
  MapThenSumSet(LAMBDA b : 2^(b - (start - len + 1)), instr \cap Mask(start, len))

signExtend(val, size) ==
  LET low == val % 2^size
  IN  IF low >= 2^(size - 1) THEN low - 2^size ELSE low
getSImm(instr, start, len) == signExtend(getImm(instr, start, len), len)
getOpcode(instr) == getImm(instr, 31, 6)

\* A signal context: Cause, the address of the instruction or of the branch
\* before it, that branch, the registers (the place of $zero holds a mark of the
\* kernel), what is read behind the registers by a field decoded wrongly, the tags
\* of the capability registers, and the register CapCause names.
isInDelaySlot(context) == getImm(context.cause, 31, 1) = 1
getReg(context, opidx) ==
  LET regno == getImm(context.instr, opidx, 5)
  IN  CASE regno = 0 -> 0
        [] regno \in 1 .. 31 -> context.regs[regno]
        [] OTHER -> context.behind[opidx]
ValidCapReg(idx) == idx = 255 \/ idx < 26
getCapReg(context, opidx) == getImm(context.instr, opidx, 5)

branchPc(context) == context.pc + getSImm(context.instr, 15, 16) * 4 + 4
normalPc(context) == context.pc + 8
Choose(context, taken) == At(OwnPcc, IF taken THEN branchPc(context) ELSE normalPc(context))

\* Opcodes.  Two of them stand for groups, told apart in a register field.
branch_ops ==
  [REGIMM |-> 1, CHERI |-> 18, J |-> 2, JAL |-> 3, JR |-> 8, JALR |-> 9, BEQ |-> 4, BNE |-> 5,
   BLEZ |-> 6, BGTZ |-> 7, BEQL |-> 20, BNEL |-> 21, BLEZL |-> 22, BGTZL |-> 23]
regimm_branch_ops ==
  [BLTZ |-> 0, BGEZ |-> 1, BLTZAL |-> 16, BGEZAL |-> 17, BLTZL |-> 2, BGEZL |-> 3,
   BLTZALL |-> 18, BGEZALL |-> 19]
cheri_branch_ops == [CBTU |-> 9, CBTS |-> 10, CJR |-> 7, CJALR |-> 8]

\* The inner switch for REGIMM: the assertion of the branches on less than zero
\* is repeated under the ones on greater or equal.
emulateRegimm(context, regVal) ==
  LET sub == getImm(context.instr, 20, 5)
      Op == regimm_branch_ops
  IN  CASE sub \in {Op.BLTZL, Op.BLTZALL} -> IF regVal < 0 THEN Choose(context, TRUE) ELSE Abort
        [] sub \in {Op.BLTZ, Op.BLTZAL} -> Choose(context, regVal < 0)
        [] sub \in {Op.BGEZL, Op.BGEZ} -> IF regVal < 0 THEN Choose(context, FALSE) ELSE Abort
        [] sub \in {Op.BGEZAL, Op.BGEZALL} -> Choose(context, regVal >= 0)
        [] OTHER -> Abort

\* The inner switch for CHERI branches; cjr and cjalr also make the capability
\* register PCC.
emulateCheri(context) ==
  LET sub == getImm(context.instr, 25, 5)
      Op == cheri_branch_ops
      reg == getCapReg(context, IF sub \in {Op.CBTU, Op.CBTS} THEN 20 ELSE 15)
  IN  CASE sub \notin {Op[o] : o \in DOMAIN Op} \/ ~ValidCapReg(reg) -> Abort
        [] sub = Op.CBTU -> Choose(context, ~context.tags[reg])
        [] sub = Op.CBTS -> Choose(context, context.tags[reg])
        [] OTHER -> At(reg, getReg(context, 10))

\* emulateBranch, and the abort when it does not know the branch.  Of a jump's
\* target the code reads no bits and keeps only bits that it never has.
emulateBranch(context) ==
  LET op == getOpcode(context.instr)
      Op == branch_ops
      regVal == getReg(context, 25)
      regVal2 == getReg(context, 20)
  IN  CASE op = Op.REGIMM -> emulateRegimm(context, regVal)
        [] op \in {Op.J, Op.JAL} -> At(OwnPcc, 0)
        [] op \in {Op.JR, Op.JALR} -> At(OwnPcc, regVal)
        [] op \in {Op.BEQL, Op.BEQ} -> Choose(context, regVal = regVal2)
        [] op \in {Op.BNEL, Op.BNE} -> Choose(context, regVal # regVal2)
        [] op \in {Op.BLEZL, Op.BLEZ} -> Choose(context, regVal <= 0)
        [] op \in {Op.BGTZL, Op.BGTZ} -> Choose(context, regVal > 0)
        [] op = Op.CHERI -> emulateCheri(context)
        [] OTHER -> Abort

\* capsighandler: where the test goes on behind the call of test_fault_handler.
Resumed(context) ==
  IF ~isInDelaySlot(context) THEN At(OwnPcc, context.pc + 4)
  ELSE IF context.pc > 4 THEN emulateBranch(context)
  ELSE Abort

-----------------------------------------------------------------------------
(***************************************************************************)
(* The processor: the encodings of branches and jumps, and where each goes.*)
(***************************************************************************)
Bits(v, lo, len) == {b \in lo .. lo + len - 1 : (v \div 2^(b - lo)) % 2 = 1}
Instr(op, rs, rt, imm) ==
  Bits(op, 26, 6) \cup Bits(rs, 21, 5) \cup Bits(rt, 16, 5) \cup Bits(imm % 2^16, 0, 16)

\* The branches: by their opcode, or by the second register field; those that
\* compare two registers; those that test a tag; those that annul the delay slot
\* if they are not taken; the jumps; and when a branch is taken.
Branches ==
  [beq |-> 4, bne |-> 5, blez |-> 6, bgtz |-> 7, beql |-> 20, bnel |-> 21, blezl |-> 22, bgtzl |-> 23]
Regimm ==
  [bltz |-> 0, bgez |-> 1, bltzl |-> 2, bgezl |-> 3, bltzal |-> 16, bgezal |-> 17, bltzall |-> 18, bgezall |-> 19]
Comparing == {"beq", "bne", "beql", "bnel"}
OnTag == {"cbtu", "cbts"}
Likely == {"beql", "bnel", "blezl", "bgtzl", "bltzl", "bgezl", "bltzall", "bgezall"}
Jumps == {"j", "jal", "jr", "jalr", "cjr", "cjalr"}
Taken(name, a, b, tag) ==
  CASE name \in {"beq", "beql"} -> a = b
    [] name \in {"bne", "bnel"} -> a # b
    [] name \in {"blez", "blezl"} -> a <= 0
    [] name \in {"bgtz", "bgtzl"} -> a > 0
    [] name \in {"bltz", "bltzl", "bltzal", "bltzall"} -> a < 0
    [] name \in {"bgez", "bgezl", "bgezal", "bgezall"} -> a >= 0
    [] name = "cbtu" -> ~tag
    [] name = "cbts" -> tag

\* The branches and jumps before a delay slot that faults, with a in $4, b in $5
\* and a tag in the capability registers; z compares with $zero in place of $5.
\* A jump goes to JumpTarget, which j and jal encode in words, jr and jalr find in
\* $4, and cjr and cjalr in the offset of capability register 3.
FaultPc == 4096
JumpTarget == 8192
Slots ==
  {s \in [name : DOMAIN Branches \cup DOMAIN Regimm \cup OnTag \cup Jumps, a : -1 .. 1, b : {-1, 1},
          z : BOOLEAN, tag : BOOLEAN, imm : {-20, 3}] :
     /\ s.name \in OnTag \cup Jumps => s.a = 0
     /\ s.name \notin OnTag => s.tag
     /\ s.name \notin Comparing => ~s.z /\ s.b = 1
     /\ s.name \in Jumps => s.imm = 3
     \* a likely branch that is not taken annuls its delay slot
     /\ s.name \in Likely => Taken(s.name, s.a, IF s.z THEN 0 ELSE s.b, s.tag)}
Encoded(s) ==
  CASE s.name \in Comparing -> Instr(Branches[s.name], 4, IF s.z THEN 0 ELSE 5, s.imm)
    [] s.name \in DOMAIN Branches \ Comparing -> Instr(Branches[s.name], 4, 0, s.imm)
    [] s.name \in DOMAIN Regimm -> Instr(1, 4, Regimm[s.name], s.imm)
    [] s.name = "cbtu" -> Instr(18, 9, 3, s.imm)
    [] s.name = "cbts" -> Instr(18, 10, 3, s.imm)
    [] s.name = "j" -> Instr(2, 0, 0, JumpTarget \div 4)
    [] s.name = "jal" -> Instr(3, 0, 0, JumpTarget \div 4)
    [] s.name = "jr" -> Instr(0, 4, 0, 8)
    [] s.name = "jalr" -> Instr(0, 4, 0, 31 * 2^11 + 9)
    [] s.name = "cjr" -> Instr(18, 8, 0, 3 * 2^11)
    [] s.name = "cjalr" -> Instr(18, 7, 17, 3 * 2^11)

\* What the kernel passes for the fault f.  The registers end where the rest of
\* the context begins.
Magic == 77
Behind == [{10, 20, 25} -> -1 .. 1]
Context(f, behind) ==
  [cause |-> {3, 6} \cup IF f.bd THEN {31} ELSE {}, pc |-> FaultPc, instr |-> Encoded(f.slot),
   capcause |-> f.capreg, behind |-> behind,
   regs |-> [r \in 0 .. 31 |->
               CASE r = 0 -> Magic
                 [] r = 4 -> IF f.slot.name \in Jumps THEN JumpTarget ELSE f.slot.a
                 [] r = 5 -> f.slot.b
                 [] OTHER -> 99],
   tags |-> [r \in 0 .. 25 |-> (r = 3) = f.slot.tag]]

\* Where the processor would go on behind the instruction that faulted.
ResumesAt(f) ==
  IF ~f.bd THEN At(OwnPcc, FaultPc + 4)
  ELSE IF f.slot.name \in {"cjr", "cjalr"} THEN At(3, JumpTarget)
  ELSE IF f.slot.name \in Jumps THEN At(OwnPcc, JumpTarget)
  ELSE IF Taken(f.slot.name, f.slot.a, IF f.slot.z THEN 0 ELSE f.slot.b, f.slot.tag)
       THEN At(OwnPcc, FaultPc + 4 + 4 * f.slot.imm)
  ELSE At(OwnPcc, FaultPc + 8)

-----------------------------------------------------------------------------
Init ==
  /\ cap_size \in CapSizes
  /\ fault \in [bd : BOOLEAN, slot : Slots, capreg : {0, 25, 26, 255}]
  /\ faults = 0
  /\ handled = FALSE
  /\ resumed = Abort

\* capsighandler: it asserts that CapCause names a register it knows before it
\* calls the handler of the test.
capsighandler ==
  /\ ~handled
  /\ handled' = TRUE
  /\ IF ValidCapReg(fault.capreg)
     THEN /\ faults' = faults + 1
          /\ \E behind \in Behind : resumed' = Resumed(Context(fault, behind))
     ELSE UNCHANGED <<faults, resumed>>
  /\ UNCHANGED <<cap_size, fault>>

Spec == Init /\ [][capsighandler]_vars

-----------------------------------------------------------------------------
\* "Calls the test handler and skips the faulting instruction" (test_runtime.c
\* 352-353), which goes on at "either the branch target or the instruction
\* immediately following the delay slot, depending on whether the branch should
\* have been taken" (237-240): a fault of a register that the handler knows lets
\* the test go on where the processor would.
FaultSkipped == handled /\ ValidCapReg(fault.capreg) => resumed = ResumesAt(fault)

=============================================================================
