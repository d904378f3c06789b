----------------------------- MODULE TestVerdict -----------------------------
(***************************************************************************)
(* From the end of a test program to the verdict on it: `finish' (init.s)  *)
(* dumps the registers of every core into the simulator's log, the log is  *)
(* parsed (MipsStatus, tools/sim/__init__.py), and the test's methods read *)
(* registers from it (beritest_tools.py).  gxemul, which has neither dump  *)
(* instruction nor core numbers, prints its registers when it exits and    *)
(* gxemultosim turns that into a dump.                                     *)
(*                                                                         *)
(* Of the registers the model keeps the exit code $v0, the trap count $k0, *)
(* the PC and one capability register.  One line of the log is one record. *)
(* A simulator prints the lines of one dump instruction together, but the  *)
(* dumps of several cores come in any order, and the cycle limit may end   *)
(* the log behind any line.                                                *)
(***************************************************************************)
EXTENDS Integers, Sequences

CONSTANT NumCores       \* cores of the simulated processor

ASSUME CoresAssumption == NumCores \in Nat \ {0}

Cores == 0 .. NumCores - 1
None == -1              \* Python's None: a register not in the log
ExitCodes == {0, 1}     \* $v0: 0, or an assertion_error or 0xbadc
TrapCounts == {0, 1}    \* $k0
Verdicts == {"none", "pass", "fail"}

VARIABLES
  sim,      \* "direct" (the log has the dumps) or "gxemul"
  header,   \* what precedes a core's MIPS registers: its COREID line, or the
            \* "Thread n" line of a multithreaded processor
  cp2,      \* a capability unit is present
  hangs,    \* the cores whose test never ends
  result,   \* result[c]: what the test of core c leaves in $v0 and $k0
  stage,    \* stage[c]: "test", "finish", "dump", "halt", "end"
  log,      \* the lines printed
  phase,    \* "run", "filter" (gxemultosim), "parse", "setup", "verdict"
  at,       \* lines parsed
  thread,   \* parse_log's cursor
  threads,  \* MipsStatus.threads: the registers found, by core
  setup,    \* MipsStatus.__init__: "none", "ok" or "exception"
  exceptionTest, bodyTest, clangTest   \* verdicts of three test methods

simVars == <<sim, header, cp2, hangs, result>>
verdicts == <<exceptionTest, bodyTest, clangTest>>
parseVars == <<at, thread, threads, setup>>
vars == <<simVars, stage, log, phase, parseVars, verdicts>>

\* ThreadStatus: the registers of a thread, none of them found yet.
Registers == {"v0", "k0", "pc", "c3", "pcc"}
ThreadStatus == [r \in Registers |-> None]

\* gxemul has one core and no capability unit.
Init ==
  /\ sim \in {"direct", "gxemul"}
  /\ header \in {"COREID", "Thread"}
  /\ cp2 \in BOOLEAN /\ (sim = "gxemul" => ~cp2)
  /\ hangs \in SUBSET Cores
  /\ result \in [Cores -> [v0 : ExitCodes, k0 : TrapCounts]]
  /\ stage = [c \in Cores |-> IF sim = "gxemul" /\ c # 0 THEN "end" ELSE "test"]
  /\ log = <<>> /\ phase = "run"
  /\ at = 0 /\ thread = 0 /\ threads = <<>>
  /\ setup = "none"
  /\ exceptionTest = "none" /\ bodyTest = "none" /\ clangTest = "none"

Line(kind, value) == [kind |-> kind, value |-> value]

\* What mtc2 $k0, $0, 6 and mtc0 $at, $26 print on core c; the PC and the
\* capabilities of a core are told by its number.
CapDump(c) == <<Line("CAP_COREID", c), Line("PCC", c), Line("CAP_REG", c)>>
MipsDump(c) == <<Line(header, c), Line("PC", c), Line("v0", result[c].v0), Line("k0", result[c].k0)>>

-----------------------------------------------------------------------------
(* The simulation: the test, finish, and the end. *)

Goto(c, from, to) ==
  /\ phase = "run"
  /\ stage[c] = from
  /\ stage' = [stage EXCEPT ![c] = to]
  /\ UNCHANGED <<simVars, parseVars, verdicts>>

TestEnds(c) ==
  /\ c \notin hangs
  /\ Goto(c, "test", "finish")
  /\ UNCHANGED <<log, phase>>

\* finish: the capability registers are dumped if config1 has the CP2 bit.
FinishCp2(c) ==
  /\ Goto(c, "finish", "dump")
  /\ log' = IF cp2 THEN log \o CapDump(c) ELSE log
  /\ UNCHANGED phase

\* dump_core0 and dump_not_core0: the count goes to $k0, registers are dumped.
DumpRegisters(c) ==
  /\ Goto(c, "dump", IF c = 0 THEN "halt" ELSE "end")
  /\ log' = IF sim = "direct" THEN log \o MipsDump(c) ELSE log
  /\ UNCHANGED phase

\* Where the log goes when the simulator has stopped.
AfterRun == IF sim = "gxemul" THEN "filter" ELSE "parse"

\* Core 0 stops the simulator (gxemul: the breakpoint at `end').
Halt ==
  /\ phase = "run" /\ stage[0] = "halt"
  /\ phase' = AfterRun
  /\ UNCHANGED <<simVars, stage, log, parseVars, verdicts>>

\* The cycle limit or the timeout ends the simulator; what it had not yet
\* written is lost.
CutOff ==
  /\ phase = "run"
  /\ \E n \in 0 .. Len(log) : log' = SubSeq(log, 1, n)
  /\ phase' = AfterRun
  /\ UNCHANGED <<simVars, stage, parseVars, verdicts>>

\* gxemul prints the registers as they are when it exits: the results when
\* the test has finished, anything before; nothing if it fails to start.
\* What gxemultosim was not told is 0.
GxemulToSim ==
  /\ phase = "filter"
  /\ phase' = "parse"
  /\ \E v0 \in ExitCodes, k0 \in TrapCounts, printed \in BOOLEAN :
       /\ printed /\ stage[0] = "halt" => v0 = result[0].v0 /\ k0 = result[0].k0
       /\ ~printed => v0 = 0 /\ k0 = 0 /\ stage[0] # "halt"
       /\ log' = <<Line("COREID", 0), Line("PC", 0), Line("v0", v0), Line("k0", k0)>>
  /\ UNCHANGED <<simVars, stage, parseVars, verdicts>>

-----------------------------------------------------------------------------
(* MipsStatus: parse_log and __init__. *)

NextLine(kinds) ==
  /\ phase = "parse"
  /\ at < Len(log) /\ log[at + 1].kind \in kinds
  /\ at' = at + 1
  /\ UNCHANGED <<simVars, stage, log, phase, setup, verdicts>>

ParseCoreNotCap ==
  /\ NextLine({"COREID", "Thread", "CAP_COREID"})
  /\ thread' = IF log[at + 1].kind = "CAP_COREID" THEN thread ELSE log[at + 1].value
  /\ UNCHANGED threads

\* Three lines move the one cursor: THREAD_RE, MIPS_CORE_RE, CAPMIPS_CORE_RE.
ParseCore ==
  /\ NextLine({"COREID", "Thread", "CAP_COREID"})
  /\ thread' = log[at + 1].value
  /\ UNCHANGED threads

\* self.threads[thread] of a defaultdict, with one field set.
Found(t) == IF t \in DOMAIN threads THEN threads[t] ELSE ThreadStatus
SetField(field) ==
  /\ threads' = [t \in DOMAIN threads \cup {thread} |->
                   IF t = thread THEN [Found(t) EXCEPT ![field] = log[at + 1].value]
                   ELSE threads[t]]
  /\ UNCHANGED thread

ParseReg == \E r \in {"v0", "k0"} : NextLine({r}) /\ SetField(r)
ParsePc == NextLine({"PC"}) /\ SetField("pc")
ParseCapReg == NextLine({"CAP_REG"}) /\ SetField("c3")
ParsePcc == NextLine({"PCC"}) /\ SetField("pcc")

NoDump == DOMAIN threads = {}

EndOfLogOnceDumped ==
  /\ phase = "parse" /\ at = Len(log) /\ ~NoDump
  /\ phase' = "setup"
  /\ UNCHANGED <<simVars, stage, log, parseVars, verdicts>>

EndOfLog ==
  /\ phase = "parse" /\ at = Len(log)
  /\ phase' = "setup"
  /\ UNCHANGED <<simVars, stage, log, parseVars, verdicts>>

\* __init__: an exception if there is no dump, or none of thread 0.
MipsStatusInit ==
  /\ phase = "setup"
  /\ phase' = "verdict"
  /\ setup' = IF NoDump \/ Found(0)["pc"] = None THEN "exception" ELSE "ok"
  /\ UNCHANGED <<simVars, stage, log, at, thread, threads, verdicts>>

-----------------------------------------------------------------------------
(* The test methods. *)

Verdict(ok) == IF ok THEN "pass" ELSE "fail"

\* Reading a register that is not in the log raises an exception, so it
\* equals nothing.
HasValue(t, field, value) == Found(t)[field] # None /\ Found(t)[field] = value

TestExceptionCountNotChecked ==
  /\ phase = "verdict" /\ exceptionTest = "none"
  /\ exceptionTest' = Verdict(setup = "exception" \/ Found(0)["k0"] # None)
  /\ UNCHANGED <<simVars, stage, log, phase, parseVars, bodyTest, clangTest>>

\* test_exception_count of a class that expects none: no dump, no failure.
TestExceptionCount ==
  /\ phase = "verdict" /\ exceptionTest = "none"
  /\ exceptionTest' = Verdict(setup = "exception" \/ HasValue(0, "k0", 0))
  /\ UNCHANGED <<simVars, stage, log, phase, parseVars, bodyTest, clangTest>>

\* A method of the class that asserts $v0 of every core, through MIPS.
TestBody ==
  /\ phase = "verdict" /\ bodyTest = "none"
  /\ bodyTest' = Verdict(setup = "ok" /\ \A c \in Cores : HasValue(c, "v0", 0))
  /\ UNCHANGED <<simVars, stage, log, phase, parseVars, exceptionTest, clangTest>>

VerifyClangTestAnyExit ==
  /\ phase = "verdict" /\ clangTest = "none"
  /\ clangTest' = Verdict(setup = "ok" /\ Found(0)["v0"] # None)
  /\ UNCHANGED <<simVars, stage, log, phase, parseVars, exceptionTest, bodyTest>>

\* verify_clang_test, for a test written in C.
VerifyClangTest ==
  /\ phase = "verdict" /\ clangTest = "none"
  /\ clangTest' = Verdict(setup = "ok" /\ HasValue(0, "v0", 0))
  /\ UNCHANGED <<simVars, stage, log, phase, parseVars, exceptionTest, bodyTest>>

Core(c) == TestEnds(c) \/ FinishCp2(c) \/ DumpRegisters(c)
Parse == ParseCore \/ ParseReg \/ ParsePc \/ ParseCapReg \/ ParsePcc \/ EndOfLog \/ MipsStatusInit
Methods == TestExceptionCount \/ TestBody \/ VerifyClangTest

Next == (\E c \in Cores : Core(c)) \/ Halt \/ CutOff \/ GxemulToSim \/ Parse \/ Methods

Spec == Init /\ [][Next]_vars

\* The cycle limit comes, the filter and the checker run.  The test itself
\* need not end.
FairSpec == Spec /\ WF_vars(CutOff) /\ WF_vars(GxemulToSim) /\ WF_vars(Parse)
                 /\ WF_vars(TestExceptionCount) /\ WF_vars(TestBody) /\ WF_vars(VerifyClangTest)

-----------------------------------------------------------------------------

Dumped(c) == stage[c] \in {"halt", "end"} /\ (sim = "gxemul" => c = 0)

\* Every register found in the log is filed under the core that dumped it,
\* however the capability and MIPS dumps of the cores follow one another:
\* one cursor serves both kinds of dump (parse_log, `thread').
RegistersOfOwnCore ==
  sim = "direct" =>
    \A c \in DOMAIN threads :
      /\ threads[c]["v0"] \in {None, result[c].v0}
      /\ threads[c]["k0"] \in {None, result[c].k0}
      /\ {threads[c]["pc"], threads[c]["c3"], threads[c]["pcc"]} \subseteq {None, c}

\* With the dumps in the log, a class passes only if every core has dumped
\* its registers with exit code 0 and core 0 took no trap: neither a log cut
\* short nor one core's dump standing in for another's makes it pass.
PassMeansGood ==
  sim = "direct" /\ exceptionTest = "pass" /\ bodyTest = "pass" =>
    /\ \A c \in Cores : Dumped(c) /\ result[c].v0 = 0
    /\ setup = "ok" /\ result[0].k0 = 0

\* A C test that finished with an exit code other than 0 fails, on every
\* simulator, and one that finished with 0 and whose log is whole passes.
ClangVerdictRight ==
  stage[0] = "halt" =>
    /\ clangTest = "pass" => result[0].v0 = 0
    /\ clangTest = "fail" /\ result[0].v0 = 0 =>
         sim = "direct" /\ ~\E n \in 1 .. Len(log) - 3 : SubSeq(log, n, n + 3) = MipsDump(0)

\* Every run gets its verdict, also when the test hangs.
VerdictReached == <>(exceptionTest # "none" /\ bodyTest # "none" /\ clangTest # "none")

-----------------------------------------------------------------------------
(* What the code means to refuse and does not. *)

\* "No reg dump found" (MipsStatus.__init__): a C test whose program did not
\* get to its end does not pass.
UnfinishedDoesNotPass == clangTest = "pass" => stage[0] = "halt"
=============================================================================
