-------------------------- MODULE TestVerdictProofs --------------------------
(***************************************************************************)
(* Proofs about the verdicts, for every number of cores, every result of   *)
(* the tests, every mixture of their dumps and every place the log ends.   *)
(***************************************************************************)
EXTENDS TestVerdict, SequenceTheorems, TLAPS

Headers == {"COREID", "Thread", "CAP_COREID"}
LineKinds == Headers \cup {"PC", "v0", "k0", "PCC", "CAP_REG"}
LogLine == [kind : LineKinds, value : Nat]
Stages == {"test", "finish", "dump", "halt", "end"}

VerdictTypeOK ==
  /\ sim \in {"direct", "gxemul"}
  /\ header \in {"COREID", "Thread"}
  /\ result \in [Cores -> [v0 : ExitCodes, k0 : TrapCounts]]
  /\ stage \in [Cores -> Stages] /\ stage[0] # "end"
  /\ log \in Seq(LogLine)
  /\ phase \in {"run", "filter", "parse", "setup", "verdict"}
  /\ phase = "filter" => sim = "gxemul"
  /\ at \in 0 .. Len(log)
  /\ phase \in {"run", "filter"} => at = 0

\* What precedes line i of l: a dump is a header and its registers in their
\* order, all of one core, which has dumped them.
LineOK(l, i) ==
  /\ l[i].kind \notin {"v0", "k0"} => l[i].value \in Cores
  /\ l[i].kind = "PCC" =>
       i > 1 /\ l[i - 1].kind = "CAP_COREID" /\ l[i].value = l[i - 1].value
  /\ l[i].kind = "CAP_REG" => i > 1 /\ l[i - 1].kind = "PCC" /\ l[i].value = l[i - 1].value
  /\ l[i].kind = "PC" =>
       i > 1 /\ l[i - 1].kind \in {"COREID", "Thread"} /\ l[i].value = l[i - 1].value
  /\ l[i].kind = "v0" =>
       /\ i > 1 /\ l[i - 1].kind = "PC"
       /\ l[i].value = result[l[i - 1].value].v0 /\ Dumped(l[i - 1].value)
  /\ l[i].kind = "k0" =>
       /\ i > 2 /\ l[i - 1].kind = "v0" /\ l[i - 2].kind = "PC"
       /\ l[i].value = result[l[i - 2].value].k0

LogInv == sim = "direct" => \A i \in 1 .. Len(log) : LineOK(log, i)

\* The core whose dump line i belongs to.
Owner(i) == IF log[i].kind = "v0" THEN log[i - 1].value
            ELSE IF log[i].kind = "k0" THEN log[i - 2].value
            ELSE log[i].value

\* The cursor is the core of the dump being read.
CursorInv == sim = "direct" /\ at > 0 => thread = Owner(at)

\* What is filed under a core is what that core dumped.
FiledInv ==
  sim = "direct" =>
    \A c \in DOMAIN threads :
      /\ c \in Cores
      /\ threads[c] \in [Registers -> Int]
      /\ threads[c]["v0"] # None => threads[c]["v0"] = result[c].v0 /\ Dumped(c)
      /\ threads[c]["k0"] \in {None, result[c].k0}
      /\ {threads[c]["pc"], threads[c]["c3"], threads[c]["pcc"]} \subseteq {None, c}

\* A verdict is given behind the parsing, from the registers found.
PassInv ==
  /\ bodyTest = "pass" => phase = "verdict" /\ setup = "ok" /\ \A c \in Cores : HasValue(c, "v0", 0)
  /\ exceptionTest = "pass" => phase = "verdict" /\ (setup = "exception" \/ HasValue(0, "k0", 0))

VerdictInv == VerdictTypeOK /\ LogInv /\ CursorInv /\ FiledInv /\ PassInv

\* The register a line of a kind sets.
FieldOfLine(field, kind) ==
  \/ field = "pc" /\ kind = "PC"
  \/ field = "c3" /\ kind = "CAP_REG"
  \/ field = "pcc" /\ kind = "PCC"
  \/ field = "v0" /\ kind = "v0"
  \/ field = "k0" /\ kind = "k0"

\* No line that was read is lost: its register is filed under its core.
FoundInv ==
  \A i \in 1 .. at : \A f \in Registers :
    FieldOfLine(f, log[i].kind) => Owner(i) \in DOMAIN threads /\ threads[Owner(i)][f] # None

\* gxemul's log is the one dump that gxemultosim makes up; once the test has
\* finished it has the test's exit code.
GxemulLog ==
  /\ Len(log) = 4
  /\ log[1] = Line("COREID", 0) /\ log[2] = Line("PC", 0)
  /\ log[3].kind = "v0" /\ (stage[0] = "halt" => log[3].value = result[0].v0)
  /\ log[4].kind = "k0"

GxemulInv ==
  sim = "gxemul" =>
    /\ ~cp2
    /\ IF phase \in {"run", "filter"} THEN log = <<>> /\ NoDump ELSE GxemulLog
    /\ at > 0 => thread = 0
    /\ DOMAIN threads \subseteq {0}
    /\ 0 \in DOMAIN threads =>
         threads[0] \in [Registers -> Int] /\ threads[0]["v0"] \in {None, log[3].value}

\* The verdict comes when the whole log has been read, from what was found.
ClangInv ==
  /\ phase \in {"setup", "verdict"} => at = Len(log)
  /\ phase = "verdict" => setup = IF NoDump \/ Found(0)["pc"] = None THEN "exception" ELSE "ok"
  /\ clangTest = "pass" => phase = "verdict" /\ setup = "ok" /\ HasValue(0, "v0", 0)
  /\ clangTest = "fail" => phase = "verdict" /\ ~(setup = "ok" /\ HasValue(0, "v0", 0))

ReadInv == FoundInv /\ GxemulInv /\ ClangInv

-----------------------------------------------------------------------------

\* Core 0 is one of the cores.
LEMMA CoreZero == 0 \in Cores /\ \A c \in Cores : c \in Nat
BY CoresAssumption DEF Cores

\* The lines of dumps.
LEMMA DumpLines ==
  ASSUME VerdictTypeOK, NEW c \in Cores
  PROVE  CapDump(c) \in Seq(LogLine) /\ MipsDump(c) \in Seq(LogLine)
<1>1. Line("CAP_COREID", c) \in LogLine /\ Line("PCC", c) \in LogLine /\ Line("CAP_REG", c) \in LogLine
  BY CoreZero DEF Line, LogLine, LineKinds, Headers
<1>2. Line(header, c) \in LogLine /\ Line("PC", c) \in LogLine
  BY CoreZero DEF VerdictTypeOK, Line, LogLine, LineKinds, Headers
<1>3. result[c].v0 \in Nat /\ result[c].k0 \in Nat
  BY DEF VerdictTypeOK, ExitCodes, TrapCounts
<1>4. Line("v0", result[c].v0) \in LogLine /\ Line("k0", result[c].k0) \in LogLine
  BY <1>3 DEF Line, LogLine, LineKinds, Headers
<1>5. CapDump(c) \in Seq(LogLine)
  <2>1. \A x, y, z \in LogLine : <<x, y, z>> \in Seq(LogLine)
    OBVIOUS
  <2> QED BY <1>1, <2>1, Zenon DEF CapDump
<1>6. MipsDump(c) \in Seq(LogLine)
  BY <1>2, <1>4 DEF MipsDump
<1> QED BY <1>5, <1>6

\* Lines that are well placed stay so when the stages of cores go on and the log
\* grows.
LEMMA LinesKept ==
  ASSUME VerdictTypeOK, LogInv, sim = "direct", UNCHANGED simVars,
         \A c \in Cores : stage[c] \in {"halt", "end"} => stage'[c] \in {"halt", "end"},
         NEW n \in 0 .. Len(log), \A j \in 1 .. n : log'[j] = log[j], NEW i \in 1 .. n
  PROVE  LineOK(log, i)'
<1>1. LineOK(log, i)
  BY DEF LogInv, VerdictTypeOK
<1>2. Len(log) \in Nat /\ i \in Nat
  BY DEF VerdictTypeOK
<1>3. log'[i] = log[i] /\ (i > 1 => log'[i - 1] = log[i - 1]) /\ (i > 2 => log'[i - 2] = log[i - 2])
  BY <1>2
<1>4. \A c \in Cores : Dumped(c) => Dumped(c)'
  BY DEF Dumped, simVars
<1>5. /\ log[i].kind = "v0" => log[i - 1].value \in Cores
      /\ log[i].kind = "k0" => log[i - 2].value \in Cores
  <2>1. ASSUME NEW j \in 1 .. Len(log), log[j].kind = "PC" PROVE log[j].value \in Cores
    BY <2>1 DEF LogInv, LineOK
  <2>2. (i > 1 => i - 1 \in 1 .. Len(log)) /\ (i > 2 => i - 2 \in 1 .. Len(log))
    BY <1>2
  <2>3. /\ log[i].kind = "v0" => i > 1 /\ log[i - 1].kind = "PC"
        /\ log[i].kind = "k0" => i > 2 /\ log[i - 2].kind = "PC"
    BY <1>1 DEF LineOK
  <2> QED BY <2>1, <2>2, <2>3
<1>6. result' = result
  BY DEF simVars
<1>7. /\ log'[i].kind = "v0" =>
           /\ i > 1 /\ log'[i - 1].kind = "PC"
           /\ log'[i].value = result[log'[i - 1].value].v0 /\ Dumped(log[i - 1].value)'
      /\ log'[i].kind = "k0" =>
           /\ i > 2 /\ log'[i - 1].kind = "v0" /\ log'[i - 2].kind = "PC"
           /\ log'[i].value = result[log'[i - 2].value].k0
  <2>1. CASE log[i].kind = "v0"
    <3>1. i > 1 /\ log[i - 1].kind = "PC" /\ log[i].value = result[log[i - 1].value].v0
          /\ Dumped(log[i - 1].value)
      BY <1>1, <2>1 DEF LineOK
    <3>2. log'[i] = log[i] /\ log'[i - 1] = log[i - 1]
      BY <1>3, <3>1
    <3>3. Dumped(log[i - 1].value)'
      BY <1>5, <2>1, <3>1, <3>2 DEF Dumped, simVars
    <3> QED BY <2>1, <3>1, <3>2, <3>3
  <2>2. CASE log[i].kind = "k0"
    BY <1>1, <1>3, <2>2 DEF LineOK
  <2> QED BY <1>3, <2>1, <2>2
<1> QED BY <1>1, <1>3, <1>6, <1>7 DEF LineOK

\* A dump is appended whole, its header first.
LEMMA LogGrows ==
  ASSUME VerdictTypeOK, LogInv, sim = "direct", UNCHANGED simVars, stage' \in [Cores -> Stages],
         \A c \in Cores : stage[c] \in {"halt", "end"} => stage'[c] \in {"halt", "end"},
         NEW c \in Cores,
         \/ log' = log \o CapDump(c)
         \/ log' = log \o MipsDump(c) /\ stage'[c] \in {"halt", "end"}
  PROVE  log' \in Seq(LogLine) /\ LogInv'
<1> DEFINE n == Len(log)
<1>0. n \in Nat /\ log \in Seq(LogLine) /\ CapDump(c) \in Seq(LogLine) /\ MipsDump(c) \in Seq(LogLine)
      /\ sim' = sim /\ result' = result
  BY DumpLines DEF VerdictTypeOK, simVars
<1>1. CASE log' = log \o CapDump(c)
  <2>1. Len(CapDump(c)) = 3 /\ CapDump(c)[1] = Line("CAP_COREID", c)
        /\ CapDump(c)[2] = Line("PCC", c) /\ CapDump(c)[3] = Line("CAP_REG", c)
    BY DEF CapDump
  <2>2. log' \in Seq(LogLine) /\ Len(log') = n + 3
        /\ \A i \in 1 .. n + 3 : log'[i] = IF i <= n THEN log[i] ELSE CapDump(c)[i - n]
    <3>1. /\ log \o CapDump(c) \in Seq(LogLine)
          /\ Len(log \o CapDump(c)) = Len(log) + Len(CapDump(c))
          /\ \A i \in 1 .. Len(log) + Len(CapDump(c)) :
               (log \o CapDump(c))[i] = IF i <= Len(log) THEN log[i] ELSE CapDump(c)[i - Len(log)]
      BY <1>0, ConcatProperties, Zenon
    <3> QED BY <1>1, <2>1, <3>1, Zenon
  <2> HIDE DEF n
  <2>3. log'[n + 1] = Line("CAP_COREID", c) /\ log'[n + 2] = Line("PCC", c) /\ log'[n + 3] = Line("CAP_REG", c)
    BY <1>0, <2>1, <2>2
  <2>4. ASSUME NEW i \in 1 .. n + 3 PROVE LineOK(log, i)'
    <3>1. CASE i <= n
      <4>1. n \in 0 .. Len(log) /\ i \in 1 .. n /\ \A j \in 1 .. n : log'[j] = log[j]
        BY <1>0, <2>2, <3>1 DEF n
      <4> QED BY <4>1, LinesKept
    <3>2. CASE i = n + 1
      <4>1. log'[i].kind = "CAP_COREID" /\ log'[i].value = c
        BY <2>3, <3>2 DEF Line
      <4> QED BY <4>1 DEF LineOK
    <3>3. CASE i = n + 2
      <4>1. i - 1 = n + 1 /\ i > 1
        BY <1>0, <3>3
      <4>2. log'[i].kind = "PCC" /\ log'[i].value = c /\ log'[i - 1].kind = "CAP_COREID" /\ log'[i - 1].value = c
        BY <2>3, <3>3, <4>1 DEF Line
      <4> QED BY <4>1, <4>2 DEF LineOK
    <3>4. CASE i = n + 3
      <4>1. i - 1 = n + 2 /\ i > 1
        BY <1>0, <3>4
      <4>2. log'[i].kind = "CAP_REG" /\ log'[i].value = c /\ log'[i - 1].kind = "PCC" /\ log'[i - 1].value = c
        BY <2>3, <3>4, <4>1 DEF Line
      <4> QED BY <4>1, <4>2 DEF LineOK
    <3> QED BY <1>0, <3>1, <3>2, <3>3, <3>4
  <2> QED BY <2>2, <2>4 DEF LogInv
<1>2. CASE log' = log \o MipsDump(c) /\ stage'[c] \in {"halt", "end"}
  <2>1. Len(MipsDump(c)) = 4 /\ MipsDump(c)[1] = Line(header, c) /\ MipsDump(c)[2] = Line("PC", c)
        /\ MipsDump(c)[3] = Line("v0", result[c].v0) /\ MipsDump(c)[4] = Line("k0", result[c].k0)
    BY DEF MipsDump
  <2>2. log' \in Seq(LogLine) /\ Len(log') = n + 4
        /\ \A i \in 1 .. n + 4 : log'[i] = IF i <= n THEN log[i] ELSE MipsDump(c)[i - n]
    <3>1. /\ log \o MipsDump(c) \in Seq(LogLine)
          /\ Len(log \o MipsDump(c)) = Len(log) + Len(MipsDump(c))
          /\ \A i \in 1 .. Len(log) + Len(MipsDump(c)) :
               (log \o MipsDump(c))[i] = IF i <= Len(log) THEN log[i] ELSE MipsDump(c)[i - Len(log)]
      BY <1>0, ConcatProperties, Zenon
    <3> QED BY <1>2, <2>1, <3>1, Zenon
  <2> HIDE DEF n
  <2>3. log'[n + 1] = Line(header, c) /\ log'[n + 2] = Line("PC", c)
        /\ log'[n + 3] = Line("v0", result[c].v0) /\ log'[n + 4] = Line("k0", result[c].k0)
    BY <1>0, <2>1, <2>2
  <2>4. ASSUME NEW i \in 1 .. n + 4 PROVE LineOK(log, i)'
    <3>1. CASE i <= n
      <4>1. n \in 0 .. Len(log) /\ i \in 1 .. n /\ \A j \in 1 .. n : log'[j] = log[j]
        BY <1>0, <2>2, <3>1 DEF n
      <4> QED BY <4>1, LinesKept
    <3>2. CASE i = n + 1
      <4>1. log'[i].kind \in {"COREID", "Thread"} /\ log'[i].value = c
        BY <2>3, <3>2 DEF Line, VerdictTypeOK
      <4> QED BY <4>1 DEF LineOK
    <3>3. CASE i = n + 2
      <4>1. i - 1 = n + 1 /\ i > 1
        BY <1>0, <3>3
      <4>2. log'[i].kind = "PC" /\ log'[i].value = c /\ log'[i - 1].kind \in {"COREID", "Thread"}
            /\ log'[i - 1].value = c
        BY <2>3, <3>3, <4>1 DEF Line, VerdictTypeOK
      <4> QED BY <4>1, <4>2 DEF LineOK
    <3>4. CASE i = n + 3
      <4>1. i - 1 = n + 2 /\ i > 1
        BY <1>0, <3>4
      <4>2. Dumped(c)'
        BY <1>0, <1>2 DEF Dumped
      <4>3. log'[i].kind = "v0" /\ log'[i].value = result[c].v0 /\ log'[i - 1].kind = "PC" /\ log'[i - 1].value = c
        BY <2>3, <3>4, <4>1 DEF Line
      <4>4. Dumped(log[i - 1].value)'
        BY <4>2, <4>3 DEF Dumped
      <4> QED BY <1>0, <4>1, <4>3, <4>4 DEF LineOK
    <3>5. CASE i = n + 4
      <4>1. i - 1 = n + 3 /\ i - 2 = n + 2 /\ i > 2
        BY <1>0, <3>5
      <4>2. log'[i].kind = "k0" /\ log'[i].value = result[c].k0 /\ log'[i - 1].kind = "v0"
            /\ log'[i - 2].kind = "PC" /\ log'[i - 2].value = c
        BY <2>3, <3>5, <4>1 DEF Line
      <4> QED BY <1>0, <4>1, <4>2 DEF LineOK
    <3> QED BY <1>0, <3>1, <3>2, <3>3, <3>4, <3>5
  <2> QED BY <2>2, <2>4 DEF LogInv
<1> QED BY <1>1, <1>2

-----------------------------------------------------------------------------

\* Nothing is dumped or parsed at the start.
LEMMA VerdictInvInit == Init => VerdictInv
<1> SUFFICES ASSUME Init PROVE VerdictInv
  OBVIOUS
<1>1. log \in Seq(LogLine) /\ Len(log) = 0 /\ DOMAIN threads = {}
  BY DEF Init
<1>2. VerdictTypeOK
  <2>1. stage \in [Cores -> Stages] /\ stage[0] # "end"
    BY CoreZero DEF Init, Stages
  <2> QED BY <1>1, <2>1 DEF Init, VerdictTypeOK
<1>3. LogInv /\ CursorInv /\ FiledInv
  BY <1>1 DEF Init, LogInv, CursorInv, FiledInv
<1>4. PassInv
  BY DEF Init, PassInv
<1> QED BY <1>2, <1>3, <1>4 DEF VerdictInv

\* While the simulation runs nothing is parsed, so the parser's part of the
\* invariant holds as long as cores that have dumped stay so.
LEMMA RunKeeps ==
  ASSUME VerdictInv, phase = "run", UNCHANGED <<simVars, parseVars, verdicts>>,
         \A c \in Cores : stage[c] \in {"halt", "end"} => stage'[c] \in {"halt", "end"}
  PROVE  CursorInv' /\ FiledInv' /\ PassInv'
<1>1. CursorInv'
  BY DEF VerdictInv, VerdictTypeOK, CursorInv, parseVars
<1>2. FiledInv'
  <2>1. \A c \in Cores : Dumped(c) => Dumped(c)'
    BY DEF Dumped, simVars
  <2> QED BY <2>1 DEF VerdictInv, FiledInv, parseVars, simVars
<1>3. PassInv'
  BY DEF VerdictInv, PassInv, verdicts
<1> QED BY <1>1, <1>2, <1>3

\* Reading a register files it under the core that dumped it.
LEMMA RegisterFiled ==
  ASSUME VerdictInv, phase = "parse", NEW field \in Registers, SetField(field),
         at < Len(log), at' = at + 1, UNCHANGED <<simVars, stage, log>>,
         FieldOfLine(field, log[at + 1].kind)
  PROVE  CursorInv' /\ FiledInv'
<1> SUFFICES ASSUME sim = "direct" PROVE CursorInv' /\ FiledInv'
  BY DEF CursorInv, FiledInv, simVars
<1> DEFINE i == at + 1
<1>0. at \in Nat /\ i \in 1 .. Len(log) /\ Len(log) \in Nat /\ log \in Seq(LogLine)
  BY DEF VerdictInv, VerdictTypeOK
<1>1. LineOK(log, i)
  BY <1>0 DEF VerdictInv, LogInv
<1>2. i - 1 = at /\ i - 2 = at - 1 /\ (i > 1 => at \in 1 .. Len(log)) /\ (i > 2 => at - 1 \in 1 .. Len(log))
  BY <1>0
<1> HIDE DEF i
<1>3. FieldOfLine(field, log[i].kind)
  BY DEF i
<1>4. i > 1 /\ thread = Owner(at) /\ at \in 1 .. Len(log)
  <2>1. i > 1
    <3>1. log[i].kind \in {"PC", "PCC", "CAP_REG", "v0", "k0"}
      BY <1>3 DEF FieldOfLine
    <3>2. CASE log[i].kind = "k0"
      <4>1. i > 2
        BY <1>1, <3>2 DEF LineOK
      <4> QED BY <1>0, <4>1
    <3> QED BY <1>1, <3>1, <3>2 DEF LineOK
  <2>2. at \in 1 .. Len(log) /\ at > 0
    BY <1>0, <1>2, <2>1
  <2> QED BY <2>1, <2>2 DEF VerdictInv, CursorInv
<1>5. LineOK(log, at) /\ (i > 2 => LineOK(log, at - 1))
  BY <1>2, <1>4 DEF VerdictInv, LogInv
<1>6. Owner(i) = thread
  BY <1>1, <1>2, <1>3, <1>4 DEF LineOK, Owner, FieldOfLine
<1>7. thread \in Cores
  BY <1>1, <1>2, <1>3, <1>4, <1>5 DEF LineOK, Owner, FieldOfLine
<1>8. /\ field \in {"pc", "c3", "pcc"} => log[i].value = thread
      /\ field = "v0" => log[i].value = result[thread].v0 /\ Dumped(thread)
      /\ field = "k0" => log[i].value = result[thread].k0
  BY <1>1, <1>2, <1>3, <1>4, <1>6 DEF LineOK, Owner, FieldOfLine
<1>9. log[i].value \in Int
  <2>1. log[i] \in LogLine
    BY <1>0, ElementOfSeq
  <2> QED BY <2>1 DEF LogLine
<1>10. CursorInv'
  BY <1>6 DEF CursorInv, Owner, SetField, i
<1>11. FiledInv'
  <2>1. /\ DOMAIN threads' = DOMAIN threads \cup {thread}
        /\ threads'[thread] = [Found(thread) EXCEPT ![field] = log[i].value]
        /\ \A c \in DOMAIN threads : c # thread => threads'[c] = threads[c]
    BY DEF SetField, i
  <2>2. /\ Found(thread) \in [Registers -> Int]
        /\ Found(thread)["v0"] # None => Found(thread)["v0"] = result[thread].v0 /\ Dumped(thread)
        /\ Found(thread)["k0"] \in {None, result[thread].k0}
        /\ {Found(thread)["pc"], Found(thread)["c3"], Found(thread)["pcc"]} \subseteq {None, thread}
    BY DEF VerdictInv, FiledInv, Found, ThreadStatus, Registers, None
  <2>3. /\ threads'[thread] \in [Registers -> Int]
        /\ threads'[thread]["v0"] # None => threads'[thread]["v0"] = result[thread].v0 /\ Dumped(thread)
        /\ threads'[thread]["k0"] \in {None, result[thread].k0}
        /\ {threads'[thread]["pc"], threads'[thread]["c3"], threads'[thread]["pcc"]} \subseteq {None, thread}
    BY <1>8, <1>9, <2>1, <2>2 DEF Registers
  <2>4. ASSUME NEW c \in DOMAIN threads', c # thread
        PROVE  /\ c \in Cores
               /\ threads'[c] \in [Registers -> Int]
               /\ threads'[c]["v0"] # None => threads'[c]["v0"] = result[c].v0 /\ Dumped(c)
               /\ threads'[c]["k0"] \in {None, result[c].k0}
               /\ {threads'[c]["pc"], threads'[c]["c3"], threads'[c]["pcc"]} \subseteq {None, c}
    BY <2>1, <2>4 DEF VerdictInv, FiledInv
  <2>5. \A c : Dumped(c)' <=> Dumped(c)
    BY DEF Dumped, simVars
  <2>6. result' = result
    BY DEF simVars
  <2> QED BY <1>7, <2>3, <2>4, <2>5, <2>6 DEF FiledInv
<1> QED BY <1>10, <1>11

\* The parser's invariants do not depend on the verdicts.
LEMMA ParserKept ==
  ASSUME VerdictInv, UNCHANGED <<simVars, stage, log, at, thread, threads>>
  PROVE  LogInv' /\ CursorInv' /\ FiledInv'
<1>1. \A c : Dumped(c)' <=> Dumped(c)
  BY DEF Dumped, simVars
<1>2. LogInv'
  BY <1>1 DEF VerdictInv, LogInv, LineOK, simVars
<1>3. CursorInv'
  BY DEF VerdictInv, CursorInv, Owner, simVars
<1>4. FiledInv'
  BY <1>1 DEF VerdictInv, FiledInv, simVars
<1> QED BY <1>2, <1>3, <1>4

\* Reading a line of a register keeps the invariant.
LEMMA ParseKeeps ==
  ASSUME VerdictInv, NEW field \in Registers, NEW kind, FieldOfLine(field, kind),
         NextLine({kind}), SetField(field)
  PROVE  VerdictInv'
<1>1. phase = "parse" /\ at < Len(log) /\ log[at + 1].kind = kind /\ at' = at + 1
      /\ UNCHANGED <<simVars, stage, log, phase, setup, verdicts>>
  BY DEF NextLine
<1>2. CursorInv' /\ FiledInv'
  BY <1>1, RegisterFiled
<1>3. LogInv'
  <2>1. \A c : Dumped(c)' <=> Dumped(c)
    BY <1>1 DEF Dumped, simVars
  <2> QED BY <1>1, <2>1 DEF VerdictInv, LogInv, LineOK, simVars
<1>4. VerdictTypeOK'
  BY <1>1 DEF VerdictInv, VerdictTypeOK, simVars
<1>5. PassInv'
  BY <1>1 DEF VerdictInv, PassInv, verdicts
<1> QED BY <1>2, <1>3, <1>4, <1>5 DEF VerdictInv

\* A step of a core's test or of its finish keeps the invariant.
LEMMA CoreKeeps ==
  ASSUME VerdictInv, NEW c \in Cores, Core(c)
  PROVE  VerdictInv'
<1>1. phase = "run" /\ phase' = phase /\ UNCHANGED <<simVars, parseVars, verdicts>>
  BY DEF Core, TestEnds, FinishCp2, DumpRegisters, Goto
<1>2. stage' \in [Cores -> Stages] /\ stage'[0] # "end"
      /\ \A d \in Cores : stage[d] \in {"halt", "end"} => stage'[d] \in {"halt", "end"}
  <2>1. PICK from, to \in Stages : Goto(c, from, to) /\ from \notin {"halt", "end"} /\ (c = 0 => to # "end")
    BY DEF Core, TestEnds, FinishCp2, DumpRegisters, Stages
  <2>2. stage \in [Cores -> Stages] /\ stage[0] # "end" /\ stage[c] = from /\ stage' = [stage EXCEPT ![c] = to]
    BY <2>1 DEF Goto, VerdictInv, VerdictTypeOK
  <2> QED BY <2>1, <2>2, CoreZero
<1>3. CursorInv' /\ FiledInv' /\ PassInv'
  BY <1>1, <1>2, RunKeeps
<1>4. \/ log' = log
      \/ log' = log \o CapDump(c)
      \/ sim = "direct" /\ log' = log \o MipsDump(c) /\ stage'[c] \in {"halt", "end"}
  BY DEF Core, TestEnds, FinishCp2, DumpRegisters, Goto, VerdictInv, VerdictTypeOK
<1>5. log' \in Seq(LogLine)
  <2>1. log \in Seq(LogLine) /\ CapDump(c) \in Seq(LogLine) /\ MipsDump(c) \in Seq(LogLine)
    BY DumpLines DEF VerdictInv, VerdictTypeOK
  <2>2. log \o CapDump(c) \in Seq(LogLine) /\ log \o MipsDump(c) \in Seq(LogLine)
    BY <2>1, ConcatProperties, Zenon
  <2> QED BY <1>4, <2>1, <2>2
<1>6. LogInv'
  <2>1. CASE sim # "direct"
    BY <1>1, <2>1 DEF LogInv, simVars
  <2>2. CASE sim = "direct" /\ log' = log
    <3>1. ASSUME NEW i \in 1 .. Len(log) PROVE LineOK(log, i)'
      <4>1. Len(log) \in 0 .. Len(log) /\ \A j \in 1 .. Len(log) : log'[j] = log[j]
        BY <2>2 DEF VerdictInv, VerdictTypeOK
      <4> QED BY <1>1, <1>2, <2>2, <4>1, LinesKept DEF VerdictInv
    <3> QED BY <2>2, <3>1 DEF LogInv
  <2>3. CASE sim = "direct" /\ log' # log
    BY <1>1, <1>2, <1>4, <2>3, LogGrows DEF VerdictInv
  <2> QED BY <2>1, <2>2, <2>3
<1>7. VerdictTypeOK'
  <2>1. Len(log') \in Nat /\ at = 0 /\ at' = at
    BY <1>1, <1>5 DEF VerdictInv, VerdictTypeOK, parseVars
  <2> QED BY <1>1, <1>2, <1>5, <2>1 DEF VerdictInv, VerdictTypeOK, simVars
<1> QED BY <1>3, <1>6, <1>7 DEF VerdictInv

\* The end of the simulation, wherever it cuts the log, keeps the invariant.
LEMMA EndKeeps ==
  ASSUME VerdictInv, Halt \/ CutOff \/ GxemulToSim
  PROVE  VerdictInv'
<1>1. CASE Halt \/ CutOff
  <2>1. phase = "run" /\ phase' = AfterRun /\ UNCHANGED <<simVars, stage, parseVars, verdicts>>
    BY <1>1 DEF Halt, CutOff
  <2>2. CursorInv' /\ FiledInv' /\ PassInv'
    BY <2>1, RunKeeps
  <2>3. PICK n \in 0 .. Len(log) :
          log' \in Seq(LogLine) /\ Len(log') = n /\ \A j \in 1 .. n : log'[j] = log[j]
    <3>0. log \in Seq(LogLine) /\ Len(log) \in Nat
      BY DEF VerdictInv, VerdictTypeOK
    <3>1. CASE Halt
      BY <3>0, <3>1 DEF Halt
    <3>2. CASE CutOff
      <4>1. PICK n \in 0 .. Len(log) : log' = SubSeq(log, 1, n)
        BY <3>2 DEF CutOff
      <4>2. n \in Nat /\ \A j \in 1 .. n : j \in 1 .. Len(log)
        BY <3>0
      <4>3. log' = [j \in 1 .. n |-> log[j]]
        BY <3>0, <4>1, <4>2
      <4>4. \A j \in 1 .. n : log[j] \in LogLine
        BY <3>0, <4>2, ElementOfSeq
      <4>5. log' \in Seq(LogLine) /\ Len(log') = n
        BY <4>2, <4>3, <4>4
      <4> QED BY <4>3, <4>5
    <3> QED BY <1>1, <3>1, <3>2
  <2>4. LogInv'
    <3>1. CASE sim = "direct"
      <4>1. ASSUME NEW i \in 1 .. n PROVE LineOK(log, i)'
        BY <2>1, <2>3, <3>1, LinesKept DEF VerdictInv
      <4> QED BY <2>3, <4>1 DEF LogInv
    <3> QED BY <2>1, <3>1 DEF LogInv, simVars
  <2>5. VerdictTypeOK'
    BY <2>1, <2>3 DEF VerdictInv, VerdictTypeOK, AfterRun, simVars, parseVars
  <2> QED BY <2>2, <2>4, <2>5 DEF VerdictInv
<1>2. CASE GxemulToSim
  <2>1. sim # "direct" /\ sim' = sim /\ at = 0 /\ at' = at /\ phase = "filter" /\ phase' = "parse"
        /\ UNCHANGED <<simVars, stage, parseVars, verdicts>>
    BY <1>2 DEF GxemulToSim, VerdictInv, VerdictTypeOK, simVars, parseVars
  <2>2. log' \in Seq(LogLine) /\ Len(log') \in Nat
    <3>1. PICK v0 \in ExitCodes, k0 \in TrapCounts :
            log' = <<Line("COREID", 0), Line("PC", 0), Line("v0", v0), Line("k0", k0)>>
      BY <1>2 DEF GxemulToSim
    <3>2. Line("COREID", 0) \in LogLine /\ Line("PC", 0) \in LogLine
          /\ Line("v0", v0) \in LogLine /\ Line("k0", k0) \in LogLine
      BY DEF Line, LogLine, LineKinds, Headers, ExitCodes, TrapCounts
    <3>3. log' \in Seq(LogLine)
      BY <3>1, <3>2
    <3> QED BY <3>3
  <2>3. VerdictTypeOK'
    BY <2>1, <2>2 DEF VerdictInv, VerdictTypeOK, simVars
  <2>4. LogInv' /\ CursorInv' /\ FiledInv'
    BY <2>1 DEF LogInv, CursorInv, FiledInv
  <2>5. PassInv'
    BY <2>1 DEF VerdictInv, PassInv, verdicts
  <2> QED BY <2>3, <2>4, <2>5 DEF VerdictInv
<1> QED BY <1>1, <1>2

\* A step of the parser keeps the invariant.
LEMMA ParserKeeps ==
  ASSUME VerdictInv, Parse
  PROVE  VerdictInv'
<1>1. CASE ParseCore
  <2>1. phase = "parse" /\ at < Len(log) /\ log[at + 1].kind \in Headers /\ at' = at + 1
        /\ UNCHANGED <<simVars, stage, log, phase, setup, verdicts, threads>> /\ thread' = log[at + 1].value
    BY <1>1 DEF ParseCore, NextLine, Headers
  <2>2. \A c : Dumped(c)' <=> Dumped(c)
    BY <2>1 DEF Dumped, simVars
  <2>3. LogInv' /\ FiledInv'
    BY <2>1, <2>2 DEF VerdictInv, LogInv, LineOK, FiledInv, simVars
  <2>4. CursorInv'
    BY <2>1 DEF CursorInv, Owner, Headers
  <2>5. VerdictTypeOK'
    BY <2>1 DEF VerdictInv, VerdictTypeOK, simVars
  <2>6. PassInv'
    BY <2>1 DEF VerdictInv, PassInv, verdicts
  <2> QED BY <2>3, <2>4, <2>5, <2>6 DEF VerdictInv
<1>2. CASE ParseReg
  <2>1. PICK r \in {"v0", "k0"} : NextLine({r}) /\ SetField(r)
    BY <1>2 DEF ParseReg
  <2>2. r \in Registers /\ FieldOfLine(r, r)
    BY DEF Registers, FieldOfLine
  <2> QED BY <2>1, <2>2, ParseKeeps
<1>3. CASE ParsePc
  <2>1. "pc" \in Registers /\ FieldOfLine("pc", "PC")
    BY DEF Registers, FieldOfLine
  <2> QED BY <1>3, <2>1, ParseKeeps DEF ParsePc
<1>4. CASE ParseCapReg
  <2>1. "c3" \in Registers /\ FieldOfLine("c3", "CAP_REG")
    BY DEF Registers, FieldOfLine
  <2> QED BY <1>4, <2>1, ParseKeeps DEF ParseCapReg
<1>5. CASE ParsePcc
  <2>1. "pcc" \in Registers /\ FieldOfLine("pcc", "PCC")
    BY DEF Registers, FieldOfLine
  <2> QED BY <1>5, <2>1, ParseKeeps DEF ParsePcc
<1>6. CASE EndOfLog \/ MipsStatusInit
  <2>1. phase \in {"parse", "setup"} /\ phase' \in {"setup", "verdict"}
        /\ UNCHANGED <<simVars, stage, log, at, thread, threads, verdicts>>
    BY <1>6 DEF EndOfLog, MipsStatusInit, parseVars
  <2>2. LogInv' /\ CursorInv' /\ FiledInv'
    BY <2>1, ParserKept
  <2>3. VerdictTypeOK'
    BY <2>1 DEF VerdictInv, VerdictTypeOK, simVars
  <2>4. PassInv'
    BY <2>1 DEF VerdictInv, PassInv, verdicts
  <2> QED BY <2>2, <2>3, <2>4 DEF VerdictInv
<1> QED BY <1>1, <1>2, <1>3, <1>4, <1>5, <1>6 DEF Parse

\* Every step keeps the invariant.
LEMMA VerdictInvNext == VerdictInv /\ [Next]_vars => VerdictInv'
<1> SUFFICES ASSUME VerdictInv, [Next]_vars PROVE VerdictInv'
  OBVIOUS
<1>1. CASE \E c \in Cores : Core(c)
  BY <1>1, CoreKeeps
<1>2. CASE Halt \/ CutOff \/ GxemulToSim
  BY <1>2, EndKeeps
<1>3. CASE Parse
  BY <1>3, ParserKeeps
<1>4. CASE Methods
  <2>1. phase = "verdict" /\ phase' = phase /\ UNCHANGED <<simVars, stage, log, parseVars>>
    BY <1>4 DEF Methods, TestExceptionCount, TestBody, VerifyClangTest
  <2>2. LogInv' /\ CursorInv' /\ FiledInv'
    BY <2>1, ParserKept DEF parseVars
  <2>3. VerdictTypeOK'
    BY <2>1 DEF VerdictInv, VerdictTypeOK, simVars, parseVars
  <2>4. PassInv'
    <3>1. /\ exceptionTest' = exceptionTest \/ exceptionTest' = Verdict(setup = "exception" \/ HasValue(0, "k0", 0))
          /\ bodyTest' = bodyTest \/ bodyTest' = Verdict(setup = "ok" /\ \A c \in Cores : HasValue(c, "v0", 0))
      BY <1>4 DEF Methods, TestExceptionCount, TestBody, VerifyClangTest
    <3>2. \A t, f, v : HasValue(t, f, v)' <=> HasValue(t, f, v)
      BY <2>1 DEF HasValue, Found, parseVars
    <3>3. setup' = setup
      BY <2>1 DEF parseVars
    <3> QED BY <2>1, <3>1, <3>2, <3>3 DEF VerdictInv, PassInv, Verdict
  <2> QED BY <2>2, <2>3, <2>4 DEF VerdictInv
<1>5. CASE UNCHANGED vars
  <2>1. UNCHANGED <<simVars, stage, log, phase, parseVars, verdicts>>
    BY <1>5 DEF vars
  <2>2. LogInv' /\ CursorInv' /\ FiledInv'
    BY <2>1, ParserKept DEF parseVars
  <2>3. VerdictTypeOK'
    BY <2>1 DEF VerdictInv, VerdictTypeOK, simVars, parseVars
  <2>4. PassInv'
    BY <2>1 DEF VerdictInv, PassInv, HasValue, Found, parseVars, verdicts
  <2> QED BY <2>2, <2>3, <2>4 DEF VerdictInv
<1> QED BY <1>1, <1>2, <1>3, <1>4, <1>5 DEF Next

-----------------------------------------------------------------------------
(* The verdict on a C test, on every simulator. *)

\* Nothing is read and nothing judged at the start.
LEMMA ReadInvInit == Init => ReadInv
<1> SUFFICES ASSUME Init PROVE ReadInv
  OBVIOUS
<1>1. FoundInv
  BY DEF Init, FoundInv
<1>2. GxemulInv
  <2>1. DOMAIN threads = {}
    BY DEF Init
  <2> QED BY <2>1 DEF Init, GxemulInv, NoDump
<1>3. ClangInv
  BY DEF Init, ClangInv
<1> QED BY <1>1, <1>2, <1>3 DEF ReadInv

\* Until the parser starts there is nothing to be found and no verdict.
LEMMA NothingRead ==
  ASSUME VerdictInv, ReadInv, phase \in {"run", "filter"}, UNCHANGED <<simVars, parseVars, verdicts>>,
         phase' \in {"run", "filter", "parse"}
  PROVE  FoundInv' /\ ClangInv' /\ at' = 0
<1>1. at = 0 /\ at' = 0
  BY DEF VerdictInv, VerdictTypeOK, parseVars
<1>2. FoundInv'
  BY <1>1 DEF FoundInv
<1>3. ClangInv'
  BY DEF ReadInv, ClangInv, verdicts
<1> QED BY <1>1, <1>2, <1>3

\* What has been read does not depend on the verdicts.
LEMMA ReadKept ==
  ASSUME ReadInv, UNCHANGED <<simVars, stage, log, at, thread, threads>>,
         phase \notin {"run", "filter"}, phase' \notin {"run", "filter"}
  PROVE  FoundInv' /\ GxemulInv'
<1>1. FoundInv'
  BY DEF ReadInv, FoundInv, Owner
<1>2. GxemulInv'
  BY DEF ReadInv, GxemulInv, GxemulLog, simVars
<1> QED BY <1>1, <1>2

\* Reading the line of a register finds that register for good.
LEMMA RegisterRead ==
  ASSUME VerdictInv, VerdictInv', ReadInv, NEW field \in Registers, NEW kind, FieldOfLine(field, kind),
         NextLine({kind}), SetField(field)
  PROVE  ReadInv'
<1>1. phase = "parse" /\ phase' = phase /\ at < Len(log) /\ log[at + 1].kind = kind /\ at' = at + 1
      /\ UNCHANGED <<simVars, stage, log, setup, verdicts>> /\ thread' = thread
  BY DEF NextLine, SetField
<1>2. at \in Nat /\ Len(log) \in Nat /\ log \in Seq(LogLine) /\ at + 1 \in 1 .. Len(log)
  BY <1>1 DEF VerdictInv, VerdictTypeOK
<1>3. log[at + 1].value \in Nat
  <2>1. log[at + 1] \in LogLine
    BY <1>2, ElementOfSeq
  <2> QED BY <2>1 DEF LogLine
<1>4. Owner(at + 1) = thread /\ Found(thread) \in [Registers -> Int]
      /\ (sim = "gxemul" => thread = 0 /\ (field = "v0" => at + 1 = 3))
  <2>1. CASE sim = "direct"
    <3>1. thread' = Owner(at + 1)
      BY <1>1, <1>2, <2>1 DEF VerdictInv, CursorInv, Owner, simVars
    <3>2. Found(thread) \in [Registers -> Int]
      BY <2>1 DEF VerdictInv, FiledInv, Found, ThreadStatus, None
    <3> QED BY <1>1, <2>1, <3>1, <3>2
  <2>2. CASE sim = "gxemul"
    <3>1. GxemulLog /\ (at > 0 => thread = 0)
          /\ DOMAIN threads \subseteq {0} /\ (0 \in DOMAIN threads => threads[0] \in [Registers -> Int])
      BY <1>1, <2>2 DEF ReadInv, GxemulInv
    <3>2. Found(thread) \in [Registers -> Int]
      BY <3>1 DEF Found, ThreadStatus, None
    <3>3. kind # "COREID" /\ at + 1 \in 1 .. 4 /\ log[1].kind = "COREID" /\ log[2].kind = "PC" /\ log[2].value = 0
      BY <1>2, <3>1 DEF FieldOfLine, GxemulLog, Line
    <3>4. at + 1 # 1
      BY <1>1, <3>3
    <3>5. at \in {1, 2, 3} /\ thread = 0
      BY <1>2, <3>1, <3>3, <3>4
    <3>6. log[at + 1].kind = (IF at = 1 THEN "PC" ELSE IF at = 2 THEN "v0" ELSE "k0")
      BY <3>1, <3>3, <3>5 DEF GxemulLog
    <3>7. Owner(at + 1) = 0
      BY <3>3, <3>5, <3>6 DEF Owner
    <3>8. field = "v0" => at + 1 = 3
      BY <1>1, <3>5, <3>6 DEF FieldOfLine
    <3> QED BY <3>2, <3>5, <3>7, <3>8
  <2> QED BY <2>1, <2>2 DEF VerdictInv, VerdictTypeOK
<1>5. /\ DOMAIN threads' = DOMAIN threads \cup {thread}
      /\ threads'[thread] = [Found(thread) EXCEPT ![field] = log[at + 1].value]
      /\ \A t \in DOMAIN threads : t # thread => threads'[t] = threads[t]
  BY DEF SetField
<1>6. /\ threads'[thread] \in [Registers -> Int] /\ threads'[thread][field] = log[at + 1].value
      /\ \A f \in Registers : f # field => threads'[thread][f] = Found(thread)[f]
  BY <1>3, <1>4, <1>5
<1>7. FoundInv'
  <2> SUFFICES ASSUME NEW i \in 1 .. at + 1, NEW f \in Registers, FieldOfLine(f, log[i].kind)
               PROVE  Owner(i) \in DOMAIN threads' /\ threads'[Owner(i)][f] # None
    BY <1>1 DEF FoundInv, Owner
  <2>1. CASE i = at + 1
    <3>1. f = field
      BY <1>1, <2>1 DEF FieldOfLine
    <3>2. Owner(i) = thread /\ threads'[thread][f] = log[at + 1].value
      BY <1>4, <1>6, <2>1, <3>1
    <3>3. log[at + 1].value # None
      BY <1>3 DEF None
    <3> QED BY <1>5, <3>2, <3>3
  <2>2. CASE i # at + 1
    <3>1. Owner(i) \in DOMAIN threads /\ threads[Owner(i)][f] # None
      BY <1>2, <2>2 DEF ReadInv, FoundInv
    <3>2. CASE Owner(i) # thread
      BY <1>5, <3>1, <3>2
    <3>3. CASE Owner(i) = thread /\ f = field
      BY <1>3, <1>5, <1>6, <3>3 DEF None
    <3>4. CASE Owner(i) = thread /\ f # field
      BY <1>5, <1>6, <3>1, <3>4 DEF Found
    <3> QED BY <3>2, <3>3, <3>4
  <2> QED BY <2>1, <2>2
<1>8. GxemulInv'
  <2> SUFFICES ASSUME sim = "gxemul" PROVE GxemulInv'
    BY <1>1 DEF GxemulInv, simVars
  <2>1. thread = 0 /\ DOMAIN threads' \subseteq {0}
    BY <1>4, <1>5 DEF ReadInv, GxemulInv
  <2>2. ~cp2 /\ GxemulLog /\ (0 \in DOMAIN threads => threads[0]["v0"] \in {None, log[3].value})
    BY <1>1 DEF ReadInv, GxemulInv
  <2>3. threads'[0]["v0"] \in {None, log[3].value}
    <3>1. CASE field = "v0"
      BY <1>4, <1>6, <2>1, <3>1
    <3>2. CASE field # "v0"
      <4>1. threads'[0]["v0"] = Found(0)["v0"]
        BY <1>6, <2>1, <3>2 DEF Registers
      <4> QED BY <2>2, <4>1 DEF Found, ThreadStatus, Registers
    <3> QED BY <3>1, <3>2
  <2>4. GxemulLog'
    BY <1>1, <2>2 DEF GxemulLog, simVars
  <2> QED BY <1>1, <1>6, <2>1, <2>2, <2>3, <2>4 DEF GxemulInv, simVars
<1>9. ClangInv'
  BY <1>1 DEF ReadInv, ClangInv, verdicts
<1> QED BY <1>7, <1>8, <1>9 DEF ReadInv

\* Every step of the parser keeps what has been read.
LEMMA ParserReads ==
  ASSUME VerdictInv, VerdictInv', ReadInv, Parse
  PROVE  ReadInv'
<1>1. CASE ParseCore
  <2>1. phase = "parse" /\ at < Len(log) /\ log[at + 1].kind \in Headers /\ at' = at + 1 /\ phase' = phase
        /\ UNCHANGED <<simVars, stage, log, setup, verdicts, threads>> /\ thread' = log[at + 1].value
    BY <1>1 DEF ParseCore, NextLine, Headers
  <2>2. at \in Nat /\ Len(log) \in Nat
    BY DEF VerdictInv, VerdictTypeOK
  <2>3. FoundInv'
    <3> SUFFICES ASSUME NEW i \in 1 .. at + 1, NEW f \in Registers, FieldOfLine(f, log[i].kind)
                 PROVE  Owner(i) \in DOMAIN threads /\ threads[Owner(i)][f] # None
      BY <2>1 DEF FoundInv, Owner
    <3>1. i # at + 1
      BY <2>1 DEF FieldOfLine, Headers
    <3> QED BY <2>2, <3>1 DEF ReadInv, FoundInv
  <2>4. GxemulInv'
    <3> SUFFICES ASSUME sim = "gxemul" PROVE GxemulInv'
      BY <2>1 DEF GxemulInv, simVars
    <3>1. ~cp2 /\ GxemulLog /\ DOMAIN threads \subseteq {0}
          /\ (0 \in DOMAIN threads => threads[0] \in [Registers -> Int] /\ threads[0]["v0"] \in {None, log[3].value})
      BY <2>1 DEF ReadInv, GxemulInv
    <3>2. at + 1 \in 1 .. 4
      BY <2>1, <2>2, <3>1 DEF GxemulLog
    <3>3. at + 1 = 1
      <4>1. log[2].kind = "PC"
        BY <3>1 DEF GxemulLog, Line
      <4> QED BY <2>1, <3>1, <3>2, <4>1 DEF GxemulLog, Headers
    <3>4. thread' = 0
      BY <2>1, <3>1, <3>3 DEF GxemulLog, Line
    <3>5. GxemulLog'
      BY <2>1, <3>1 DEF GxemulLog, simVars
    <3> QED BY <2>1, <3>1, <3>4, <3>5 DEF GxemulInv, simVars
  <2>5. ClangInv'
    BY <2>1 DEF ReadInv, ClangInv, verdicts
  <2> QED BY <2>3, <2>4, <2>5 DEF ReadInv
<1>2. CASE ParseReg
  <2>1. PICK r \in {"v0", "k0"} : NextLine({r}) /\ SetField(r)
    BY <1>2 DEF ParseReg
  <2>2. r \in Registers /\ FieldOfLine(r, r)
    BY DEF Registers, FieldOfLine
  <2> QED BY <2>1, <2>2, RegisterRead
<1>3. CASE ParsePc
  <2>1. "pc" \in Registers /\ FieldOfLine("pc", "PC")
    BY DEF Registers, FieldOfLine
  <2> QED BY <1>3, <2>1, RegisterRead DEF ParsePc
<1>4. CASE ParseCapReg
  <2>1. "c3" \in Registers /\ FieldOfLine("c3", "CAP_REG")
    BY DEF Registers, FieldOfLine
  <2> QED BY <1>4, <2>1, RegisterRead DEF ParseCapReg
<1>5. CASE ParsePcc
  <2>1. "pcc" \in Registers /\ FieldOfLine("pcc", "PCC")
    BY DEF Registers, FieldOfLine
  <2> QED BY <1>5, <2>1, RegisterRead DEF ParsePcc
<1>6. CASE EndOfLog
  <2>1. phase = "parse" /\ phase' = "setup" /\ at = Len(log) /\ UNCHANGED <<simVars, stage, log, parseVars, verdicts>>
    BY <1>6 DEF EndOfLog
  <2>2. UNCHANGED <<simVars, stage, log, at, thread, threads>>
    BY <2>1 DEF parseVars
  <2>3. FoundInv' /\ GxemulInv'
    BY <2>1, <2>2, ReadKept
  <2>4. ClangInv'
    BY <2>1, <2>2 DEF ReadInv, ClangInv, verdicts
  <2> QED BY <2>3, <2>4 DEF ReadInv
<1>7. CASE MipsStatusInit
  <2>1. phase = "setup" /\ phase' = "verdict" /\ UNCHANGED <<simVars, stage, log, at, thread, threads, verdicts>>
        /\ setup' = IF NoDump \/ Found(0)["pc"] = None THEN "exception" ELSE "ok"
    BY <1>7 DEF MipsStatusInit
  <2>2. FoundInv' /\ GxemulInv'
    BY <2>1, ReadKept
  <2>3. ClangInv'
    BY <2>1 DEF ReadInv, ClangInv, verdicts, NoDump, Found
  <2> QED BY <2>2, <2>3 DEF ReadInv
<1> QED BY <1>1, <1>2, <1>3, <1>4, <1>5, <1>6, <1>7 DEF Parse

\* Every step keeps what has been read and how it is judged.
LEMMA ReadInvNext == VerdictInv /\ VerdictInv' /\ ReadInv /\ [Next]_vars => ReadInv'
<1> SUFFICES ASSUME VerdictInv, VerdictInv', ReadInv, [Next]_vars PROVE ReadInv'
  OBVIOUS
<1>1. CASE \E c \in Cores : Core(c)
  <2>1. PICK c \in Cores : Core(c)
    BY <1>1
  <2>2. phase = "run" /\ phase' = phase /\ UNCHANGED <<simVars, parseVars, verdicts>>
    BY <2>1 DEF Core, TestEnds, FinishCp2, DumpRegisters, Goto
  <2>3. FoundInv' /\ ClangInv' /\ at' = 0
    BY <2>2, NothingRead
  <2>4. GxemulInv'
    <3> SUFFICES ASSUME sim = "gxemul" PROVE GxemulInv'
      BY <2>2 DEF GxemulInv, simVars
    <3>1. log = <<>> /\ ~cp2
      BY <2>2 DEF ReadInv, GxemulInv
    <3>2. log' = log
      BY <2>1, <3>1 DEF Core, TestEnds, FinishCp2, DumpRegisters
    <3> QED BY <2>2, <2>3, <3>1, <3>2 DEF ReadInv, GxemulInv, NoDump, simVars, parseVars
  <2> QED BY <2>3, <2>4 DEF ReadInv
<1>2. CASE Halt \/ CutOff
  <2>1. phase = "run" /\ phase' = AfterRun /\ UNCHANGED <<simVars, stage, parseVars, verdicts>>
    BY <1>2 DEF Halt, CutOff
  <2>2. FoundInv' /\ ClangInv' /\ at' = 0
    BY <2>1, NothingRead DEF AfterRun
  <2>3. GxemulInv'
    <3> SUFFICES ASSUME sim = "gxemul" PROVE GxemulInv'
      BY <2>1 DEF GxemulInv, simVars
    <3>1. log = <<>> /\ phase' = "filter"
      BY <2>1 DEF ReadInv, GxemulInv, AfterRun
    <3>2. log' = log
      <4>1. CASE CutOff
        <5>1. PICK n \in 0 .. Len(log) : log' = SubSeq(log, 1, n)
          BY <4>1 DEF CutOff
        <5>2. n = 0
          BY <3>1
        <5> QED BY <3>1, <5>1, <5>2
      <4> QED BY <1>2, <4>1 DEF Halt
    <3> QED BY <2>1, <2>2, <3>1, <3>2 DEF ReadInv, GxemulInv, NoDump, simVars, parseVars
  <2> QED BY <2>2, <2>3 DEF ReadInv
<1>3. CASE GxemulToSim
  <2>1. phase = "filter" /\ phase' = "parse" /\ UNCHANGED <<simVars, stage, parseVars, verdicts>>
    BY <1>3 DEF GxemulToSim
  <2>2. FoundInv' /\ ClangInv' /\ at' = 0
    BY <2>1, NothingRead
  <2>3. GxemulLog'
    <3>1. PICK v0 \in ExitCodes, k0 \in TrapCounts :
            /\ stage[0] = "halt" => v0 = result[0].v0
            /\ log' = <<Line("COREID", 0), Line("PC", 0), Line("v0", v0), Line("k0", k0)>>
      BY <1>3 DEF GxemulToSim
    <3>2. Len(log') = 4 /\ log'[1] = Line("COREID", 0) /\ log'[2] = Line("PC", 0)
          /\ log'[3] = Line("v0", v0) /\ log'[4] = Line("k0", k0)
      BY <3>1
    <3>3. log'[3].kind = "v0" /\ log'[3].value = v0 /\ log'[4].kind = "k0"
      BY <3>2 DEF Line
    <3> QED BY <2>1, <3>1, <3>2, <3>3 DEF GxemulLog, simVars
  <2>4. GxemulInv'
    <3>1. DOMAIN threads = {}
      BY <2>1 DEF VerdictInv, VerdictTypeOK, ReadInv, GxemulInv, NoDump
    <3> QED BY <2>1, <2>2, <2>3, <3>1 DEF ReadInv, GxemulInv, NoDump, simVars, parseVars
  <2> QED BY <2>2, <2>4 DEF ReadInv
<1>4. CASE Parse
  BY <1>4, ParserReads
<1>5. CASE Methods
  <2>1. phase = "verdict" /\ phase' = phase /\ UNCHANGED <<simVars, stage, log, parseVars>>
    BY <1>5 DEF Methods, TestExceptionCount, TestBody, VerifyClangTest
  <2>2. UNCHANGED <<simVars, stage, log, at, thread, threads, setup>>
    BY <2>1 DEF parseVars
  <2>3. FoundInv' /\ GxemulInv'
    BY <2>1, <2>2, ReadKept
  <2>4. ClangInv'
    <3>1. clangTest' = clangTest \/ clangTest' = Verdict(setup = "ok" /\ HasValue(0, "v0", 0))
      BY <1>5 DEF Methods, TestExceptionCount, TestBody, VerifyClangTest
    <3>2. (HasValue(0, "v0", 0)' <=> HasValue(0, "v0", 0)) /\ Found(0)' = Found(0) /\ NoDump' = NoDump
      BY <2>2 DEF HasValue, Found, NoDump
    <3> QED BY <2>1, <2>2, <3>1, <3>2 DEF ReadInv, ClangInv, Verdict
  <2> QED BY <2>3, <2>4 DEF ReadInv
<1>6. CASE UNCHANGED vars
  <2>1. UNCHANGED <<simVars, stage, log, phase, parseVars, verdicts>>
    BY <1>6 DEF vars
  <2>2. FoundInv'
    BY <2>1 DEF ReadInv, FoundInv, Owner, parseVars
  <2>3. GxemulInv'
    BY <2>1 DEF ReadInv, GxemulInv, GxemulLog, NoDump, simVars, parseVars
  <2>4. ClangInv'
    BY <2>1 DEF ReadInv, ClangInv, HasValue, Found, NoDump, parseVars, verdicts
  <2> QED BY <2>2, <2>3, <2>4 DEF ReadInv
<1> QED BY <1>1, <1>2, <1>3, <1>4, <1>5, <1>6 DEF Next

-----------------------------------------------------------------------------

\* The inductive invariant holds throughout, for every number of cores.
THEOREM VerdictInvariance == Spec => []VerdictInv
<1> QED BY VerdictInvInit, VerdictInvNext, PTL DEF Spec

\* However the dumps of any number of cores mix and wherever the log ends,
\* parse_log files every register under the core that dumped it.
THEOREM RegistersFiled == Spec => []RegistersOfOwnCore
<1>1. VerdictInv => RegistersOfOwnCore
  BY DEF VerdictInv, FiledInv, RegistersOfOwnCore
<1> QED BY <1>1, VerdictInvariance, PTL

\* A class that passes ran to its end on every core, each with exit code 0,
\* and core 0 took no trap.
THEOREM PassDeserved == Spec => []PassMeansGood
<1>1. VerdictInv => PassMeansGood
  <2> SUFFICES ASSUME VerdictInv, sim = "direct", exceptionTest = "pass", bodyTest = "pass"
               PROVE  /\ \A c \in Cores : Dumped(c) /\ result[c].v0 = 0
                      /\ setup = "ok" /\ result[0].k0 = 0
    BY DEF PassMeansGood
  <2>1. setup = "ok" /\ HasValue(0, "k0", 0) /\ \A c \in Cores : HasValue(c, "v0", 0)
    BY DEF VerdictInv, PassInv
  <2>2. ASSUME NEW t, NEW f \in Registers, HasValue(t, f, 0) PROVE t \in DOMAIN threads /\ threads[t][f] = 0
    BY <2>2 DEF HasValue, Found, ThreadStatus
  <2>3. \A c \in Cores : c \in DOMAIN threads /\ threads[c]["v0"] = 0
    BY <2>1, <2>2 DEF Registers
  <2>4. 0 \in DOMAIN threads /\ threads[0]["k0"] = 0
    BY <2>1, <2>2 DEF Registers
  <2> QED BY <2>1, <2>3, <2>4 DEF VerdictInv, FiledInv, None
<1> QED BY <1>1, VerdictInvariance, PTL

\* Nothing the parser read is lost, and verify_clang_test judges by the whole
\* log, on every simulator.
THEOREM ReadInvariance == Spec => []ReadInv
<1> QED BY ReadInvInit, ReadInvNext, VerdictInvariance, PTL DEF Spec

\* A C test that finished is judged by the exit code it left: one other than 0
\* never passes, and 0 fails only if the log of core 0's dump is not whole.
THEOREM ClangJudgedRightly == Spec => []ClangVerdictRight
<1>1. VerdictInv /\ ReadInv => ClangVerdictRight
  <2> SUFFICES ASSUME VerdictInv, ReadInv, stage[0] = "halt"
               PROVE  /\ clangTest = "pass" => result[0].v0 = 0
                      /\ clangTest = "fail" /\ result[0].v0 = 0 =>
                           sim = "direct" /\ ~\E n \in 1 .. Len(log) - 3 : SubSeq(log, n, n + 3) = MipsDump(0)
    BY DEF ClangVerdictRight
  <2>0. sim \in {"direct", "gxemul"} /\ log \in Seq(LogLine) /\ Len(log) \in Nat
    BY DEF VerdictInv, VerdictTypeOK
  \* what is found as core 0's exit code is core 0's exit code
  <2>1. ASSUME 0 \in DOMAIN threads, threads[0]["v0"] # None PROVE threads[0]["v0"] = result[0].v0
    <3>1. CASE sim = "direct"
      BY <2>1, <3>1 DEF VerdictInv, FiledInv
    <3>2. CASE sim = "gxemul"
      <4>1. phase \notin {"run", "filter"}
        <5>1. ASSUME phase \in {"run", "filter"} PROVE FALSE
          BY <2>1, <3>2, <5>1 DEF ReadInv, GxemulInv, NoDump
        <5> QED BY <5>1
      <4> QED BY <2>1, <3>2, <4>1 DEF ReadInv, GxemulInv, GxemulLog
    <3> QED BY <2>0, <3>1, <3>2
  <2>2. ASSUME clangTest = "pass" PROVE result[0].v0 = 0
    <3>1. HasValue(0, "v0", 0)
      BY <2>2 DEF ReadInv, ClangInv
    <3>2. 0 \in DOMAIN threads /\ threads[0]["v0"] # None /\ threads[0]["v0"] = 0
      BY <3>1 DEF HasValue, Found, ThreadStatus, Registers
    <3> QED BY <2>1, <3>2
  \* a dump of core 0 in the log makes the test pass
  <2>3. ASSUME phase = "verdict", result[0].v0 = 0,
               NEW n \in Nat, n > 0, n + 2 <= Len(log), log[n + 1] = Line("PC", 0),
               log[n + 2].kind = "v0"
        PROVE  setup = "ok" /\ HasValue(0, "v0", 0)
    <3>1. at = Len(log) /\ n + 1 \in 1 .. at /\ n + 2 \in 1 .. at
      BY <2>0, <2>3 DEF ReadInv, ClangInv
    <3>2. Owner(n + 1) = 0 /\ Owner(n + 2) = 0 /\ log[n + 1].kind = "PC"
      <4>1. (n + 2) - 1 = n + 1 /\ log[n + 1].kind = "PC" /\ log[n + 1].value = 0
        BY <2>3 DEF Line
      <4> QED BY <2>3, <4>1 DEF Owner
    <3>3. FieldOfLine("pc", log[n + 1].kind) /\ FieldOfLine("v0", log[n + 2].kind)
          /\ "pc" \in Registers /\ "v0" \in Registers
      BY <2>3, <3>2 DEF FieldOfLine, Registers
    <3>4. 0 \in DOMAIN threads /\ threads[0]["pc"] # None /\ threads[0]["v0"] # None
      <4>1. Owner(n + 1) \in DOMAIN threads /\ threads[Owner(n + 1)]["pc"] # None
        BY <3>1, <3>3 DEF ReadInv, FoundInv
      <4>2. Owner(n + 2) \in DOMAIN threads /\ threads[Owner(n + 2)]["v0"] # None
        BY <3>1, <3>3 DEF ReadInv, FoundInv
      <4> QED BY <3>2, <4>1, <4>2
    <3>5. threads[0]["v0"] = 0
      BY <2>1, <2>3, <3>4
    <3>6. setup = "ok"
      BY <2>3, <3>4 DEF ReadInv, ClangInv, NoDump, Found
    <3> QED BY <3>4, <3>5, <3>6 DEF HasValue, Found
  <2>4. ASSUME clangTest = "fail", result[0].v0 = 0
        PROVE  sim = "direct" /\ ~\E n \in 1 .. Len(log) - 3 : SubSeq(log, n, n + 3) = MipsDump(0)
    <3>1. phase = "verdict" /\ ~(setup = "ok" /\ HasValue(0, "v0", 0))
      BY <2>4 DEF ReadInv, ClangInv
    <3>2. ASSUME sim = "gxemul" PROVE FALSE
      <4>1. GxemulLog
        BY <3>1, <3>2 DEF ReadInv, GxemulInv
      <4>2. 1 \in Nat /\ 1 > 0 /\ 1 + 2 <= Len(log) /\ log[1 + 1] = Line("PC", 0) /\ log[1 + 2].kind = "v0"
        BY <4>1 DEF GxemulLog
      <4> QED BY <2>3, <2>4, <3>1, <4>2
    <3>3. ASSUME NEW n \in 1 .. Len(log) - 3, SubSeq(log, n, n + 3) = MipsDump(0) PROVE FALSE
      <4>1. n \in Nat /\ n > 0 /\ n + 3 <= Len(log) /\ n + 2 <= Len(log)
        BY <2>0
      <4>2. SubSeq(log, n, n + 3)[2] = log[n + 1] /\ SubSeq(log, n, n + 3)[3] = log[n + 2]
        BY <2>0, <4>1
      <4>3. log[n + 1] = Line("PC", 0) /\ log[n + 2] = Line("v0", result[0].v0)
        <5>1. MipsDump(0)[2] = Line("PC", 0) /\ MipsDump(0)[3] = Line("v0", result[0].v0)
          BY DEF MipsDump
        <5> QED BY <3>3, <4>2, <5>1
      <4>4. log[n + 2].kind = "v0"
        BY <4>3 DEF Line
      <4> QED BY <2>3, <2>4, <3>1, <4>1, <4>3, <4>4
    <3> QED BY <2>0, <3>2, <3>3
  <2> QED BY <2>2, <2>4
<1> QED BY <1>1, VerdictInvariance, ReadInvariance, PTL

\* With the dumps in the log, a C test whose program did not get to its end
\* does not pass: it takes gxemul's made-up dump to pass one that did not.
THEOREM UnfinishedFails == Spec => [](sim = "direct" => UnfinishedDoesNotPass)
<1>1. VerdictInv /\ ReadInv => (sim = "direct" => UnfinishedDoesNotPass)
  <2> SUFFICES ASSUME VerdictInv, ReadInv, sim = "direct", clangTest = "pass" PROVE stage[0] = "halt"
    BY DEF UnfinishedDoesNotPass
  <2>1. HasValue(0, "v0", 0)
    BY DEF ReadInv, ClangInv
  <2>2. 0 \in DOMAIN threads /\ threads[0]["v0"] # None
    BY <2>1 DEF HasValue, Found, ThreadStatus, Registers
  <2>3. Dumped(0)
    BY <2>2 DEF VerdictInv, FiledInv
  <2> QED BY <2>3 DEF Dumped, VerdictInv, VerdictTypeOK
<1> QED BY <1>1, VerdictInvariance, ReadInvariance, PTL
=============================================================================
