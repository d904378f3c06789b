------------------------------- MODULE DmaTest -------------------------------
(***************************************************************************)
(* A multithreaded DMA fuzz test from its generation to its assertions:    *)
(* generate_programs of generate_multithread_dma_test.cpp makes a program  *)
(* for each thread of the DMA engine, and the test                         *)
(* (multithread_test_template.c) starts them, switches the engine between  *)
(* them at random until each was seen to have finished, and then checks    *)
(* what they copied.                                                       *)
(*                                                                         *)
(* The engine is external: it runs the thread it was last switched to, and *)
(* a thread keeps its place when it is switched away from.  How long a     *)
(* program runs does not follow from its length (it has loops), so it is   *)
(* any number of steps.                                                    *)
(***************************************************************************)
EXTENDS DmaProgramGen, FiniteSets

CONSTANTS MaxThreads,   \* bound: threads of the test (the engine has 4)
          MaxWork       \* bound: engine steps one program takes

ASSUME DmaTestAssumption ==
  /\ MaxThreads \in Nat \ {0}
  /\ MaxWork \in Nat \ {0}

VARIABLES
  THREAD_COUNT,         \* threads of this test
  phase,                \* where the generator, and then the test, is
  programs,             \* programs generated
  active_threads,       \* the test's array of threads not seen to be ready
  active_thread_count,  \* how much of it counts
  thread_index, thread, \* the three next threads to switch to
  work,                 \* work[t]: engine steps thread t still needs
  current,              \* the thread the engine runs
  seen                  \* history: the threads seen to be ready

testVars == <<active_threads, active_thread_count, thread_index, thread, seen>>
dmaVars == <<work, current>>
vars == <<genVars, THREAD_COUNT, phase, programs, testVars, dmaVars>>

Threads == 0 .. THREAD_COUNT - 1
NoThread == -1          \* an uninitialised or meaningless number
Switches == 1 .. 3

Init ==
  /\ GenInit
  /\ THREAD_COUNT \in 1 .. MaxThreads
  /\ phase = "generate"
  /\ programs = 0
  /\ active_threads = [t \in Threads |-> t]
  /\ active_thread_count = THREAD_COUNT
  /\ thread_index = [k \in Switches |-> NoThread]
  /\ thread = [k \in Switches |-> NoThread]
  /\ work \in [Threads -> 1 .. MaxWork]
  /\ current = 0
  /\ seen = {}

Goto(from, to) ==
  /\ phase = from
  /\ phase' = to
  /\ UNCHANGED THREAD_COUNT

-----------------------------------------------------------------------------
(* Generation: generate_programs. *)

Generate ==
  /\ phase = "generate"
  /\ GenStep
  /\ UNCHANGED <<THREAD_COUNT, phase, programs, testVars, dmaVars>>

\* A program is complete; the next one starts from an empty tree.
ProgramDone ==
  /\ phase = "generate" /\ Generated
  /\ programs' = programs + 1
  /\ phase' = IF programs + 1 = THREAD_COUNT THEN "setup" ELSE "generate"
  /\ space' = <<0>> /\ spaces' = 1
  /\ program_length' = 0 /\ deepest' = 0 /\ zeros' = 0
  /\ UNCHANGED <<THREAD_COUNT, testVars, dmaVars>>

-----------------------------------------------------------------------------
(* The test. *)

\* thread_index[i] = myrand() % active_thread_count, and what is there.
PickThreads ==
  \E f \in [Switches -> 0 .. active_thread_count - 1] :
    /\ thread_index' = f
    /\ thread' = [k \in Switches |-> active_threads[f[k]]]

\* The programs are set up and started, the first threads drawn before.
Setup ==
  /\ Goto("setup", "head")
  /\ PickThreads
  /\ UNCHANGED <<genVars, programs, active_threads, active_thread_count, seen, dmaVars>>

\* while (active_thread_count != 0)
LoopOn ==
  /\ Goto("head", "switch1")
  /\ active_thread_count # 0
  /\ UNCHANGED <<genVars, programs, testVars, dmaVars>>

LoopExit ==
  /\ Goto("head", "asserts")
  /\ active_thread_count = 0
  /\ UNCHANGED <<genVars, programs, testVars, dmaVars>>

\* The three calls of dma_switch_to.
SwitchTo(k, from, to) ==
  /\ Goto(from, to)
  /\ current' = thread[k]
  /\ UNCHANGED <<genVars, programs, testVars, work>>

Switch == \/ SwitchTo(1, "switch1", "switch2")
          \/ SwitchTo(2, "switch2", "switch3")
          \/ SwitchTo(3, "switch3", "test")

\* dma_thread_ready
Ready(t) == work[t] = 0

RemoveThreadKeepsCount ==
  /\ active_threads' = [active_threads EXCEPT
                          ![thread_index[3]] = active_threads[active_thread_count - 1]]
  /\ UNCHANGED active_thread_count

\* The last thread is copied over the one that is ready.
RemoveThread ==
  /\ active_threads' = [active_threads EXCEPT
                          ![thread_index[3]] = active_threads[active_thread_count - 1]]
  /\ active_thread_count' = active_thread_count - 1

TestReadyOfFirst ==
  /\ Goto("test", "draw")
  /\ Ready(thread[1])
  /\ RemoveThread
  /\ seen' = seen \cup {thread[3]}
  /\ UNCHANGED <<genVars, programs, thread_index, thread, dmaVars>>

\* After the wait: thread[2] of the code is tested, the others are not.
TestReady ==
  /\ Goto("test", "draw")
  /\ Ready(thread[3])
  /\ RemoveThread
  /\ seen' = seen \cup {thread[3]}
  /\ UNCHANGED <<genVars, programs, thread_index, thread, dmaVars>>

TestNotReady ==
  /\ Goto("test", "draw")
  /\ ~Ready(thread[3])
  /\ UNCHANGED <<genVars, programs, testVars, dmaVars>>

DrawStale ==
  /\ Goto("draw", "head")
  /\ active_thread_count # 0
  /\ UNCHANGED <<genVars, programs, testVars, dmaVars>>

DrawNext ==
  /\ Goto("draw", "head")
  /\ active_thread_count # 0
  /\ PickThreads
  /\ UNCHANGED <<genVars, programs, active_threads, active_thread_count, seen, dmaVars>>

\* The same when the last thread has just been removed: myrand() % 0 is
\* undefined, the index and what it selects are meaningless (a trap would be
\* skipped by the handler, with the same result).
DrawByZero ==
  /\ Goto("draw", "head")
  /\ active_thread_count = 0
  /\ thread_index' = [k \in Switches |-> NoThread]
  /\ thread' = [k \in Switches |-> NoThread]
  /\ UNCHANGED <<genVars, programs, active_threads, active_thread_count, seen, dmaVars>>

Test == Setup \/ LoopOn \/ LoopExit \/ Switch \/ TestReady \/ TestNotReady
        \/ DrawNext \/ DrawByZero

\* The engine executes an instruction of its current thread.
DmaStep(t) ==
  /\ phase \in {"head", "switch1", "switch2", "switch3", "test", "draw"}
  /\ t = current /\ work[t] > 0
  /\ work' = [work EXCEPT ![t] = @ - 1]
  /\ UNCHANGED <<genVars, THREAD_COUNT, phase, programs, testVars, current>>

Next == Generate \/ ProgramDone \/ Test \/ \E t \in 0 .. MaxThreads - 1 : DmaStep(t)

Spec == Init /\ [][Next]_vars

\* The generator and the test run.  The engine makes progress on a thread it
\* is switched to again and again (the wait is up to 80 instructions), and
\* the random generator does not avoid drawing one thread for ever.
Draws(t) == (DrawNext \/ Setup) /\ thread'[3] = t

FairSpec ==
  /\ Spec
  /\ WF_vars(Generate \/ ProgramDone)
  /\ WF_vars(Test)
  /\ \A t \in 0 .. MaxThreads - 1 : SF_vars(DmaStep(t)) /\ SF_vars(Draws(t))

-----------------------------------------------------------------------------

Active == {active_threads[k] : k \in 0 .. active_thread_count - 1}

\* The part of active_threads that counts holds exactly the threads not yet
\* seen to be ready, each once, whichever were removed in whichever order, and
\* the engine is only ever switched to one of them: never to a thread that
\* was removed, nor to a number that came from the division by zero.
SwitchesToUnseen ==
  /\ Active = Threads \ seen /\ Cardinality(Active) = active_thread_count
  /\ phase \in {"switch1", "switch2", "switch3"} =>
       \A k \in Switches : thread[k] \in Active

\* The assertions read memory only when every program has run to its end.
AssertsSeeResults == phase = "asserts" => \A t \in Threads : work[t] = 0

\* Every program is generated, and the test gets to its assertions.
AssertsReached == <>(phase = "asserts")
=============================================================================
