-------------------------------- MODULE Boot --------------------------------
(***************************************************************************)
(* Start-up and shut-down of a test on all hardware threads: `start',      *)
(* `all_threads' and `finish' of init.s, other_threads_go, the stub        *)
(* installation of lib.s and macros.s, and multi_start (init_multi.s).     *)
(*                                                                         *)
(* Thread 0 installs the trap vectors, clears the trap count and .bss and  *)
(* runs the test; every other thread waits in reset_barrier until the test *)
(* of thread 0 calls other_threads_go.  A finished thread dumps its        *)
(* registers; thread 0 then stops the simulator.  The barrier is the       *)
(* abstract one, which ThreadBarrier is shown to implement.                *)
(*                                                                         *)
(* The test is arbitrary code: it may store to its word of .bss, store to  *)
(* initialised global capabilities, trap, and (thread 0, once) release     *)
(* the other threads, in any order, before it returns.                     *)
(***************************************************************************)
EXTENDS CoreThreads

CONSTANTS MaxTraps,     \* bound: traps the test of one thread takes
          NumGlobals,   \* relocations of crt_init_globals
          Purecap       \* BUILDING_PURECAP

ASSUME BootAssumption == MaxTraps \in Nat /\ NumGlobals \in Nat /\ Purecap \in BOOLEAN

Globals == 1 .. NumGlobals

Thread0 == <<0, 0>>
Others == HwThreads \ {Thread0}
Vectors == {"tlb", "xtlb", "cache", "common"}
Junk == -1              \* what a register or memory holds after reset
NoDump == -2

VARIABLES
  multi,      \* the image starts at multi_start (init_multi.s)
  stage,      \* stage[h]: where h is
  entered,    \* reset_barrier: calls begun
  left,       \* reset_barrier: calls returned from
  vectors,    \* the BEV=0 vectors that lead to jump_to_real_trap_handler
  bev,        \* bev[h]: Status.BEV of h
  userLocal,  \* userLocal[h]: CP0 UserLocal, the trap count
  bss,        \* bss[i]: the word of .bss used by the test of thread number i
  bssNext,    \* the next word bzero clears
  global,     \* global[g]: a capability that crt_init_globals initialises:
              \* "unset", "init", "stored" by a test, or "undone": initialised
              \* over what a test had stored
  reloc,      \* reloc[h]: the relocations that crt_init_globals has done on h
  traps,      \* history: traps taken by the test on h
  wrote,      \* history: the threads whose test has stored to .bss
  dump,       \* dump[h]: $k0 in the register dump of h, or NoDump
  halted      \* the simulator has been stopped

threadVars == <<bev, userLocal, traps, dump>>
globalVars == <<global, reloc>>
memVars == <<vectors, bss, bssNext, globalVars, wrote>>
barrierVars == <<entered, left>>
vars == <<multi, stage, barrierVars, threadVars, memVars, halted>>

ResetBarrier == INSTANCE AbstractBarrier WITH Threads <- HwThreads, MaxCalls <- 1

\* Reset: Status.BEV is set; UserLocal and .bss are not initialised.
Init ==
  /\ multi \in BOOLEAN
  /\ stage = [h \in HwThreads |-> "reset"]
  /\ ResetBarrier!Init
  /\ vectors = {}
  /\ bev = [h \in HwThreads |-> TRUE]
  /\ userLocal \in [HwThreads -> {0, Junk}]
  /\ bss = [i \in 0 .. MaxCoreThreadId |-> Junk]
  /\ bssNext = 0
  /\ global = [g \in Globals |-> "unset"]
  /\ reloc = [h \in HwThreads |-> 0]
  /\ traps = [h \in HwThreads |-> 0]
  /\ wrote = {}
  /\ dump = [h \in HwThreads |-> NoDump]
  /\ halted = FALSE

\* h goes on; nobody does once the simulator has stopped.
Goto(h, from, to) ==
  /\ ~halted
  /\ stage[h] = from
  /\ stage' = [stage EXCEPT ![h] = to]
  /\ UNCHANGED multi

\* multi_start: every thread but 0 of core 0 spins for ever.
SpinForever(h) ==
  /\ multi
  /\ h[1] # 0 \/ h[2] # 0
  /\ Goto(h, "reset", "spin")
  /\ UNCHANGED <<barrierVars, threadVars, memVars, halted>>

EnterResetBarrierUnlessOne(h) ==
  /\ ~multi
  /\ CoreThreadId(h) > 1
  /\ Goto(h, "reset", "barrier")
  /\ ResetBarrier!Enter(h)
  /\ UNCHANGED <<threadVars, memVars, halted>>

\* start, thread number > 0: the tail call of thread_barrier.
EnterResetBarrier(h) ==
  /\ ~multi
  /\ CoreThreadId(h) > 0
  /\ Goto(h, "reset", "barrier")
  /\ ResetBarrier!Enter(h)
  /\ UNCHANGED <<threadVars, memVars, halted>>

LeaveResetBarrierAtOnce(h) ==
  /\ Goto(h, "barrier", "all_threads")
  /\ UNCHANGED <<barrierVars, threadVars, memVars, halted>>

\* thread_barrier returns to all_threads.
LeaveResetBarrier(h) ==
  /\ Goto(h, "barrier", "all_threads")
  /\ ResetBarrier!Leave(h)
  /\ UNCHANGED <<threadVars, memVars, halted>>

\* start, thread number 0.
StartThread0(h) ==
  /\ CoreThreadId(h) = 0
  /\ Goto(h, "reset", "bev_clear")
  /\ UNCHANGED <<barrierVars, threadVars, memVars, halted>>

\* bev_clear, first thing in set_mips_common_bev0_handler (start calls it
\* once more after the installation, to the same effect).
BevClear(h) ==
  /\ Goto(h, "bev_clear", "copy_stub")
  /\ bev' = [bev EXCEPT ![h] = FALSE]
  /\ UNCHANGED <<userLocal, traps, dump, barrierVars, memVars, halted>>

\* bev0_set_common_handler_raw: the stub is copied to the common vector,
CopyStub(h) ==
  /\ Goto(h, "copy_stub", "branches")
  /\ vectors' = vectors \cup {"common"}
  /\ UNCHANGED <<bss, bssNext, globalVars, wrote, barrierVars, threadVars, halted>>

StoreBranchesNoCache(h) ==
  /\ Goto(h, "branches", "count")
  /\ vectors' = vectors \cup {"tlb", "xtlb"}
  /\ UNCHANGED <<bss, bssNext, globalVars, wrote, barrierVars, threadVars, halted>>

\* ... and branches to it are stored at the other three.
StoreBranches(h) ==
  /\ Goto(h, "branches", "count")
  /\ vectors' = vectors \cup {"tlb", "xtlb", "cache"}
  /\ UNCHANGED <<bss, bssNext, globalVars, wrote, barrierVars, threadVars, halted>>

ZeroTrapCountKept(h) ==
  /\ Goto(h, "count", "bzero")
  /\ UNCHANGED <<bev, userLocal, traps, dump, barrierVars, memVars, halted>>

\* __set_counting_trap_handler_count $zero.
ZeroTrapCount(h) ==
  /\ Goto(h, "count", "bzero")
  /\ userLocal' = [userLocal EXCEPT ![h] = 0]
  /\ UNCHANGED <<bev, traps, dump, barrierVars, memVars, halted>>

\* bzero(__bss_start, __bss_end - __bss_start), a word at a time.
ClearBss(h) ==
  /\ bssNext <= MaxCoreThreadId
  /\ Goto(h, "bzero", "bzero")
  /\ bss' = [bss EXCEPT ![bssNext] = 0]
  /\ bssNext' = bssNext + 1
  /\ UNCHANGED <<vectors, globalVars, wrote, barrierVars, threadVars, halted>>

BssDoneEarly(h) ==
  /\ bssNext >= MaxCoreThreadId
  /\ Goto(h, "bzero", "all_threads")
  /\ UNCHANGED <<barrierVars, threadVars, memVars, halted>>

BssDone(h) ==
  /\ bssNext > MaxCoreThreadId
  /\ Goto(h, "bzero", "all_threads")
  /\ UNCHANGED <<barrierVars, threadVars, memVars, halted>>

\* all_threads: Status, then the purecap globals or the call of test.
AllThreads(h) ==
  /\ Goto(h, "all_threads", IF Purecap THEN "globals" ELSE "test")
  /\ UNCHANGED <<barrierVars, threadVars, memVars, halted>>

\* crt_init_globals, a relocation at a time,
CrtInitGlobals(h) ==
  /\ reloc[h] < NumGlobals
  /\ Goto(h, "globals", "globals")
  /\ reloc' = [reloc EXCEPT ![h] = @ + 1]
  /\ global' = [global EXCEPT ![reloc[h] + 1] = IF @ \in {"stored", "undone"} THEN "undone" ELSE "init"]
  /\ UNCHANGED <<vectors, bss, bssNext, wrote, barrierVars, threadVars, halted>>

\* ... and the call of test.
GlobalsDone(h) ==
  /\ reloc[h] = NumGlobals
  /\ Goto(h, "globals", "test")
  /\ UNCHANGED <<barrierVars, threadVars, memVars, halted>>

-----------------------------------------------------------------------------
(* What a test does. *)

\* It stores to its own word of .bss
StoreBss(h) ==
  /\ Goto(h, "test", "test")
  /\ bss' = [bss EXCEPT ![CoreThreadId(h)] = 1]
  /\ wrote' = wrote \cup {h}
  /\ UNCHANGED <<vectors, bssNext, globalVars, barrierVars, threadVars, halted>>

\* ... or to a global capability,
StoreGlobal(h, g) ==
  /\ Purecap
  /\ Goto(h, "test", "test")
  /\ global' = [global EXCEPT ![g] = "stored"]
  /\ UNCHANGED <<vectors, bss, bssNext, wrote, reloc, barrierVars, threadVars, halted>>

\* ... takes a trap that the installed handler counts and returns from,
TrapHandled(h, v) ==
  /\ ~bev[h] /\ v \in vectors
  /\ traps[h] < MaxTraps
  /\ Goto(h, "test", "test")
  /\ userLocal' = [userLocal EXCEPT ![h] = @ + 1]
  /\ traps' = [traps EXCEPT ![h] = @ + 1]
  /\ UNCHANGED <<bev, dump, barrierVars, memVars, halted>>

\* ... or one whose vector leads nowhere (with BEV set: the boot ROM's),
TrapLost(h, v) ==
  /\ bev[h] \/ v \notin vectors
  /\ traps[h] < MaxTraps
  /\ Goto(h, "test", "lost")
  /\ traps' = [traps EXCEPT ![h] = @ + 1]
  /\ UNCHANGED <<bev, userLocal, dump, barrierVars, memVars, halted>>

\* ... calls other_threads_go (thread 0, not in a multi_start image),
OtherThreadsGo(h) ==
  /\ h = Thread0 /\ ~multi
  /\ Goto(h, "test", "go")
  /\ ResetBarrier!Enter(h)
  /\ UNCHANGED <<threadVars, memVars, halted>>

OtherThreadsGone(h) ==
  /\ Goto(h, "go", "test")
  /\ ResetBarrier!Leave(h)
  /\ UNCHANGED <<threadVars, memVars, halted>>

\* ... and returns.
TestReturns(h) ==
  /\ Goto(h, "test", "finish")
  /\ UNCHANGED <<barrierVars, threadVars, memVars, halted>>

-----------------------------------------------------------------------------

\* finish: the trap count goes to $k0 and the registers are dumped.
Dump(h) ==
  /\ Goto(h, "finish", "dumped")
  /\ dump' = [dump EXCEPT ![h] = userLocal[h]]
  /\ UNCHANGED <<bev, userLocal, traps, barrierVars, memVars, halted>>

\* dump_core0: mtc0 $at, $23 stops the simulator.
Halt(h) ==
  /\ h[1] = 0 /\ h[2] = 0
  /\ Goto(h, "dumped", "end")
  /\ halted' = TRUE
  /\ UNCHANGED <<barrierVars, threadVars, memVars>>

\* dump_not_core0, dump_not_thread0: spin until thread 0 stops it.
EndNotCore0(h) ==
  /\ h[1] # 0 \/ h[2] # 0
  /\ Goto(h, "dumped", "end")
  /\ UNCHANGED <<barrierVars, threadVars, memVars, halted>>

Start(h) ==
  \/ SpinForever(h) \/ EnterResetBarrier(h) \/ LeaveResetBarrier(h)
  \/ StartThread0(h) \/ BevClear(h) \/ CopyStub(h) \/ StoreBranches(h)
  \/ ZeroTrapCount(h) \/ ClearBss(h) \/ BssDone(h)
  \/ AllThreads(h) \/ CrtInitGlobals(h) \/ GlobalsDone(h)
Trap(h) == \E v \in Vectors : TrapHandled(h, v) \/ TrapLost(h, v)
Test(h) ==
  StoreBss(h) \/ (\E g \in Globals : StoreGlobal(h, g)) \/ Trap(h) \/ OtherThreadsGo(h)
Finish(h) == Dump(h) \/ Halt(h) \/ EndNotCore0(h)

Next == \E h \in HwThreads :
          Start(h) \/ Test(h) \/ OtherThreadsGone(h) \/ TestReturns(h) \/ Finish(h)

Spec == Init /\ [][Next]_vars

\* Every processor runs, and the test does not loop for ever: it returns
\* once it could always do so.
Fairness ==
  \A h \in HwThreads :
    /\ WF_vars(Start(h)) /\ WF_vars(OtherThreadsGone(h)) /\ WF_vars(Finish(h))
    /\ WF_vars(TestReturns(h))

FairSpec == Spec /\ Fairness

-----------------------------------------------------------------------------

\* No thread but 0 gets past reset_barrier before thread 0 has installed all
\* trap vectors and cleared .bss: the release comes from the test, which
\* thread 0 starts last.  No thread runs the test of a purecap image before all
\* its globals have been initialised; and crt_init_globals, which every thread
\* runs again over them, undoes what a test has stored only once thread 0 has
\* called other_threads_go (init.s, start and all_threads).
SetupBeforeTests ==
  /\ \A h \in Others :
       stage[h] \notin {"reset", "spin", "barrier"} =>
         /\ vectors = Vectors
         /\ bssNext = MaxCoreThreadId + 1
  /\ \A h \in HwThreads, g \in Globals : Purecap /\ stage[h] = "test" => global[g] # "unset"
  /\ \A g \in Globals : global[g] = "undone" => entered[Thread0] = 1

\* What a test stored to .bss is not wiped by thread 0's bzero, whichever
\* thread stored it and whenever (init.s, the bzero call).
BssStoresSurvive == \A h \in wrote : bss[CoreThreadId(h)] = 1

\* A trap in the test of thread 0 reaches the installed handler, whichever
\* vector it uses (lib.s, bev0_set_common_handler_raw and bev_clear).
Thread0TrapsHandled == stage[Thread0] # "lost"

\* When the simulator stops, the log holds a dump of thread 0 whose $k0 is the
\* number of traps its test took: no thread that finishes earlier cuts the
\* log short, and the count is zeroed before the test and read behind it
\* (init.s, start and finish).
HaltedWithThread0Traps == halted => dump[Thread0] = traps[Thread0]

\* The simulation ends: thread 0 gets through start, is not kept in
\* other_threads_go by a thread that never comes, and stops the simulator.
SimulationHalts == <>halted
=============================================================================
