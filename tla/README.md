# cheritest in TLA+

cheritest is a suite of bare-metal tests for the BERI and CHERI processors. A
test is a small assembly or C program. It is linked with a start-up file and a
library, run on a simulator (or on gxemul), and judged from the registers it
leaves behind. This project models the code of the repository that every test
relies on; the DMA fuzzer, which is the largest generator in it; and the C
tests of `cheri-c-tests` with the runtime and the copying routine they come
with. The processor is the thing under test and is not in the repository; where
a model needs it, it is an environment, written from how the code uses it.

Contents: [inventory](#1-inventory), [modules](#2-modules-and-the-code),
[runs](#3-runs), [disagreements found](#4-disagreements-found),
[proofs](#5-proofs), [what is left out](#6-not-modelled).

## 1. Inventory

| Component | State it keeps | Operations | What makes it correct |
|---|---|---|---|
| `thread_barrier`, `get_corethread_id` (`lib.s`), `mkBarrier` (`macros.s`) | a byte per hardware thread | a call: sync, increment own byte, scan all bytes until none is behind, sync | nobody leaves early; stores before are visible after; the result counts the calls; calls return |
| start-up and shut-down (`init.s`, `init_multi.s`) | trap vectors, `Status.BEV`, trap count (`UserLocal`), `.bss`, globals, `reset_barrier` | `start`, `all_threads`, `other_threads_go`, `finish`, `multi_start` | set-up precedes use, on every thread; the dump shows the traps; the simulator is stopped |
| counting trap handler (`macros.s`) and its decoder (`beritest_tools.py`) | trap count, packed description in `$k1` | trap, pack, skip, return; exit by system call; decode | description and count are right; execution resumes behind the fault |
| old trap handler (`init.s`) | trap counts, budget of exceptions | trap, timer interrupt, `die_on_exception` | nothing is skipped unexecuted; every exception counts; the budget is exact |
| memory functions (`lib.s`) | memory with capability tags | `bzero`, `memcpy_nocap`, `memcpy_c`, `smemcpy` | exactly the named bytes change; tags follow whole capabilities; calls return |
| DMA fuzzer (`fuzz_dma`) | program tree and its list of spaces; the test's array of active threads | grow a program; start, switch, poll, remove, draw again; assert | length and nesting of a program are bounded; only threads not yet seen ready are switched to; assertions see the results |
| dump, log, verdict (`init.s`, `gxemultosim.c`, `tools/sim`) | the log; registers by core | dump, cut off, filter, parse, test methods | registers belong to their core; a pass means a finished, good run; a verdict always comes |
| copying routine of the C tests (`clang-hybrid/memcpy.c`) and its five tests | memory with tags, the phase and the loop of a call | `memcpy`, `memcpy_c`, `memmove`, `bcopy`; the tests' stores and checks | the promise of memmove, tags included; no access out of bounds or unaligned; tests hold and end |
| C tests (`clang-purecap`, `clang-hybrid`, `libc`) | verdicts of the tests run | run a test; compare faults and assertions | a conforming machine passes, a defective one fails some test |
| purecap start-up (`crt_init_globals.c`) | the global pointers made so far | apply one relocation | a pointer reaches its object and no more; no pointer is writable and executable |
| C test runtime (`test_runtime.c`) | the context of the signal | count, call the test's handler, decode and emulate a branch, skip | a test goes on where the processor would have |
| feature filter (`conftest.py`, `attr`) | none | which tests are skipped | not modelled |
| text filters and tables (`l3tosim.c`, `xmlcat.c`, `max_cycles.c`, `select_init.c`, `elfhdr.c`) | none | straight-line | not modelled |
| instruction fuzzers (`fuzz_cap.py`, `fuzzing/`) | none | print random instructions | not modelled: the meaning of the output is the processor's |
| assembly tests, makefiles, CI, vendored C | | | not modelled |

**How they interact.** `start` uses the numbering and the barrier of `lib.s`,
installs a stub with `memcpy_nocap` and clears `.bss` with `bzero`. A test runs
on thread 0 and may release the other threads with `other_threads_go`, which
is a call of the barrier they wait in. Traps go through the stub to the
handler defined by the test's `BEGIN_TEST`. `finish` writes the trap count to
`$k0` and dumps all registers, and thread 0 stops the simulator. The log is
parsed by `MipsStatus`, and test methods written in Python compare registers
and decode `$k1`. The C tests are built twice: bare (`tests/purecap`), where
`init.s` starts them, `crt_init_globals` makes their pointers and the old trap
handler skips their faults; and for FreeBSD (`cheri-c-tests/Makefile`), where
`test_runtime.c` does.

**What is hard here.** Several hardware threads on weakly ordered memory with
nothing but a barrier between them; registers that exist once per thread but
are set up on thread 0 only; traps that strike in delay slots or together with
the timer; loops that turn before they test and stop on equality only; copies
whose head, words, capabilities and tail must add up for every pair of
alignments, forwards and backwards; a log in which the dumps of several cores
mix, or which ends anywhere; a fuzz test that draws modulo a count that reaches
zero; a suite that is only as good as the defects it can tell. The list, line
by line, is under `hazards` in `PROJECT.json`.

## 2. Modules and the code

| Module | Code | Builds on |
|---|---|---|
| `CoreThreads` | numbering of hardware threads (`get_corethread_id`, `max_thread_count`) | |
| `AbstractBarrier` | what callers of `thread_barrier` may rely on | |
| `ThreadBarrier` | `thread_barrier` | `CoreThreads`; implements `AbstractBarrier` |
| `MCThreadBarrier` | for TLC, with the invariant of the proofs | `ThreadBarrierProofs` |
| `Boot` | `init.s`, `init_multi.s`, the installation of the stub | `CoreThreads`, `AbstractBarrier` |
| `TrapCpu` | external: exceptions, delay slots, timer | |
| `CountingTrap` | `macros.s` handler, `CompressedTrapInfo` | `TrapCpu` |
| `OldTrap` | `exception_count_handler`, `die_on_exception` | `TrapCpu` |
| `LibMem` | `bzero`, `memcpy_nocap`, `memcpy_c`, `smemcpy` | |
| `DmaProgramGen` | `dma_test_generation.c` | |
| `DmaTest` | `generate_programs`, `multithread_test_template.c` | `DmaProgramGen` |
| `TestVerdict` | `finish`, `gxemultosim.c`, `MipsStatus`, test methods | |
| `AbstractCopy` | what memcpy, memmove and bcopy promise on tagged memory | |
| `CopyRoutine` | `clang-hybrid/memcpy.c` | |
| `CopyTests` | `clang_hybrid_memcpy.c`, `_memmove.c`, `_bcopy.c`, `libc_memcpy.c`, `libc_memmove.c` | `CopyRoutine`; implements `AbstractCopy` |
| `CapMachine` | external: capabilities, their operations, exception causes, 34 defects | |
| `CStartup` | objects and global pointers of the C tests, `crt_init_globals.c` | `CapMachine` |
| `PurecapTests`, `IntcapMath` | `clang-purecap` | `CStartup` |
| `HybridTests` | `clang-hybrid` without the copying tests | `CStartup` |
| `LibcTests` | `libc` without the copying tests | `CStartup` |
| `TestRuntime` | `test_runtime.c`, with the branches and jumps of the processor | |
| `CSuite` | the test lists, `run.sh`, the frameworks' verdicts; composes start-up and tests | the four above |
| `ThreadBarrierProofs`, `BootProofs`, `CountingTrapProofs`, `OldTrapProofs`, `LibMemProofs`, `DmaTestProofs`, `TestVerdictProofs`, `CopyTestsProofs` | inductive invariants and theorems | the module they are named for |

**ThreadBarrier.** An action is one access to shared memory. Each thread has a
store buffer for its counter and for one word of the caller, which drain in
any order; `sync` waits for the buffer. `$v0` is kept unmasked, as in the
code, while the store keeps its low byte: the two differ on the call that
wraps. `CounterMod` is 256 in the code and a parameter here.

**Boot.** Thread 0 goes through `start` stage by stage; the others call the
barrier, in its abstract form (`ResetBarrier`), which `ThreadBarrier`
implements. In a purecap image every thread then makes the global pointers, one
relocation a step (`CrtInitGlobals`); a pointer that is made again over what a
test had stored is `undone`. The test is arbitrary: in any order it stores to
`.bss`, stores to a global, traps, and on thread 0 releases the others.
`UserLocal` holds an
arbitrary value at reset. `multi` selects `init_multi.s`. The register fill
and the status bits other than BEV play no part in a property.

**TrapCpu, CountingTrap, OldTrap.** A program is any sequence of plain,
faulting, system-call and branching instructions; addresses count
instructions, so `EPC += 4` is `+ 1`. Registers that are packed are four
halfwords, which is exact for the shifts the code makes (multiples of 16).
`OldTrap` adds the timer, which can fire between the exception and the
handler's read of `Cause`, and `DIE_ON_EXCEPTION`, chosen per behaviour.

**LibMem.** A step is a turn of a loop. A byte of memory holds the address it
came from, or `Zero`; a capability granule has a tag, which any store but a
capability store clears.

**DmaProgramGen, DmaTest.** Of the tree the generator grows, a space is kept as
its loop depth, in the order of the list. `myrand()` is any value up to
`RAND_LIMIT`; the code compares products of it, and a range of
`LENGTH_LIMIT * SPACE_LIMIT` already contains every outcome. The DMA engine is
external: it executes the thread it was last switched to. `myrand() % 0`
yields a number that denotes no thread.

**TestVerdict.** A line of the log is a record. Cores finish in any order, and
the cycle limit may end the log behind any line. The registers kept are
`$v0`, `$k0`, the PC, one capability register and PCC. Three kinds of method
give verdicts: `test_exception_count`, a method that reads every core, and
`verify_clang_test`.

**CopyRoutine, CopyTests.** A step is a turn of a `MIPSLOOP`. An access that is
outside the ranges of the call or not aligned to its size ends the call in
`trap`, as the capabilities of the tests would make it. A test is a script of
calls, stores and checks on the two structures it has on its stack, whose order
and former contents are arbitrary. A byte of memory is a number, or the i-th
byte of a capability to an address, so that a check can tell a capability that
was copied whole from its bytes. `memcpy.c` is the routine that the three
hybrid tests test. The two libc tests call the memcpy and memmove of the C
library, which is not in the repository; they run on `memcpy.c` in its place, so
what they show is that the tests themselves are consistent.

**CapMachine, CStartup and the test modules.** A capability is a record of tag,
base, length, offset, permissions and type. Every operation takes the defect of
the machine it runs on; with `"none"` it is what the tests expect of a
processor, a compiler and a C library that conform. A test is a straight line
of C: an operator of its name gives the exceptions it raises and whether its
assertions hold. A load that faults is skipped and leaves a value in the
register that equals nothing, so an assertion on it fails. One assumption is
about the compiler: in `clang_purecap_va_list_global.c` the `va_arg` that faults
(line 60) leaves `cp` as it was, so that the next assertion sees the second
argument; the comment at line 64 places the fault at `*cp`, and a compiler that
spreads the two differently would change the count of faults.

**TestRuntime.** One fault of one test, and what the signal handler makes of it.
An instruction word is the set of its bits, which `getImm` masks as the C code
does, the distance of the shift modulo 32 included. The fault is in a delay slot
or not, behind any branch or jump, with pointers of 16 or 32 bytes. A register
number that was decoded too large reads what lies behind the registers of the
context, an arbitrary value.

**CSuite.** It makes the global pointers one relocation at a time and runs the
tests of a build one after the other. A fault is counted and skipped, in the
bare build by the old trap handler, in the FreeBSD build as far as
`fault_resume` shows that the runtime does.

Operators whose names extend that of another (`SyncInNoWait`, `BehindByTwo`,
`ParseCoreNotCap`) are wrong variants of it. They are used by the entries
under `mutants` in `PROJECT.json`, each of which replaces a definition by its
variant and expects a property to fail: this shows that every property depends
on the code. Nothing else refers to them.

## 3. Runs

`tlc -config X.cfg M`, within this directory. `barrier` takes a minute and a
half, the others less than a minute.

| Run | Instance | Shows |
|---|---|---|
| `barrier` (`ThreadBarrier.cfg`) | 2 cores of 2 threads, counters of 4 values, 4 calls each | nobody leaves early; stores are visible behind the barrier; the result counts the calls; the call that wraps never returns; the abstract barrier is implemented; calls return that no wrapping call can race with; the invariant of the proofs |
| `boot_safety` (`Boot.cfg`) | 3 cores, 1 trap each, purecap, 2 global pointers | set-up precedes tests, and no global a test has stored to is made anew before the others are released; `.bss` stores survive; thread 0's traps are handled and shown in its dump; the simulator stops |
| `trap_counting` (`CountingTrap.cfg`) | all programs of 4 instructions | `$k1` decodes to the trap taken; counted once; resumed behind the fault; programs end |
| `old_trap` (`OldTrap.cfg`) | all programs of 3 instructions, 2 timer interrupts, budget up to 3 | no plain instruction is lost; all exceptions counted; the budget is exact; programs end |
| `lib_mem` (`LibMem.cfg`) | every alignment and length to 17, tags set or not | exactly the named bytes; tags follow whole aligned capabilities; calls return |
| `dma_test` (`DmaTest.cfg`) | limits 6 and 4, up to 3 threads | length and nesting of the programs are bounded; only threads not yet seen ready are switched to; assertions reached, with every result |
| `test_verdict` (`TestVerdict.cfg`) | 2 cores or gxemul; any of them hangs | registers of their own core; a pass is deserved; C verdicts are right; a verdict comes |
| `copy` (`CopyTests.cfg`) | the five tests with words of 8 and capabilities of 16 and 32 bytes; every call on a scaled memory | no access out of bounds or unaligned; no assertion fails; the abstract copy is implemented; every test ends |
| `c_suite` (`CSuite.cfg`) | both builds, 34 defects and none, capabilities of 32 bytes | exactly the defects listed below go unnoticed; global pointers are confined |
| `bzero_misfit`, `gxemul_no_dump`, `fault_resume` | see section 4 | expected violations |

**Bounds.** Four hardware threads, two on each core, have several that are
neither the first nor the last of a scan, and one that may be a call ahead of
another while a third waits; with one thread a core, or one core, a wrong
numbering would go unnoticed. Four calls with `CounterMod` 4 include the wrap.
`EveryCallReturns` is about the calls up to `CounterMod - 2`: behind the
next one a thread may enter the wrapping call and lower its byte while a slow
thread still scans for it, and that one then waits for ever (in the code, the
255th and 256th call of one barrier).
Four instructions hold a branch, its faulting delay slot, what follows and a
system call; three are enough with the timer, which can strike at each.
`LibMem` uses word and capability sizes of 8 and 4 (the code has 8 and 16 or
32): length 17 holds a head, two whole words or several capabilities and a
tail, and the lengths 11, 12 and 13 at which `bzero` changes its path. The
scaled DMA limits keep the ratio that matters, and allow three nested loops, as
many as `LoopsBounded` does; `MaxZeros` bounds draws of 0, which alone can let a program
grow past its bound. Two cores suffice for dumps that mix, since the parser
keeps no more than one cursor.
`CopyTests` runs the tests at the sizes the code has. The single calls use
words of 2 bytes and capabilities of 2, 4 and 8 (equal to a word, as in a build
without capabilities, and of two and four words) in a memory of `MaxCaps` = 2
capabilities and two words for each pointer: there is a head of bytes and of
words, whole capabilities and a tail, every overlap and both directions.
`libc_malloc` goes up to the size the test goes to. `fault_resume` has every
branch and jump of the code, with operands from -1 to 1 and `$zero`, a branch
forwards and one backwards, and the capability registers on both sides of the
handler's cases.

**Fairness.** Barrier and start-up: every hardware thread runs, its store
buffer drains (the processors have no starvation of stores), a thread makes its
calls, a test returns; a trap is never required. Traps: the processor and the
handler run. `LibMem` and `CopyTests`: the only process runs. DMA: generator
and test run, the engine makes progress on a thread it is switched to again and
again (strong, because switching away disables it), and the pseudo-random
generator does not avoid drawing one of its active threads for ever (strong).
Verdict: the cycle limit comes, the filter and the checker run; the test itself
need not end.

**Deadlock** is checked in `c_suite`. Elsewhere a program that has ended, a
simulator that has stopped, and the call of the barrier that wraps stop for
good, and the liveness properties say where they may.

**Which defects a build notices.** `DefectsCaught` is exact: it fails if a
defect listed here is noticed, or another is not.

| Defect | FreeBSD build | bare build |
|---|---|---|
| `no_tag_check`, `no_seal_check`: an access does not check tag or seal | unnoticed: no test dereferences a pointer for its tag or its seal alone | unnoticed |
| `byval_shared`, `byval_untagged`: a structure passed by value is not copied, or loses its tags | unnoticed: `clang_purecap_byval_args` is in no list of the `Makefile` | noticed |
| `calloc_dirty_end`: the last byte is not cleared | unnoticed: the loop of `libc_malloc.c:66` ends before it | (no C library) |
| `no_lower_bound`, `unseal_keeps_type`, `narrow_store_wide` | noticed, by hybrid tests | unnoticed: hybrid tests are not built |
| `wrong_cause`: the cause of an exception is another | noticed, by `clang_purecap_array` | unnoticed: `test_purecap.py` leaves that test out |

The bare build has all purecap tests but `clang_purecap_array` and
`clang_purecap_stack_cap`.

## 4. Disagreements found

Each is a run that TLC refutes, with an entry under `findings`.

* `bzero_misfit`: `bzero` of 12 to 14 bytes at an address that needs 5 to 7
  bytes to align has no whole word left, and its do-while loop, which stops on
  equality, runs past the end (`lib.s:71`). The passing run excludes these
  calls (`MisfitCalls`).
* `gxemul_no_dump`: `gxemultosim` prints a dump of zeros when gxemul printed
  none, and `verify_clang_test` passes on it.
* `fault_resume`: behind a fault in a delay slot, `test_runtime.c` does not go
  on at "either the branch target or the instruction immediately following the
  delay slot" (its lines 237-240). A taken `bgez` or `bgezl` runs into the
  assertion that belongs to `bltzl` (line 280). `j` and `jal` go on at 0 (291).
  The opcodes of `jr` and `jalr` are compared with the wrong field and never
  match, so that the test is aborted (293). `cjr` and `cjalr` take their offset
  from a register that the instruction does not name (334). And the mask of
  `getImm` (141) is shifted by `cap_size - len` where the width of a word is
  meant: with pointers of 16 bytes a field keeps bits of its neighbours, and a
  branch compares what lies behind the registers. TLC stops at the first of
  these; `tlc -continue` lists them. The other branches, with pointers of 32
  bytes, resume where the processor would.

Noticed while modelling, and not subjects of runs:

* Start-up: only thread 0 clears `Status.BEV` (`init.s:102`), so a trap of any
  other thread goes to the boot vectors, where nothing is installed, and the
  thread is lost without a dump (the stage `lost` of `Boot`), while the comment
  at `init.s:39-41` promises a register dump "even if things go horribly wrong".
  Only thread 0's trap count is
  zeroed, so the dumps of the others may show anything. Thread 0 may stop the
  simulator before a released thread has dumped. In a purecap image each
  released thread runs `crt_init_globals` again, under the running test, and
  undoes its stores to globals: `SetupBeforeTests` says no more than that this
  happens only behind `other_threads_go`.
* Traps: comments in `macros.s` give bits 32-63 for the count (it is in 48-63)
  and EPC+4 for the return (EPC+8 in a delay slot). The old handler takes a
  fault that coincides with a pending timer for the timer (`init.s:452`), so
  that the faulting instruction traps again, and it returns to the faulting
  instruction from a delay slot (`init.s:462`).
* Library: `smemcpy` of length 0 returns the base of the default capability
  (`lib.s:504`), which is why `DoneExactly` asks for the result of non-empty
  copies only.
* Checker: `tools/sim/__init__.py:177` compares a register number with `>`
  where `>=` is meant. The virtual layout of a DMA test checks only the first
  page of a region for a clash (`generate_multithread_dma_test.cpp:254`).
* Copying tests: `invalidate` stores to `*x` and never moves `x`
  (`clang_hybrid_memcpy.c:86`), so only one byte of the output is invalidated
  before a copy.
* C tests: the tests byval_args, intcapmath and va_list_global are declared and
  in no list of the FreeBSD build; union_struct is not declared.
* Global pointers: a relocation of data of size 0 sets no bounds
  (`crt_init_globals.c:95`). The C tests have no such object, and the table of
  `CStartup` none either, so `GlobalsConfined` is not about it.
* DMA generator: five loops can nest (with the real `myrand` the seed 4501 does
  it), and `assert(loop_level <= 4)` fails (`dma_test_generation.c:264`). What
  holds is `LoopsBounded`, which with the code's limit of 12 admits six.
* `test_runtime.c`: with pointers of 8 bytes the shift of the mask is by a
  negative distance; a fault of the capability registers 26 to 31 aborts.

## 5. Proofs

`tlapm M.tla` for each of the eight modules. They hold for every value of the
constants that the named assumptions admit.

| Module | Theorems | Assumptions |
|---|---|---|
| `ThreadBarrierProofs` | `TypeCorrect`, `Invariance`, `BarrierSafety`, `BarrierPublishes`, `BarrierResult`, `WrappedCallStays`, `BarrierRefinement` | at most `max_thread_count` (32) hardware threads, counters of at least two values |
| `BootProofs` | `BootInvariance`, `SetupFirst`, `BssSafe`, `Thread0Handled`, `HaltAfterDump` | the same topology, any number of traps and of global pointers, purecap or not |
| `CountingTrapProofs` | `TrapInvariance`, `InfoFaithful`, `TrapsCountedOnce`, `TrapReturns`, `ProgramGoesOn` | `CountingTrapAssumption`: no timer interrupts, programs of fewer than 2^16 instructions |
| `OldTrapProofs` | `OldInvariance`, `NoInstructionLost`, `EveryExceptionCounted`, `BudgetKept`, `ProgramGoesOn` | none beyond the types: any program length, number of interrupts and budget |
| `LibMemProofs` | `MemInvariance`, `NothingElseWritten`, `AllWritten`, `TagsRight`, `EveryStepAdvances` | `LibMemAssumption`: source and destination regions do not overlap; `~MisfitCalls`: `bzero` is called with a whole word to clear, or few bytes |
| `DmaTestProofs` | `DmaInvariance`, `GeneratorCounts`, `GeneratorBounded`, `GeneratorNesting`, `TestSwitches`, `TestAssertsLast` | positive limits and thread counts |
| `TestVerdictProofs` | `VerdictInvariance`, `RegistersFiled`, `PassDeserved`, `ReadInvariance`, `ClangJudgedRightly`, `UnfinishedFails` | at least one core |
| `CopyTestsProofs` | `CopyInvariance`, `RoutineNeverTraps`, `CopyRefinement`, `ScriptInvariance`, `TestsHold`, `EveryStepCloser` | `CopyTestsAssumption`: positive sizes, a capability is a whole number of words; in the tests it is larger than a byte, and 32 bytes (`pad0`) are a whole number of capabilities, so that the structure has no gap before `y` |

**Barrier.** `NobodyLeavesEarly` is not inductive: it says nothing of a thread
in the midst of its scan. `IInv` adds what relates memory to calls.
`Announced(g)` is the number of calls of `g` that memory shows, one less than
its calls until its counter has left the store buffer. `CallsInv` ties `$v0` to
the calls and keeps a thread that returns below the wrap. `MemoryInv` says that
a byte in memory is `Announced` modulo the width, and that the word stored
before a call has left the buffer once the first `sync` is passed. `ScanInv`
says what a scan at index `t0` has established: everyone above `t0` has
announced at least the scanner's call. The step that matters is
`SeenIsAnnounced`: a byte not behind an unmasked `$v0` shows that its thread has
announced that many calls, wrapped or not, because a byte never shows more than
the count it stands for (`LowBelow`); `Announced` never decreases
(`AnnouncedKept`), so what a scan has seen stays true (`ScanInvStable`).
`CoreThreadIdInjective` (core * threads + thread is unique) makes two threads'
counters distinct bytes. `BarrierRefinement` justifies the abstract barrier in
`Boot`.

**Boot.** The safety properties speak of the moment a test runs or the
simulator stops; the invariant follows thread 0 through `start`. `Thread0Inv`
says what is complete at each of its stages, `OthersInv` that a thread past the
barrier implies that thread 0 has entered it, and so is past its set-up, and
`MemoryInv` what tests have left in `.bss`. `GlobalsInv` follows the relocations:
the pointers below `reloc` are made, on every thread for itself, and none is
undone before thread 0 has entered the barrier. `Thread0Number`: exactly one thread
has number 0, for every topology.

**Counting handler.** `ReturnInv` ties EPC and the delay-slot bit to the
instruction that trapped at each step of the handler, `InfoInv` the halfwords of
`$k1` to the exception. That an instruction traps once needs that the program
only goes forward (`CountInv`), and that the packed count does not overflow
needs in turn that nothing traps twice: `TrapsFit` bounds the traps by the
length of the program.

**Old handler.** `NothingSkippedUnexecuted` compares the instructions behind the
program counter with those that ran. The invariant adds that an interrupt that
brought the processor into the handler is still pending when the handler reads
`Cause` (`SkipInv`), so that EPC is moved only for an instruction that trapped.

**Memory functions.** `Progress` gives all of memory at every turn of a loop:
the bytes below the cursor have their new value, all others their old. For the
loops that stop on equality `LoopInv` adds that a whole number of units, and at
least one, is left (`Whole`); it is what the excluded calls of `bzero` break.
Alignment is arithmetic on remainders (`ModRange` and the lemmas behind it),
for any sizes of word and capability.

**DMA.** In the generator a space stands for at least one instruction to come,
so `program_length + spaces` is bounded, apart from draws of zero; `Signs` says
what the code's comparisons of products decide. `LevelInv` bounds the nesting: a
space inside n loops stands in a program of at least 2n instructions, and the
innermost loop was begun when the program was not yet full. In the test, the array of
active threads lists the threads not yet seen ready, each once (`ActiveInv`),
and what was drawn is in it (`DrawnInv`), which a removal keeps although it
rearranges the array.

**Verdict.** `LogInv` says what precedes each line of the log: a dump is a
header and its registers in order, all of one core that has got so far. It is
kept by appending a dump and by cutting the log anywhere (`LogGrows`,
`LinesKept`). Hence the cursor is always the core of the dump being read
(`CursorInv`, `RegisterFiled`), and what is filed under a core is what that core
dumped (`FiledInv`), which is what the verdicts are read from (`PassInv`).
`ClangVerdictRight` also says when a test may not fail, and that needs the
converse: no line that was read is lost (`FoundInv`, which the same cursor
argument keeps), and the verdict is given when all lines are read (`ClangInv`).
A whole dump of core 0 therefore makes `__init__` find its PC and
`verify_clang_test` its `$v0`. `GxemulInv` describes the one dump that
gxemultosim makes up, whose exit code is the test's once the test has finished.
For the other simulators `UnfinishedFails` proves what `gxemul_no_dump` refutes
for gxemul.

**Copying routine.** `NeverTraps` and the refinement need the whole history of a
call at every turn of a loop. `Written(a)` says which bytes the cursor has
passed, upwards or downwards, and `BytesInv` that these hold the source's old
bytes and all others their own. A turn reads only what is not written yet:
upwards because the destination lies below the source, downwards because it
lies above, and without overlap in any order (`TurnWorks`). `LoopInv` keeps a
whole number of units, at least one, between the cursor and the end of a loop
that stops on equality. `TagsInv` is the delicate part: a granule that a loop of
bytes or words touches loses its tag, so such a loop must not meet a granule
that is to be copied as a capability (`Whole`). `PhaseInv` says what each phase
leaves to the next so that this holds: behind `align` both pointers are on a
word boundary or nothing is left, behind `words` on a capability boundary or
less than a word is left, and so on (`AlignStep`, `WordsStep`, `PtrsStep`,
`TailStep`). Alignment is arithmetic on remainders by two moduli, one a multiple
of the other (`Multiples`, `Congruent`, `Coarser`, `BoundaryAbove`,
`BoundaryBelow`). For the tests, the invariant includes that every call a script
still makes stays inside the two structures (`Steps`, `StructScript`,
`BufferScript`). The refinement shows that a turn is a step inside the target
(`TurnInTarget`) and the return the completed copy (`ReturnCopied`).

**Copying tests.** `AssertsHold` says nothing of the steps to come, so the
invariant (`ScriptInv`) speaks of the rest of the script. A script is typed
(`Typed`): each step says which structure it copies from and is justified by the
step before it (`Justifies`), a check of a copy by the copy. The scripts are
concatenations, and `Block` is what composes: the pieces that the tests share are
blocks (`PartBlocks`), a concatenation of blocks is one (`BlockJoin`), hence
every script is typed (`StructTyped`, `BufferTyped`) and stays so when its head
is taken (`TypedTail`). Of memory the invariant says that the structure copied
from is ready (`Ready`: its pads are filled and `y` holds the capability), and
that what the next check asks for (`Holds`) is true; during a call, that the
memory at entry was ready and that the call is the copy that justifies the next
check (`InCall`). When the routine is through, its own invariant gives the bytes
and tags it has copied (`CopiedFacts`), and from these follows what the check
asks for (`StructCopied`, `DigitsCopied`). The check
behind a copy from `pad0[1]` finds no tag because the pointers differ by one
modulo the capability size, which is where a capability larger than a byte is
used.

**Termination.** Liveness is out of the prover's reach, but not what it rests
on: a measure that every step decreases. `EveryStepAdvances` (lib.s),
`EveryStepCloser` (the copying routine and its tests) and the two
`ProgramGoesOn` give one each, in lexicographic order, from the invariants above.
The loops of lib.s and memcpy.c end on equality, and it is the whole number of
units left that keeps a cursor from stepping over its end. In the old handler the
program counter may go back, when an interrupt or a fault strikes in a delay
slot; the measure there puts the timer interrupts to come first, then the
pending one, the instruction at which the program goes on (EPC once it is
moved), whether it is in a delay slot, and last the stage of the handler. What
is left to TLC is that a step is enabled until the end is reached.

**Only model-checked.** Liveness itself (fairness and ENABLED are out of the
prover's reach). And `c_suite` (`DefectsCaught`, `GlobalsConfined`), whose
instance is the whole suite with its own tables, so that
the run has every case there is, and whose machine uses bit operations on
integers (`CapMachine` extends `Bitwise`) that the prover does not have.

## 6. Not modelled

* The semantics of instructions beyond what the handlers, loops and tests use.
  `TrapCpu`, `CapMachine`, the DMA engine, the simulators' output and the C
  library are external, modelled from how the code uses them.
* Timer interrupts under the counting handler, which does not clear them
  (`init.s:88` says so): it would count and skip without end. More than 65535
  traps, at which the packed count overflows.
* `CAP_SIZE` 64, for which `memcpy_c` of `lib.s` has no capability store
  (`lib.s:560`), and overlapping calls of memcpy, which it does not define.
* `memmove_c`, which no test calls; the hybrid tests toy (no capability), pack
  (its unaligned store is emulated by the operating system) and the two of
  floating point, which the `Makefile` disables.
* The registration of the handler in `test_runtime.c`, and its builds with
  pointers of 8 bytes.
* The layout of a DMA test (`generate_multithread_dma_test.cpp`), which computes
  addresses and prints C, `list_transfers` and the single-thread test.
* The other vector setters of `lib.s`, which copy the same stub to one vector
  each; the capability set-up of `all_threads` and `install_tlb_entry`, which
  only write registers of the processor.
* The feature filter of `conftest.py`, the assertion helpers that compare
  capability fields, the names of log files, a register that is dumped twice
  (the last value counts): filters and text without state of their own.
* gxemul's own dispatch, log helpers, instruction fuzzers, the assembly tests,
  build and CI, vendored code, with the reasons given in `PROJECT.json`.

Worth adding next: the DMA layout, with the claim that two threads' regions are
disjoint; and the multicore tests on load-linked and store-conditional, which
need a model of the cache the tests are about.
