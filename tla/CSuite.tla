------------------------------- MODULE CSuite -------------------------------
(***************************************************************************)
(* The C test suite of cheri-c-tests, on a machine that conforms or has    *)
(* one defect (CapMachine).  It is built twice:                            *)
(*                                                                         *)
(*   "freebsd"  cheri-c-tests/Makefile: run.sh runs its TESTS one after    *)
(*              the other, and test_runtime.c counts and skips the         *)
(*              instructions that fault (TestRuntime; here it skips them   *)
(*              as it says it does); a test passes if main returns 0;      *)
(*   "bare"     tests/purecap: exception_count_handler counts and skips    *)
(*              up to continue_after_exception = TEST_EXPECTED_FAULTS      *)
(*              faults and kills the test at the next one, and END_TEST    *)
(*              compares the count.                                        *)
(*                                                                         *)
(* The start-up code first makes the global pointers, one relocation at a  *)
(* time.  The copying routines and their tests are in CopyTests.           *)
(***************************************************************************)
EXTENDS PurecapTests, HybridTests, LibcTests, IntcapMath

VARIABLES
  defect,     \* of the machine, or "none"
  framework,  \* "freebsd" or "bare"
  relocs,     \* capability relocations still to be applied
  globals,    \* the global pointers made so far, by location
  todo,       \* the tests still to be run
  verdict     \* of the tests that were run: whether they passed

vars == <<defect, framework, relocs, globals, todo, verdict>>

-----------------------------------------------------------------------------
\* TESTS of the Makefile.  Three of the tests that cheri_c_testdecls.h declares
\* are not among them, nor is the one that it does not declare.
TESTS_CLANG_PURECAP ==
  <<"clang_purecap_array", "clang_purecap_atomic", "clang_purecap_badcall",
    "clang_purecap_capcmp", "clang_purecap_capret", "clang_purecap_capretaddr",
    "clang_purecap_funptr", "clang_purecap_init", "clang_purecap_input",
    "clang_purecap_int64math", "clang_purecap_intcap", "clang_purecap_null",
    "clang_purecap_output", "clang_purecap_smallint", "clang_purecap_stack_cap",
    "clang_purecap_uint64math", "clang_purecap_uintcapmath", "clang_purecap_union",
    "clang_purecap_va_args", "clang_purecap_va_copy", "clang_purecap_va_die">>
TESTS_CLANG_HYBRID ==
  <<"clang_hybrid_cast", "clang_hybrid_cursor", "clang_hybrid_cursor_trivial",
    "clang_hybrid_intcap", "clang_hybrid_load_data", "clang_hybrid_opaque",
    "clang_hybrid_store_data", "clang_hybrid_struct", "clang_hybrid_sub">>
TESTS_LIBC == <<"libc_malloc", "libc_printf", "libc_qsort", "libc_setjmp", "libc_string">>
Unlisted == <<"clang_purecap_intcapmath", "clang_purecap_byval_args",
              "clang_purecap_va_list_global", "clang_purecap_union_struct">>

\* The bare framework has no test_fault_handler, which clang_purecap_array sets,
\* and test_purecap.py knows its stack to be too small for clang_purecap_stack_cap.
NotBare == {"clang_purecap_array", "clang_purecap_stack_cap"}
Suite(f) ==
  IF f = "freebsd" THEN TESTS_CLANG_PURECAP \o TESTS_CLANG_HYBRID \o TESTS_LIBC
  ELSE SelectSeq(TESTS_CLANG_PURECAP \o Unlisted, LAMBDA t : t \notin NotBare)

\* TEST_EXPECTED_FAULTS
ExpectedFaults(t) ==
  CASE t \in {"clang_purecap_badcall", "clang_hybrid_cursor_trivial"} -> 2
    [] t \in {"clang_purecap_input", "clang_purecap_output", "clang_purecap_va_die",
              "clang_purecap_va_list_global"} -> 1
    [] OTHER -> 0

Run(t, m, g) ==
  CASE t = "clang_purecap_array" -> clang_purecap_array(m)
    [] t = "clang_purecap_atomic" -> clang_purecap_atomic(m, g)
    [] t = "clang_purecap_badcall" -> clang_purecap_badcall(m, g)
    [] t = "clang_purecap_byval_args" -> clang_purecap_byval_args(m)
    [] t = "clang_purecap_capcmp" -> clang_purecap_capcmp(m)
    [] t = "clang_purecap_capret" -> clang_purecap_capret(m)
    [] t = "clang_purecap_capretaddr" -> clang_purecap_capretaddr(m)
    [] t = "clang_purecap_funptr" -> clang_purecap_funptr(m)
    [] t = "clang_purecap_init" -> clang_purecap_init(m, g)
    [] t = "clang_purecap_input" -> clang_purecap_input(m)
    [] t = "clang_purecap_int64math" -> math(m, "int64")
    [] t = "clang_purecap_intcap" -> clang_purecap_intcap(m)
    [] t = "clang_purecap_intcapmath" -> math(m, "intcap")
    [] t = "clang_purecap_null" -> clang_purecap_null(m)
    [] t = "clang_purecap_output" -> clang_purecap_output(m)
    [] t = "clang_purecap_smallint" -> clang_purecap_smallint(m)
    [] t = "clang_purecap_stack_cap" -> clang_purecap_stack_cap(m)
    [] t = "clang_purecap_uint64math" -> math(m, "uint64")
    [] t = "clang_purecap_uintcapmath" -> math(m, "uintcap")
    [] t = "clang_purecap_union" -> clang_purecap_union(m, g)
    [] t = "clang_purecap_union_struct" -> clang_purecap_union_struct(m)
    [] t = "clang_purecap_va_args" -> clang_purecap_va_args(m, g)
    [] t = "clang_purecap_va_copy" -> clang_purecap_va_copy(m)
    [] t = "clang_purecap_va_die" -> clang_purecap_va_die(m)
    [] t = "clang_purecap_va_list_global" -> clang_purecap_va_list_global(m, g)
    [] t = "clang_hybrid_cast" -> clang_hybrid_cast(m)
    [] t = "clang_hybrid_cursor" -> clang_hybrid_cursor(m)
    [] t = "clang_hybrid_cursor_trivial" -> clang_hybrid_cursor_trivial(m)
    [] t = "clang_hybrid_intcap" -> clang_hybrid_intcap(m)
    [] t = "clang_hybrid_load_data" -> clang_hybrid_load_data(m)
    [] t = "clang_hybrid_opaque" -> clang_hybrid_opaque(m)
    [] t = "clang_hybrid_store_data" -> clang_hybrid_store_data(m)
    [] t = "clang_hybrid_struct" -> clang_hybrid_struct(m)
    [] t = "clang_hybrid_sub" -> clang_hybrid_sub(m)
    [] t = "libc_malloc" -> libc_malloc(m)
    [] t = "libc_printf" -> libc_printf(m)
    [] t = "libc_qsort" -> libc_qsort(m)
    [] t = "libc_setjmp" -> libc_setjmp(m)
    [] t = "libc_string" -> libc_string(m)

\* What the framework makes of it.
Passed(t, r, f) == r.ok /\ (f = "bare" => r.faults = ExpectedFaults(t))

-----------------------------------------------------------------------------
Init ==
  /\ defect \in Defects \cup {"none"}
  /\ framework \in {"freebsd", "bare"}
  /\ framework = "bare" => defect \notin LibcDefects
  /\ relocs = CapRelocs
  /\ globals = <<>>
  /\ todo = Suite(framework)
  /\ verdict = <<>>

\* crt_init_globals: the loop over the table.
Relocate ==
  /\ relocs # <<>>
  /\ LET r == Head(relocs)
     IN  globals' = (r.loc :> Relocated(defect, r)) @@ globals
  /\ relocs' = Tail(relocs)
  /\ UNCHANGED <<defect, framework, todo, verdict>>

\* run.sh or test_purecap.py: the next test.
RunTest ==
  /\ relocs = <<>>
  /\ todo # <<>>
  /\ LET t == Head(todo)
     IN  verdict' = (t :> Passed(t, Run(t, defect, globals), framework)) @@ verdict
  /\ todo' = Tail(todo)
  /\ UNCHANGED <<defect, framework, relocs, globals>>

Done == todo = <<>> /\ UNCHANGED vars

Next == Relocate \/ RunTest \/ Done

Spec == Init /\ [][Next]_vars

-----------------------------------------------------------------------------
Failed == {t \in DOMAIN verdict : ~verdict[t]}

\* What each build cannot notice: no test dereferences a pointer for its tag or
\* its seal alone; the bare build leaves out clang_purecap_array, the hybrid and
\* the libc tests, the other one the tests in Unlisted, and libc_malloc stops
\* before the last byte of a cleared object.
Unnoticed(f) ==
  {"none", "no_tag_check", "no_seal_check"} \cup
  IF f = "freebsd" THEN {"byval_shared", "byval_untagged", "calloc_dirty_end"}
  ELSE {"no_lower_bound", "wrong_cause", "unseal_keeps_type", "narrow_store_wide"}

\* By the end of a run a test has failed exactly if the machine has a defect that
\* the build can notice: on a machine that conforms every assertion holds and
\* every test raises the faults it expects, and no other defect goes unnoticed.
DefectsCaught ==
  todo = <<>> => (Failed = {} <=> defect \in Unnoticed(framework))

\* The global pointers of a conforming machine: none can be both written through
\* and jumped to, and one to data reaches its object and nothing else.
GlobalsConfined ==
  defect = "none" =>
    \A i \in 1 .. Len(CapRelocs) :
      LET r == CapRelocs[i]
          c == globals[r.loc]
      IN  r.loc \in DOMAIN globals =>
            /\ ~({"STORE", "EXECUTE"} \subseteq c.perms)
            /\ ~r.isFunction => c.base = r.object /\ c.len = r.size /\ Address(c) = r.object + r.offset

=============================================================================
