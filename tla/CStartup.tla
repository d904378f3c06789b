------------------------------ MODULE CStartup ------------------------------
(***************************************************************************)
(* What the C tests of cheri-c-tests share: the objects in memory, the     *)
(* global pointers that the start-up code makes (crt_init_globals.c), and  *)
(* the ways a test touches memory.                                         *)
(*                                                                         *)
(* Objects are known by address, and what they hold by the address too.    *)
(***************************************************************************)
EXTENDS CapMachine, Sequences, SequencesExt

CONSTANT SizeofPtr     \* sizeof(void *): 16 or 32

ASSUME CStartupAssumption == SizeofPtr \in {16, 32}

\* What a test comes to: the exceptions it raises, and whether its assertions hold.
Result(faults, ok) == [faults |-> faults, ok |-> ok]
Quiet(ok) == Result(0, ok)

\* Elements of n bytes at the offsets in S from c: exceptions of touching all of
\* them.  An assertion on a value that is read holds only if the load happens:
\* the handler skips a load that faults, and the register keeps another value.
Sum(S, F(_)) == FoldSet(LAMBDA x, s : F(x) + s, 0, S)
FaultsOf(m, c, access, n, S) == Sum(S, LAMBDA o : Faults(m, IncOffset(m, c, o), access, n))
Loads(m, c, n, S) == FaultsOf(m, c, "LOAD", n, S) = 0
Stores(m, c, n, S) == FaultsOf(m, c, "STORE", n, S) = 0
Strided(n, k) == {k * i : i \in 0 .. n - 1}     \* offsets of n elements of k bytes

-----------------------------------------------------------------------------
\* Addresses of objects: globals, then the stack and the heap.
Foo == 4096
NotCode == 4112
Str == 4128
Words == 4192
Arg == 4200
Counters == 4224
Buffer == 4352
TestFn == 8192
Stack == 65536
Heap == 2^22

\* struct capreloc: the relocations of the tests' global pointers, in the order
\* of the table.
Reloc(loc, object, offset, size, isFunction) ==
  [loc |-> loc, object |-> object, offset |-> offset, size |-> size, isFunction |-> isFunction]
CounterSize(i) == IF i = 5 THEN SizeofPtr ELSE 2^(i - 1)
CapRelocs ==
  << Reloc(<<"bar", 0>>, Foo, 0, 6, FALSE), Reloc(<<"x.f", 0>>, TestFn, 0, 0, TRUE),
     Reloc(<<"f", 0>>, TestFn, 0, 0, TRUE), Reloc(<<"not_a_function", 0>>, NotCode, 0, 4, FALSE),
     Reloc(<<"ptr", 0>>, Words, 0, 8, FALSE),
     Reloc(<<"arg", 0>>, Arg, 0, 5, FALSE), Reloc(<<"arg", 1>>, Arg + 8, 0, 5, FALSE) >> \o
  [i \in 1 .. 5 |-> Reloc(<<"counter", i>>, Counters + 8 * i, 0, CounterSize(i), FALSE)] \o
  [i \in 1 .. 8 |-> Reloc(<<"ptrs", i - 1>>, Str, i - 1, 22, FALSE)]

\* crt_init_globals: the roots of data and of function pointers, and the
\* capability a relocation asks for.
global_pointer_permissions == Perms \ {"EXECUTE"}
function_pointer_permissions == Perms \ {"STORE", "STORE_CAPABILITY"}
gdc(m) == AndPerms(m, DDC, global_pointer_permissions)
pcc(m) == AndPerms(m, PCC, function_pointer_permissions)
RelocatedBoundsLast(m, r) ==
  LET src == SetOffset(m, IF r.isFunction THEN pcc(m) ELSE gdc(m), r.object + r.offset)
  IN  IF ~r.isFunction /\ r.size # 0 THEN SetBounds(m, src, r.size) ELSE src
Relocated(m, r) ==
  LET src == SetOffset(m, IF r.isFunction THEN pcc(m) ELSE gdc(m), r.object)
      bounded == IF ~r.isFunction /\ r.size # 0 THEN SetBounds(m, src, r.size) ELSE src
  IN  IncOffset(m, bounded, r.offset)

\* strlen of the start-up code: reads up to and including the terminator.
StrlenReads(m, c, n) == FaultsOf(m, c, "LOAD", 1, 0 .. n)

=============================================================================
