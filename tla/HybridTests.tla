----------------------------- MODULE HybridTests ----------------------------
(***************************************************************************)
(* The tests of cheri-c-tests/clang-hybrid other than those of the copying *)
(* routines: plain pointers, and capabilities made from them.              *)
(***************************************************************************)
EXTENDS CStartup

\* Pointer to capability (__cheri_tocap) and back (__cheri_fromcap).
ToCap(m, a) == SetOffset(m, DDC, a)
FromCap(c) == Address(c)

clang_hybrid_cast(m) == Quiet(FromCap(ToCap(m, Buffer)) = Buffer)

\* Arithmetic on the cursor of a bounded capability to an array of 42 ints.
SizeofBuffer == 42 * 4
clang_hybrid_cursor(m) ==
  LET b == SetBounds(m, ToCap(m, Buffer), SizeofBuffer)
      end == IncOffset(m, b, 41 * 4)
      reset == SetOffset(m, IncOffset(m, end, 42), 0)
      set == FaultsOf(m, b, "STORE", 4, Strided(42, 4))
      get == FaultsOf(m, end, "LOAD", 4, {-o : o \in Strided(42, 4)})
  IN  Result(set + get,
             /\ b.base = Buffer /\ b.off = 0 /\ b.len = SizeofBuffer
             /\ end.off = 41 * 4 /\ FromCap(end) = Buffer + 41 * 4
             /\ reset.off = 0
             /\ set + get = 0)

\* The cursor past the end and before the start, and back into range each time.
clang_hybrid_cursor_trivial(m) ==
  LET b == ToCap(m, Buffer)
      v1 == IncOffset(m, SetBounds(m, b, SizeofBuffer), 42 * 4)
      v2 == IncOffset(m, v1, -4)
      v3 == SetOffset(m, v2, -1)
      v4 == SetOffset(m, v3, 41 * 4)
      fault(v) == Faults(m, v, "LOAD", 4)
  IN  Result(fault(v1) + fault(v2) + fault(v3) + fault(v4),
             /\ Stores(m, b, 4, {41 * 4})
             /\ fault(v1) = 1 /\ fault(v2) = 0 /\ Address(v2) = Buffer + 41 * 4
             /\ fault(v3) = 1 /\ fault(v4) = 0 /\ Address(v4) = Buffer + 41 * 4)

\* increment() on an __intcap_t that holds an integer, then a pointer.
clang_hybrid_intcap(m) ==
  LET x == IncOffset(m, FromInt(m, 1), 1)
      cp == IncOffset(m, ToCap(m, Str), 1)
      faults == Faults(m, cp, "LOAD", 1)
  IN  Result(faults, Same(x, FromInt("none", 2)) /\ Address(cp) = Str + 1 /\ faults = 0)

\* Arrays of eight integers of 1, 2, 4 and 8 bytes, read through capabilities ...
clang_hybrid_load_data(m) ==
  LET faults == Sum({1, 2, 4, 8}, LAMBDA n : FaultsOf(m, ToCap(m, Buffer), "LOAD", n, Strided(8, n)))
  IN  Result(faults, faults = 0)

\* ... and written through them, with values that narrow types cut off.
clang_hybrid_store_data(m) ==
  LET faults == Sum({1, 2, 4, 8}, LAMBDA n : FaultsOf(m, ToCap(m, Buffer), "LOAD", n, Strided(8, n))
                                             + FaultsOf(m, ToCap(m, Buffer), "STORE", n, Strided(8, n)))
  IN  Result(faults,
             /\ \A bits \in {8, 16}, i \in 0 .. 7 : Stored(m, 102442 * i, bits) = (102442 * i) % 2^bits
             /\ faults = 0)

\* An object sealed by its constructor and unsealed by its method.
example_key(m) == SetOffset(m, DDC, 4)
example_constructor(m) == Seal(AndPerms(m, ToCap(m, Buffer), {"LOAD", "STORE"}), example_key(m))
example_method(m, o) ==
  LET p == Unseal(m, o, example_key(m))
  IN  Faults(m, p, "LOAD", 4) + Faults(m, p, "STORE", 4)
clang_hybrid_opaque(m) ==
  LET faults == example_method(m, example_constructor(m))
  IN  Result(faults, faults = 0)

clang_hybrid_struct(m) ==
  LET faults == Faults(m, ToCap(m, Buffer), "LOAD", 4) IN Result(faults, faults = 0)

clang_hybrid_sub(m) ==
  LET a == ToCap(m, Str) IN Quiet(FromCap(IncOffset(m, a, 5)) - FromCap(a) = 5)

=============================================================================
