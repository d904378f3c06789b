---------------------------- MODULE PurecapTests ----------------------------
(***************************************************************************)
(* The tests of cheri-c-tests/clang-purecap, every pointer a capability.   *)
(* A test is a straight line of C: for a machine m, and the global         *)
(* pointers g where it uses them, an operator gives the exceptions it      *)
(* raises and whether its assertions hold.                                 *)
(***************************************************************************)
EXTENDS CStartup

\* Stores past an array fault, and with the length cause that handler asserts.
clang_purecap_array(m) ==
  LET count == 8
      x == Object(m, Stack, count)
      cause(i) == Cause(m, IncOffset(m, x, 4 * i), "STORE", 4)
      bad == {i \in 0 .. count - 1 : cause(i) # 0}
  IN  Result(Cardinality(bad),
             /\ x.len = count
             /\ \A i \in bad : cause(i) = cheri_fault_length
             /\ Cardinality(bad) = count - count \div 4)

\* Atomic counters, reached directly and through global pointers.
AtomicCounters(m, g) ==
  LET c(i) == g[<<"counter", i>>]
      used(i) == {"LOAD", "STORE"} \X {CounterSize(i)}
      faults(i) == Sum(used(i), LAMBDA u : Faults(m, c(i), u[1], u[2]))
  IN  Result(Sum(1 .. 4, faults),
             \A i \in 1 .. 4 : c(i).len = CounterSize(i) /\ faults(i) = 0)

\* An atomic pointer: stored, compared and exchanged, exchanged, stored.
AtomicPointer(m, g) ==
  LET newval == Object(m, Stack, 4)
      held(c) == [c EXCEPT !.tag = @ /\ m # "atomic_by_bytes"]
  IN  Quiet(/\ g[<<"counter", 5>>].len = SizeofPtr
            /\ \A i \in 1 .. 3 : Same(held(FromInt(m, i)), FromInt(m, i))
            /\ Same(held(newval), newval))
clang_purecap_atomic(m, g) ==
  LET counters == AtomicCounters(m, g)
  IN  Result(counters.faults, counters.ok /\ AtomicPointer(m, g).ok)

\* Calls of what is no function: a call that does not fault never comes back.
clang_purecap_badcall(m, g) ==
  LET calls == <<FromInt(m, 42), g[<<"not_a_function", 0>>]>>
      faults == Sum(1 .. 2, LAMBDA i : Faults(m, calls[i], "EXECUTE", 4))
  IN  Result(faults, faults = 2)

\* What the callee writes to a struct it got by value.
clang_purecap_byval_args(m) ==
  LET global_foo == IF m = "byval_shared" THEN 42 ELSE 0
  IN  Quiet(global_foo = 0)

clang_purecap_capcmp(m) ==
  LET str == Object(m, Stack, 10)
      at(i) == IncOffset(m, str, i)
  IN  Quiet(/\ at(10).off = at(10).len
            /\ \A i \in 1 .. 9 : /\ at(i).base = str.base /\ at(i).len = str.len
                                 /\ Less(m, str, at(i)) /\ Less(m, at(i), at(10)))

\* _capret_foo returns through its return capability, or runs on past its end.
ReturnAddress(m, a) == IF m = "return_address_plain" THEN FromInt(m, a) ELSE SetOffset(m, PCC, a)
clang_purecap_capret(m) ==
  LET faults == Faults(m, ReturnAddress(m, TestFn + 8), "EXECUTE", 4)
  IN  Result(faults, faults = 0)

clang_purecap_capretaddr(m) ==
  LET ret == ReturnAddress(m, TestFn + 8)
      testfn == SetOffset(m, PCC, TestFn)
  IN  Quiet(/\ ret.tag /\ "EXECUTE" \in ret.perms
            /\ ret.off > testfn.off /\ ret.off - testfn.off < 100 * 4)

clang_purecap_funptr(m) ==
  LET fp == SetOffset(m, PCC, TestFn)
      faults == Faults(m, fp, "EXECUTE", 4)
  IN  Result(faults, faults = 0 /\ Loads(m, Object(m, Str, 8), 1, 0 .. 7))

\* Global pointers to data and to functions.
clang_purecap_init(m, g) ==
  LET bar == g[<<"bar", 0>>]
      fns == {g[<<"f", 0>>], g[<<"x.f", 0>>]}
      calls == Sum(fns, LAMBDA f : Faults(m, f, "EXECUTE", 4))
  IN  Result(FaultsOf(m, bar, "LOAD", 1, 0 .. 5) + calls,
             /\ Loads(m, bar, 1, 0 .. 5)
             /\ "EXECUTE" \notin bar.perms
             /\ bar.len = 6 /\ Same(bar, Object(m, Foo, 6))
             /\ \A f \in fns : /\ Same(f, SetOffset(m, PCC, TestFn))
                               /\ "EXECUTE" \in f.perms
                               /\ f.len = PCC.len /\ f.base = PCC.base
             /\ calls = 0)

\* __input: a pointer that can be read from only.
clang_purecap_input(m) ==
  LET x == AndPerms(m, Object(m, Stack, 4), Perms \ {"STORE", "STORE_CAPABILITY"})
      stored == Faults(m, x, "STORE", 4) = 0
      loaded == Faults(m, x, "LOAD", 4) = 0
  IN  Result(Faults(m, x, "STORE", 4),
             /\ x.perms \cap {"STORE", "STORE_CAPABILITY"} = {}
             /\ {"LOAD", "LOAD_CAPABILITY"} \subseteq x.perms
             /\ ~stored /\ loaded)

\* __output: a pointer that can be written to only.
clang_purecap_output(m) ==
  LET x == AndPerms(m, Object(m, Stack, 4), Perms \ {"LOAD", "LOAD_CAPABILITY"})
      faults == Faults(m, x, "LOAD", 4)
  IN  Result(faults,
             /\ x.perms \cap {"LOAD", "LOAD_CAPABILITY"} = {}
             /\ {"STORE", "STORE_CAPABILITY"} \subseteq x.perms
             /\ Faults(m, x, "STORE", 4) = 0
             /\ faults = 1)

\* Integers and pointers in an __intcap_t: moved out of bounds and back, ordered
\* behind every integer, and stored and loaded again.
IntcapPointer(m) ==
  LET str == Object(m, Stack, 11)
      foo == IncOffset(m, str, 5)
      back == IncOffset(m, IncOffset(m, foo, 50), -50)
  IN  /\ str.tag
      /\ foo.off = 5 /\ foo.base = str.base /\ foo.len = str.len
      /\ back.off = 5
      /\ Loads(m, foo, 1, {0}) /\ Loads(m, back, 1, {0})
      /\ Less(m, FromInt("none", MaxLength), back)
IntcapInteger(m, n) ==
  LET c == FromInt(m, n)
  IN  /\ ~c.tag /\ c.off = n /\ c.base = 0
      /\ Same(c, FromInt("none", n)) /\ ToInt(m, c) = n
      /\ c.perms = {}
clang_purecap_intcap(m) ==
  Quiet((\A n \in {42, 1, 2, 3} : IntcapInteger(m, n)) /\ IntcapPointer(m))

is_null(p) == ~p.tag /\ p.base = 0 /\ p.off = 0 /\ p.len = MaxLength
clang_purecap_null(m) == Quiet(is_null(Null) /\ is_null(FromInt(m, 0)) /\ is_null(FromInt(m, 42 - 42)))

\* A small integer in the low bits of a pointer.
get_int(m, p) == ToInt(m, p) & 7
set_int(m, p, val) == SetOffset(m, p, (p.off - (p.off % 8)) ^^ (val & 7))
get_pointer(m, p) == SetOffset(m, p, p.off - (p.off % 8))
clang_purecap_smallint(m) ==
  LET str == Object(m, Stack, 10)
      p == set_int(m, str, 4)
      ptr == get_pointer(m, p)
  IN  Quiet(get_int(m, p) = 4 /\ Same(ptr, str) /\ Loads(m, ptr, 1, {0}))

\* Large arrays on the stack: as large as asked for, and apart.
StackSizes == <<131072, 262144, 1048576>>
check_overlap(a, b) == a.base >= b.base + b.len \/ b.base >= a.base + a.len
clang_purecap_stack_cap(m) ==
  LET arrays == << Object(m, Stack, StackSizes[1]),
                   Object(m, Stack + StackSizes[1], StackSizes[2]),
                   Object(m, Stack + StackSizes[1] + StackSizes[2], StackSizes[3]) >>
  IN  Quiet(/\ \A i, j \in 1 .. 3 : i < j => check_overlap(arrays[i], arrays[j])
            /\ \A i \in 1 .. 3 : arrays[i].len >= StackSizes[i])

\* Data stored over part of a capability in a union.
clang_purecap_union(m, g) ==
  LET ptr == g[<<"ptr", 0>>]
      over == [ptr EXCEPT !.tag = TagUnderData(m)]
  IN  Quiet(ptr.len = 8 /\ ptr.tag /\ ~over.tag)

\* A union of pointers passed by value.
clang_purecap_union_struct(m) ==
  LET passed(c) == [c EXCEPT !.tag = @ /\ m # "byval_untagged"]
      ptrs == {passed(Object(m, Str, 6)), passed(Object(m, Str + 8, 6))}
  IN  Result(Sum(ptrs, LAMBDA p : Faults(m, p, "LOAD", 1)),
             \A p \in ptrs : Loads(m, p, 1, {0}))

-----------------------------------------------------------------------------
(* Variable arguments: a read-only list of n slots of the given size, which
   va_arg steps through.                                                   *)
VaStart(m, n, slot) ==
  LET ap == AndPerms(m, Object(m, Stack, n * slot), {"LOAD", "LOAD_CAPABILITY"})
  IN  IF m = "va_list_unbounded" THEN [ap EXCEPT !.len = MaxLength - Stack] ELSE ap
VaArgs(m, ap, k, slot) ==        \* the list after k arguments were taken
  IF m = "va_arg_stays" THEN ap ELSE IncOffset(m, ap, k * slot)
VaSlot(ap, slot) == (Address(ap) - Stack) \div slot

clang_purecap_va_args(m, g) ==
  LET ap == VaStart(m, 16, SizeofPtr)
      at(k) == VaArgs(m, ap, k, SizeofPtr)
      p(i) == g[<<"ptrs", i>>]
      faults == Sum(0 .. 15, LAMBDA k : Faults(m, at(k), "LOAD", IF k % 2 = 0 THEN 4 ELSE SizeofPtr))
                + Sum(0 .. 7, LAMBDA i : Faults(m, p(i), "LOAD", 1))
  IN  Result(faults,
             /\ ap.len = 8 * SizeofPtr * 2
             /\ ap.perms \cap {"STORE", "STORE_CAPABILITY"} = {}
             /\ \A k \in 0 .. 15 : VaSlot(at(k), SizeofPtr) = k
             /\ \A i \in 0 .. 7 : p(i).tag /\ Address(p(i)) = Str + i
             /\ faults = 0)

clang_purecap_va_copy(m) ==
  LET ap == VaStart(m, 8, 8)
      ap2 == IF m = "va_copy_shares" THEN VaArgs(m, ap, 1, 8) ELSE ap
      x(i) == VaSlot(VaArgs(m, ap, i, 8), 8)
      y(i) == VaSlot(VaArgs(m, ap2, i, 8), 8)
  IN  Quiet(ap.len = ap2.len /\ \A i \in 0 .. 7 : x(i) = y(i))

\* One argument too many: the va_arg that faults ends the loop.
clang_purecap_va_die(m) ==
  LET at(i) == VaArgs(m, VaStart(m, 8, 8), i - 1, 8)
      bad == {i \in 1 .. 9 : Faults(m, at(i), "LOAD", 4) = 1}
      last == IF bad = {} THEN 9 ELSE CHOOSE i \in bad : \A j \in bad : i <= j
  IN  Result(IF bad = {} THEN 0 ELSE 1,
             /\ bad # {} /\ last = 9
             /\ \A i \in 1 .. last - 1 : VaSlot(at(i), 8) = i - 1)

\* The same through a list in a global.  The third va_arg faults, and cp keeps the
\* pointer of the second: the compiler gave it the register it had before.
clang_purecap_va_list_global(m, g) ==
  LET vap == VaStart(m, 2, SizeofPtr)
      at(i) == VaArgs(m, vap, i, SizeofPtr)
      bad == {i \in 0 .. 2 : Faults(m, at(i), "LOAD", SizeofPtr) = 1}
      cp(i) == g[<<"arg", i>>]
      strlen == Sum(0 .. 1, LAMBDA i : StrlenReads(m, cp(i), 4))     \* DEBUG_MSG(cp)
  IN  Result(Cardinality(bad) + strlen,
             /\ vap.len = SizeofPtr * 2
             /\ \A i \in 0 .. 3 : at(i).off = SizeofPtr * i
             /\ \A i \in 0 .. 1 : /\ Loads(m, cp(i), 1, 0 .. 3)
                                  /\ Address(cp(i)) = Arg + 8 * i
             /\ bad = {2} /\ strlen = 0)

=============================================================================
