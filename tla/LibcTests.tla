------------------------------ MODULE LibcTests -----------------------------
(***************************************************************************)
(* The tests of cheri-c-tests/libc other than those of the copying         *)
(* routines: allocation, sorting, non-local jumps and strings.             *)
(***************************************************************************)
EXTENDS CStartup

\* malloc and calloc: an object as large as a pointer is aligned for one; and the
\* room that the allocator keeps for it.
malloc_usable_size(size) == RoundUp(size, SizeofPtr)
Allocated(m, size) ==
  Object(m, IF m = "malloc_unaligned" THEN Heap + 1 ELSE Heap, malloc_usable_size(size))
Dirty(m, size) ==      \* offsets calloc left uncleared
  CASE m = "calloc_dirty"     -> {0}
    [] m = "calloc_dirty_end" -> {size - 1}
    [] OTHER                  -> {}

check_allocationAnywhere(a, size) ==
  /\ a.tag /\ a.off = 0 /\ a.len - a.off >= size
  /\ {"LOAD", "STORE", "LOAD_CAPABILITY", "STORE_CAPABILITY"} \subseteq a.perms
  /\ a.len = malloc_usable_size(size)
check_allocation(a, size) ==
  /\ a.tag /\ a.off = 0 /\ a.len - a.off >= size
  /\ {"LOAD", "STORE", "LOAD_CAPABILITY", "STORE_CAPABILITY"} \subseteq a.perms
  /\ a.len = malloc_usable_size(size)
  /\ size >= SizeofPtr => a.base % SizeofPtr = 0

\* What malloc and what calloc return is checked alike.  The loop over the cleared
\* bytes: faults can only be at its ends.
check_size(m, size) ==
  LET b == Allocated(m, size)
      read == 0 .. size - 2
  IN  Result(FaultsOf(m, b, "LOAD", 1, {0, size - 2}),
             /\ check_allocation(b, size)
             /\ Dirty(m, size) \cap read = {}
             /\ Loads(m, b, 1, {0, size - 2}))

libc_malloc(m) ==
  LET max == 20
      results == {check_size(m, 2^i + d) : i \in 1 .. max, d \in 0 .. 1}
  IN  Result(Sum(results, LAMBDA r : r.faults), \A r \in results : r.ok)

\* The pointers of an array, in the order of what they point to.
array == <<3, 4, 2, 1, 6, 5, 7>>
compare(a, b) == a < b
qsort(m, s) ==
  [i \in DOMAIN s |-> [value |-> SortSeq(s, compare)[i], tag |-> m # "sort_by_bytes"]]
libc_qsort(m) ==
  LET sorted == qsort(m, array)
      faults == Cardinality({i \in 1 .. 7 : ~sorted[i].tag /\ m # "no_tag_check"})
  IN  Result(faults, \A i \in 1 .. 7 : sorted[i].tag /\ sorted[i].value = i)

\* setjmp returns twice; position tells the way taken.
dolongjump(position) == [ok |-> position = 3, position |-> position + 1]
SetjmpReturns(position, result) ==      \* dosetjump from setjmp on
  IF result = 0 THEN position = 2 ELSE position = 4
dosetjump(m, position) ==
  LET jumped == dolongjump(position + 2)
  IN  /\ position = 1
      /\ SetjmpReturns(position + 1, 0)
      /\ jumped.ok
      /\ SetjmpReturns(jumped.position, IF m = "setjmp_returns_zero" THEN 0 ELSE 2)
libc_setjmp(m) == Quiet(dosetjump(m, 1))

libc_string(m) ==
  LET str == Object(m, Stack, 10)
      faults == 6 * FaultsOf(m, str, "LOAD", 1, 0 .. 9) + StrlenReads(m, str, 9)
                + 2 * FaultsOf(m, str, "STORE", 1, 0 .. 9)
  IN  Result(faults, str.len = 10 /\ faults = 0)

libc_printf(m) ==
  LET out == Object(m, Stack, 12 + 8)
      faults == FaultsOf(m, out, "STORE", 1, 0 .. 11) + FaultsOf(m, out, "LOAD", 1, 0 .. 11)
  IN  Result(faults, faults = 0)

=============================================================================
