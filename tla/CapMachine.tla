----------------------------- MODULE CapMachine -----------------------------
(***************************************************************************)
(* What the C tests of cheri-c-tests use of a CHERI processor and its      *)
(* compiler: capabilities, the operations on them, and the cause of the    *)
(* exception an access raises (0: none).  Neither is in the repository;    *)
(* the model follows how the tests use them.                               *)
(*                                                                         *)
(* Every operation takes the defect of the machine it runs on, "none" for  *)
(* a machine that conforms: a test is worth running if it tells a machine  *)
(* with a defect from one without.                                         *)
(***************************************************************************)
EXTENDS Integers, FiniteSets, Bitwise

\* Defects of the C library, of the processor, and of the compiler.
LibcDefects == {"sort_by_bytes", "setjmp_returns_zero", "calloc_dirty", "calloc_dirty_end",
                "malloc_unaligned"}
Defects ==
  LibcDefects \cup
  {"no_tag_check", "no_seal_check", "no_perm_check", "no_exec_check", "no_upper_bound",
   "no_lower_bound", "wrong_cause", "store_keeps_tag", "bounds_ignored", "bounds_round_up",
   "increment_moves_base", "offset_set_adds", "perms_kept", "unseal_keeps_type", "compare_offsets"}
  \cup
  {"int_keeps_base", "math_on_base", "byval_shared", "va_list_unbounded", "va_arg_stays",
   "va_copy_shares", "atomic_by_bytes", "narrow_store_wide", "return_address_plain", "byval_untagged",
   "add_no_carry", "shift_left_only", "xor_as_or", "remainder_as_quotient"}

\* cheri_fault_*
cheri_fault_length == 1
cheri_fault_tag == 2
cheri_fault_seal == 3
cheri_fault_execute == 17
cheri_fault_load == 18
cheri_fault_store == 19
PermCause == [LOAD |-> cheri_fault_load, STORE |-> cheri_fault_store,
              EXECUTE |-> cheri_fault_execute, LOAD_CAPABILITY |-> 20, STORE_CAPABILITY |-> 22]

Perms == DOMAIN PermCause
Unsealed == -1
MaxLength == 2^24               \* stands for 2^64 - 1
Cap(base, len, perms) ==
  [tag |-> TRUE, base |-> base, len |-> len, off |-> 0, perms |-> perms, otype |-> Unsealed]

\* The default data capability and the program counter: all of memory.
DDC == Cap(0, MaxLength, Perms \ {"EXECUTE"})
PCC == Cap(0, MaxLength, Perms)

Address(c) == c.base + c.off

IncOffset(m, c, n) ==
  IF m = "increment_moves_base" THEN [c EXCEPT !.base = @ + n, !.len = @ - n]
  ELSE [c EXCEPT !.off = @ + n]
SetOffset(m, c, n) ==
  [c EXCEPT !.off = IF m = "offset_set_adds" THEN @ + n ELSE n]
RoundUp(n, k) == ((n + k - 1) \div k) * k
SetBounds(m, c, n) ==
  [c EXCEPT !.base = Address(c), !.off = 0,
            !.len = CASE m = "bounds_ignored"  -> c.len - c.off
                      [] m = "bounds_round_up" -> RoundUp(n, 4096)
                      [] OTHER                 -> n]
AndPerms(m, c, P) == IF m = "perms_kept" THEN c ELSE [c EXCEPT !.perms = @ \cap P]
Seal(c, key) == [c EXCEPT !.otype = Address(key)]
Unseal(m, c, key) ==
  IF c.otype = Address(key) /\ m # "unseal_keeps_type"
  THEN [c EXCEPT !.otype = Unsealed] ELSE c

\* A capability made from an integer: untagged, with the integer as offset.
Null == [tag |-> FALSE, base |-> 0, len |-> MaxLength, off |-> 0, perms |-> {}, otype |-> Unsealed]
FromInt(m, n) ==
  IF m = "int_keeps_base" THEN [DDC EXCEPT !.off = n] ELSE [Null EXCEPT !.off = n]
ToInt(m, c) == IF m = "math_on_base" THEN c.base ELSE c.off

\* Integer arithmetic as the compiler makes it of operations on __intcap_t.
Add(m, a, b) == IF m = "add_no_carry" /\ b >= 0 THEN a ^^ b ELSE a + b
ShiftLeft(a, n) == a * 2^n
ShiftRight(m, a, n) == IF m = "shift_left_only" THEN ShiftLeft(a, n) ELSE a \div 2^n
ExclusiveOr(m, a, b) == IF m = "xor_as_or" THEN a | b ELSE a ^^ b
Remainder(m, a, b) == IF m = "remainder_as_quotient" THEN a \div b ELSE a % b

\* Comparison: by address, and valid capabilities behind invalid ones.
Less(m, c, d) ==
  CASE m = "compare_offsets" -> c.off < d.off
    [] c.tag = d.tag         -> Address(c) < Address(d)
    [] OTHER                 -> ~c.tag
Same(c, d) == c.tag = d.tag /\ Address(c) = Address(d)

\* A capability to an object of n bytes at address a.
Object(m, a, n) == SetBounds(m, IncOffset("none", DDC, a), n)

\* The cause an access of n bytes raises.
Cause(m, c, access, n) ==
  CASE ~c.tag /\ m # "no_tag_check"                    -> cheri_fault_tag
    [] c.otype # Unsealed /\ m # "no_seal_check"       -> cheri_fault_seal
    [] /\ access \notin c.perms
       /\ m # "no_perm_check"
       /\ ~(access = "EXECUTE" /\ m = "no_exec_check") -> PermCause[access]
    [] \/ c.off + n > c.len /\ m # "no_upper_bound"
       \/ c.off < 0 /\ m # "no_lower_bound"            ->
         IF m = "wrong_cause" THEN cheri_fault_load ELSE cheri_fault_length
    [] OTHER                                           -> 0

Faults(m, c, access, n) == IF Cause(m, c, access, n) = 0 THEN 0 ELSE 1

\* A tag that data is stored over, and what a narrow store leaves of a value.
TagUnderData(m) == m = "store_keeps_tag"
Stored(m, v, bits) == IF m = "narrow_store_wide" THEN v ELSE v % 2^bits

=============================================================================
