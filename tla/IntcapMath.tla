----------------------------- MODULE IntcapMath -----------------------------
(***************************************************************************)
(* The arithmetic test of clang-purecap (clang_purecap_uintcapmath.c),     *)
(* which the other three files include for signed and for plain integers.  *)
(* For an integer type k, every variable of the test is a Num: plain, or   *)
(* what is read back from the offset of a capability.                      *)
(***************************************************************************)
EXTENDS CStartup

IntTypes == {"int64", "uint64", "intcap", "uintcap"}
RealInts == {"int64", "uint64"}          \* _TEST_REAL_INTS
Signed == {"int64", "intcap"}            \* _TEST_SIGNED

\* The compiler's defects are in its arithmetic on capabilities.
On(m, k) == IF k \in RealInts THEN "none" ELSE m
Num(m, k, n) == IF k \in RealInts THEN n ELSE ToInt(m, FromInt(m, n))
Step(m, k, n, d) == IF k \in RealInts THEN n + d ELSE ToInt(m, IncOffset(m, FromInt(m, n), d))

Increments(m, k) ==
  /\ Num(m, k, 100) = 100
  /\ Step(m, k, 100, -1) = 99 /\ Step(m, k, 99, -1) = 98
  /\ Step(m, k, 100, 1) = 101 /\ Step(m, k, 101, 1) = 102
  /\ Step(m, k, 100, -1) < Num(m, k, 100) /\ Step(m, k, 101, 1) > Num(m, k, 100)

Comparisons(m, k) ==
  LET zero == Num(m, k, 0)
      one == Num(m, k, 1)
      onehundred == Num(m, k, 100)
      twofivesix == Num(m, k, 256)
  IN  /\ 1000 > onehundred /\ 1 < onehundred /\ twofivesix >= onehundred
      /\ 1 <= one /\ one <= 2 /\ one # 3
      /\ zero = 0 /\ {one, onehundred, twofivesix} \cap {0} = {}

Sums(m, k) ==
  LET one == Num(m, k, 1)
      onehundred == Num(m, k, 100)
      plus(a, b) == Num(m, k, Add(On(m, k), a, b))
  IN  /\ plus(onehundred, 2) = 102 /\ plus(3, onehundred) = 103
      /\ plus(one, onehundred) = 101 /\ plus(onehundred, 5) = 105
      /\ plus(onehundred, -2) = 98 /\ plus(105, -onehundred) = 5
      /\ plus(onehundred, -one) = 99 /\ plus(onehundred, -6) = 94

\* ~ is left to real integers, by the #if of the test, and to 64 bits.
Shifts(m, k) ==
  LET one == Num(m, k, 1)
      twofivesix == Num(m, k, 256)
      left(a, n) == Num(m, k, ShiftLeft(a, n))
      right(a, n) == Num(m, k, ShiftRight(On(m, k), a, n))
  IN  /\ left(one, 2) = 4 /\ left(twofivesix, one) = 512 /\ left(Num(m, k, 1), one) = 2
      /\ right(one, 1) = 0 /\ right(twofivesix, one) = 128 /\ right(Num(m, k, 2), one) = 1

Bits(m, k) ==
  LET one == Num(m, k, 1)
      twofivesix == Num(m, k, 256)
      xor(a, b) == Num(m, k, ExclusiveOr(On(m, k), a, b))
  IN  /\ one & 1 = 1 /\ (256 & twofivesix) = twofivesix /\ (one & twofivesix) = 0
      /\ (one | 2) = 3 /\ (8 | one) = 9 /\ (one | twofivesix) = 257 /\ (0 | one) = 1
      /\ xor(one, 1) = 0 /\ xor(2, one) = 3 /\ xor(one, twofivesix) = 257

Products(m, k) ==
  LET one == Num(m, k, 1)
      onehundred == Num(m, k, 100)
      twofivesix == Num(m, k, 256)
      mod(a, b) == Num(m, k, Remainder(On(m, k), a, b))
  IN  /\ twofivesix * 2 = 512 /\ 2 * onehundred = 200 /\ onehundred * twofivesix = 25600
      /\ twofivesix \div 2 = 128 /\ 1024 \div twofivesix = 4
      /\ twofivesix \div onehundred = 2 /\ 1000 \div onehundred = 10
      /\ mod(twofivesix, 200) = 56 /\ mod(one, 99) = 1
      /\ mod(onehundred, twofivesix) = 100 /\ mod(105, onehundred) = 5

Conditionals(m, k) ==
  LET one == Num(m, k, 1)
      onehundred == Num(m, k, 100)
  IN  /\ (IF Num(m, k, 0) # 0 THEN one ELSE 2) = 2
      /\ (IF one # 0 THEN 3 ELSE onehundred) = 3
      /\ onehundred = 100
      /\ k \in Signed => Num(m, k, -5) = -5 /\ -Num(m, k, -5) = 5 /\ -one = -1

math(m, k) ==
  Quiet(/\ Increments(m, k) /\ Comparisons(m, k)
        /\ \A n \in {1, 100, 256, 1000} : Num(m, k, n) # 0   \* divisors, once asserted
        /\ Sums(m, k) /\ Shifts(m, k) /\ Bits(m, k) /\ Products(m, k) /\ Conditionals(m, k))

=============================================================================
