---------------------------- MODULE LibMemProofs ----------------------------
(***************************************************************************)
(* Proofs about the memory functions of lib.s, for every size of words and *)
(* capabilities, every alignment and every length.                         *)
(***************************************************************************)
EXTENDS LibMem, TLAPS

\* What a byte of the target becomes.
Value(a) == IF fn = "bzero" THEN Zero ELSE src + (a - dst)

ArgsOK ==
  /\ fn \in CopyFns \cup {"bzero"}
  /\ dst \in SrcTop .. SrcTop + WordBytes - 1
  /\ src \in Nat /\ src < CapBytes
  /\ len \in 0 .. MaxLen
  /\ off \in Nat /\ off <= len
  /\ lim \in Nat
  /\ fn = "bzero" => ~Misfit(dst, len)

\* The bytes below the cursor, and no others, have their new value.
Progress ==
  mem = [a \in Addresses |-> IF a \in dst .. dst + off - 1 THEN Value(a) ELSE a]

\* A whole number of units of n bytes, and at least one, is left of a loop,
\* which stops on equality only.
Whole(n) == lim <= len /\ \E k \in Nat \ {0} : lim - off = k * n

\* What each loop has left.
LoopInv ==
  /\ at \in {"call", "smallclr", "words", "bytes", "done", "copy_caps"} \cup ByteLoops
  /\ at \in {"smallclr", "words", "bytes"} => fn = "bzero"
  /\ at \in ByteLoops \cup {"copy_caps"} => fn # "bzero"
  /\ at = "call" => off = 0
  /\ at = "words" => Whole(WordBytes)
  /\ at = "copy_caps" => Whole(CapBytes)
  /\ at \in {"bytes", "nocap", "slow", "unaligned_end"} => lim = len /\ off < len
  /\ at = "unaligned_start" => off < lim /\ lim + CapBytes <= len
  /\ at = "done" => off = len
  /\ at = "done" /\ (len > 0 \/ fn = "memcpy_nocap") /\ fn # "bzero" => v0 = dst
  /\ at \in ByteLoops \cup {"copy_caps"} => v0 = dst

MemInv == ArgsOK /\ Progress /\ LoopInv

-----------------------------------------------------------------------------

\* The remainder on division by a positive number.
LEMMA ModRange ==
  ASSUME NEW n \in Nat \ {0}, NEW a \in Int
  PROVE  a % n \in 0 .. n - 1
OBVIOUS

\* Rounding down gives a whole number of units, at least one if there is room.
LEMMA RoundDown ==
  ASSUME NEW n \in Nat \ {0}, NEW r \in Nat, r >= n
  PROVE  /\ r \div n \in Nat \ {0}
         /\ (r \div n) * n <= r
         /\ r - (r % n) = (r \div n) * n
<1>1. r = n * (r \div n) + (r % n) /\ r % n \in 0 .. n - 1 /\ r \div n \in Int
  OBVIOUS
<1>2. r \div n > 0
  <2> SUFFICES ASSUME r \div n <= 0 PROVE FALSE
    BY <1>1
  <2>1. n * (r \div n) <= 0
    BY <1>1
  <2> QED BY <1>1, <2>1
<1>3. n * (r \div n) = (r \div n) * n
  BY <1>1
<1> QED BY <1>1, <1>2, <1>3

\* Taking a term to the other side.
LEMMA Transpose ==
  ASSUME NEW a \in Int, NEW b \in Int, NEW c \in Int, NEW d \in Int, a - b < c + d
  PROVE  a < b + c + d
OBVIOUS

\* Storing the next n bytes at the cursor and moving it keeps Progress.
LEMMA StoreProgress ==
  ASSUME ArgsOK, Progress, NEW n \in Nat, off' = off + n, UNCHANGED args,
         mem' = [b \in Addresses |-> IF b \in dst + off .. dst + off + n - 1
                                     THEN Value(b) ELSE mem[b]]
  PROVE  Progress'
<1>1. dst \in Nat /\ off \in Nat /\ Addresses \subseteq Int
  BY LibMemAssumption DEF ArgsOK, Addresses
<1>2. \A b : Value(b)' = Value(b)
  BY DEF args, Value
<1>3. ASSUME NEW b \in Addresses
      PROVE  (IF b \in dst + off .. dst + off + n - 1 THEN Value(b) ELSE mem[b])
               = IF b \in dst .. dst + off' - 1 THEN Value(b) ELSE b
  BY <1>1 DEF Progress
<1> QED BY <1>2, <1>3 DEF Progress, args, Addresses

\* A turn of a loop over units of n bytes: the test for equality is met at the
\* end, and not before memory ends.
LEMMA TurnUnits ==
  ASSUME ArgsOK, NEW n \in Nat \ {0}, NEW loop, NEW next, Turn(loop, n, next), Whole(n)
  PROVE  /\ off' \in Nat /\ off' <= len /\ off + n <= lim
         /\ off' = lim => at' = next
         /\ off' # lim => at' = loop /\ \E k \in Nat \ {0} : lim - off' = k * n
<1>1. PICK k \in Nat \ {0} : lim - off = k * n
  BY DEF Whole
<1>2. off' = off + n /\ off \in Nat /\ lim \in Nat /\ len \in Nat /\ lim <= len
  BY LibMemAssumption DEF Turn, ArgsOK, Whole
<1>3. CASE k = 1
  BY <1>1, <1>2, <1>3 DEF Turn
<1>4. CASE k # 1
  <2>1. k - 1 \in Nat \ {0} /\ lim - off' = (k - 1) * n
    BY <1>1, <1>2, <1>4
  <2>2. (k - 1) * n >= n
    BY <2>1
  <2>3. dst + off + 2 * n <= MemTop
    BY <1>2, <2>1, <2>2, LibMemAssumption DEF ArgsOK
  <2> QED BY <1>2, <2>1, <2>2, <2>3, LibMemAssumption DEF Turn, ArgsOK
<1> QED BY <1>3, <1>4

\* A turn over single bytes.
LEMMA TurnByte ==
  ASSUME ArgsOK, NEW loop, NEW next, Turn(loop, 1, next), off < lim, lim <= len
  PROVE  /\ off' = off + 1 /\ off' \in Nat /\ off' <= lim
         /\ off' = lim => at' = next
         /\ off' # lim => at' = loop
<1>1. off \in Nat /\ lim \in Nat /\ len \in Nat
  BY LibMemAssumption DEF ArgsOK
<1>2. dst + off + 2 * 1 > MemTop => off + 1 = lim
  BY <1>1, LibMemAssumption DEF ArgsOK
<1> QED BY <1>1, <1>2 DEF Turn

\* A source byte has not been written to.
LEMMA SourceKept ==
  ASSUME ArgsOK, Progress, NEW i \in Nat, i < len, fn # "bzero"
  PROVE  /\ mem[src + i] = src + i
         /\ mem[src + i] = Value(dst + i)
<1>1. src + i \in Addresses /\ src + i < dst /\ dst \in Nat /\ src \in Nat
  BY LibMemAssumption DEF ArgsOK, Addresses
<1>2. mem[src + i] = src + i
  BY <1>1 DEF Progress, ArgsOK
<1> QED BY <1>1, <1>2 DEF Value

\* Copying a byte.
LEMMA ByteCopied ==
  ASSUME ArgsOK, Progress, fn # "bzero", NEW loop, NEW next, CopyByte(loop, next),
         off < lim, lim <= len
  PROVE  Progress'
<1>1. off' = off + 1 /\ UNCHANGED args
  BY DEF CopyByte, Turn
<1>2. off \in Nat /\ off < len /\ dst \in Nat
  BY LibMemAssumption DEF ArgsOK
<1>3. mem[src + off] = Value(dst + off)
  BY <1>2, SourceKept
<1>4. mem' = [b \in Addresses |-> IF b \in dst + off .. dst + off + 1 - 1
                                  THEN mem[src + off] ELSE mem[b]]
  BY DEF CopyByte, Store
<1>5. ASSUME NEW b, b \in dst + off .. dst + off + 1 - 1
      PROVE  b = dst + off
  BY <1>2, <1>5
<1>6. mem' = [b \in Addresses |-> IF b \in dst + off .. dst + off + 1 - 1
                                  THEN Value(b) ELSE mem[b]]
  BY <1>3, <1>4, <1>5
<1> QED BY <1>1, <1>6, StoreProgress

\* Clearing the bytes at the cursor.
LEMMA BytesCleared ==
  ASSUME ArgsOK, Progress, fn = "bzero", NEW n \in Nat, off' = off + n, UNCHANGED args,
         StoreZeros(dst + off, n)
  PROVE  Progress'
<1>1. mem' = [b \in Addresses |-> IF b \in dst + off .. dst + off + n - 1
                                  THEN Value(b) ELSE mem[b]]
  BY DEF StoreZeros, Store, Value
<1> QED BY <1>1, StoreProgress

-----------------------------------------------------------------------------

\* Before a call nothing is written.
LEMMA MemInvInit ==
  ASSUME ~MisfitCalls
  PROVE  Init => MemInv
<1> SUFFICES ASSUME Init PROVE MemInv
  OBVIOUS
<1>1. ArgsOK
  BY LibMemAssumption DEF Init, ArgsOK
<1>2. Progress
  BY <1>1, LibMemAssumption DEF Init, Progress, ArgsOK, Addresses
<1>3. LoopInv
  BY DEF Init, LoopInv, ByteLoops
<1> QED BY <1>1, <1>2, <1>3 DEF MemInv

\* Every step keeps the invariant.
LEMMA MemInvNext == MemInv /\ [Next]_vars => MemInv'
<1> SUFFICES ASSUME MemInv, [Next]_vars PROVE MemInv'
  OBVIOUS
<1>0. /\ ArgsOK /\ Progress /\ LoopInv
      /\ dst \in Nat /\ src \in Nat /\ len \in Nat /\ off \in Nat /\ lim \in Nat
      /\ WordBytes \in Nat \ {0} /\ CapBytes \in Nat \ {0}
  BY LibMemAssumption DEF MemInv, ArgsOK
<1>a. ASSUME UNCHANGED args, off' \in Nat, off' <= len, lim' \in Nat PROVE ArgsOK'
  BY <1>0, <1>a DEF ArgsOK, args, Misfit, ToWord
<1>b. ASSUME UNCHANGED <<args, off, mem>> PROVE Progress'
  BY <1>0, <1>b DEF Progress, args, Value
<1>1. CASE BzeroSmall
  <2>1. ArgsOK' /\ Progress'
    BY <1>0, <1>1, <1>a, <1>b DEF BzeroSmall, NoStore, ArgsOK
  <2>2. LoopInv'
    BY <1>0, <1>1 DEF BzeroSmall, LoopInv, args, ByteLoops
  <2> QED BY <2>1, <2>2 DEF MemInv
<1>2. CASE BzeroAlign
  <2> DEFINE pre == ToWord(dst)
             rest == len - pre
  <2>1. pre \in 0 .. WordBytes - 1
    BY <1>0, ModRange DEF ToWord
  <2>2. rest \in Nat /\ rest >= WordBytes
    BY <1>0, <1>2, <2>1 DEF BzeroAlign, ArgsOK, Misfit
  <2>3. /\ rest \div WordBytes \in Nat \ {0}
        /\ (rest \div WordBytes) * WordBytes <= rest
        /\ rest - (rest % WordBytes) = (rest \div WordBytes) * WordBytes
    BY <1>0, <2>2, RoundDown
  <2>4. /\ off = 0 /\ off' = pre /\ lim' = pre + (rest - (rest % WordBytes)) /\ at' = "words"
        /\ StoreZeros(dst, pre) /\ UNCHANGED args /\ fn = "bzero"
    BY <1>0, <1>2 DEF BzeroAlign, LoopInv
  <2>5. (rest \div WordBytes) * WordBytes \in Nat
    BY <1>0, <2>3
  <2> HIDE DEF pre
  <2>6. lim' \in Nat /\ lim' <= len /\ lim' - off' = (rest \div WordBytes) * WordBytes
    BY <1>0, <2>1, <2>3, <2>4, <2>5
  <2>7. ArgsOK'
    BY <1>0, <1>a, <2>1, <2>2, <2>4, <2>6
  <2>8. Progress'
    <3>1. off' = off + pre /\ dst + off = dst
      BY <1>0, <2>1, <2>4
    <3> QED BY <1>0, <2>1, <2>4, <3>1, BytesCleared
  <2>9. Whole(WordBytes)'
    BY <1>0, <2>3, <2>4, <2>6 DEF Whole, args
  <2>10. LoopInv'
    BY <2>4, <2>9 DEF LoopInv, ByteLoops, args
  <2> QED BY <2>7, <2>8, <2>10 DEF MemInv
<1>3. CASE ClearWord
  <2>1. fn = "bzero" /\ Whole(WordBytes) /\ Turn("words", WordBytes, "smallclr") /\ lim' = lim
    BY <1>0, <1>3 DEF ClearWord, LoopInv, Turn
  <2>2. /\ off' \in Nat /\ off' <= len
        /\ off' = lim => at' = "smallclr"
        /\ off' # lim => at' = "words" /\ \E k \in Nat \ {0} : lim - off' = k * WordBytes
    BY <1>0, <2>1, TurnUnits
  <2>3. off' = off + WordBytes /\ UNCHANGED args /\ v0' = v0
    BY <2>1 DEF Turn
  <2>4. ArgsOK'
    BY <1>0, <1>a, <2>1, <2>2, <2>3
  <2>5. Progress'
    BY <1>0, <1>3, <2>1, <2>3, BytesCleared DEF ClearWord
  <2>6. LoopInv'
    BY <1>0, <2>1, <2>2, <2>3 DEF LoopInv, ByteLoops, Whole, args
  <2> QED BY <2>4, <2>5, <2>6 DEF MemInv
<1>4. CASE SmallClr
  <2>1. ArgsOK' /\ Progress'
    BY <1>0, <1>4, <1>a, <1>b DEF SmallClr, NoStore, ArgsOK
  <2>2. LoopInv'
    BY <1>0, <1>4 DEF SmallClr, LoopInv, args, ByteLoops, ArgsOK
  <2> QED BY <2>1, <2>2 DEF MemInv
<1>5. CASE ClearByte
  <2>1. fn = "bzero" /\ Turn("bytes", 1, "done") /\ lim' = lim /\ lim = len /\ off < lim
    BY <1>0, <1>5 DEF ClearByte, LoopInv, Turn
  <2>2. /\ off' = off + 1 /\ off' \in Nat /\ off' <= lim
        /\ off' = lim => at' = "done"
        /\ off' # lim => at' = "bytes"
    BY <1>0, <2>1, TurnByte
  <2>3. UNCHANGED args /\ v0' = v0
    BY <2>1 DEF Turn
  <2>4. ArgsOK' /\ Progress'
    BY <1>0, <1>5, <1>a, <2>1, <2>2, <2>3, BytesCleared DEF ClearByte
  <2>5. LoopInv'
    BY <1>0, <2>1, <2>2, <2>3 DEF LoopInv, ByteLoops, args
  <2> QED BY <2>4, <2>5 DEF MemInv
<1>6. CASE MemcpyNocap
  <2>1. ArgsOK' /\ Progress'
    BY <1>0, <1>6, <1>a, <1>b DEF MemcpyNocap, NoStore, ArgsOK
  <2>2. LoopInv'
    BY <1>0, <1>6 DEF MemcpyNocap, LoopInv, args, ByteLoops, ArgsOK
  <2> QED BY <2>1, <2>2 DEF MemInv
<1>7. CASE MemcpyCEmpty
  <2>1. ArgsOK' /\ Progress'
    BY <1>0, <1>7, <1>a, <1>b DEF MemcpyCEmpty, NoStore, ArgsOK
  <2>2. LoopInv'
    BY <1>0, <1>7 DEF MemcpyCEmpty, LoopInv, args, ByteLoops, ArgsOK
  <2> QED BY <2>1, <2>2 DEF MemInv
<1>8. CASE MemcpyC
  <2>1. off = 0 /\ off' = off /\ UNCHANGED <<args, mem>> /\ fn \in {"memcpy_c", "smemcpy"} /\ len > 0
    BY <1>0, <1>8 DEF MemcpyC, LoopInv, NoStore
  <2>2. v0' = dst
    BY <1>0, <1>8, LibMemAssumption DEF MemcpyC, AddressOfDst, BaseOfDst, OffsetOfDst
  <2>3. ToGranule(dst) \in 0 .. CapBytes - 1
    BY <1>0, ModRange DEF ToGranule
  <2>4. CASE ~FastPath /\ at' = "slow" /\ lim' = len
    BY <1>0, <1>a, <1>b, <2>1, <2>2, <2>4 DEF MemInv, LoopInv, ByteLoops, args
  <2>5. CASE FastPath /\ ToGranule(dst) = 0 /\ at' = "copy_caps" /\ lim' = CapsEnd(0)
    <3>1. /\ len \div CapBytes \in Nat \ {0} /\ (len \div CapBytes) * CapBytes <= len
          /\ lim' = (len \div CapBytes) * CapBytes
      BY <1>0, <2>5, RoundDown DEF FastPath, CapsEnd
    <3>2. lim' \in Nat
      BY <1>0, <3>1
    <3>3. Whole(CapBytes)'
      <4>1. off' = 0 /\ len' = len
        BY <2>1 DEF args
      <4>2. lim' - off' = lim' /\ lim' <= len'
        BY <3>1, <3>2, <4>1
      <4>3. \E k \in Nat \ {0} : lim' - off' = k * CapBytes
        BY <3>1, <4>2
      <4> QED BY <4>2, <4>3 DEF Whole
    <3> QED BY <1>0, <1>a, <1>b, <2>1, <2>2, <2>5, <3>2, <3>3 DEF MemInv, LoopInv, ByteLoops, args
  <2>6. CASE FastPath /\ ToGranule(dst) # 0 /\ at' = "unaligned_start" /\ lim' = ToGranule(dst)
    <3>1. lim' \in Nat /\ off' < lim' /\ lim' + CapBytes <= len
      BY <1>0, <2>1, <2>3, <2>6 DEF FastPath
    <3> QED BY <1>0, <1>a, <1>b, <2>1, <2>2, <2>6, <3>1 DEF MemInv, LoopInv, ByteLoops, args
  <2> QED BY <1>8, <2>4, <2>5, <2>6 DEF MemcpyC
<1>9. ASSUME NEW loop \in {"nocap", "slow", "unaligned_end"}, CopyByte(loop, "done"), lim' = lim
      PROVE  MemInv'
  <2>1. fn # "bzero" /\ Turn(loop, 1, "done") /\ lim = len /\ off < lim /\ at = loop
    BY <1>0, <1>9 DEF CopyByte, LoopInv, Turn, ByteLoops
  <2>2. /\ off' = off + 1 /\ off' \in Nat /\ off' <= lim
        /\ off' = lim => at' = "done"
        /\ off' # lim => at' = loop
    BY <1>0, <2>1, TurnByte
  <2>3. UNCHANGED args /\ v0' = v0
    BY <2>1 DEF Turn
  <2>4. ArgsOK' /\ Progress'
    BY <1>0, <1>9, <1>a, <2>1, <2>2, <2>3, ByteCopied
  <2>5. LoopInv'
    BY <1>0, <1>9, <2>1, <2>2, <2>3 DEF LoopInv, ByteLoops, args
  <2> QED BY <2>4, <2>5 DEF MemInv
<1>10. CASE UnalignedStart
  <2>1. fn # "bzero" /\ Turn("unaligned_start", 1, "copy_caps") /\ off < lim /\ lim + CapBytes <= len
        /\ CopyByte("unaligned_start", "copy_caps") /\ at = "unaligned_start"
    BY <1>0, <1>10 DEF UnalignedStart, CopyByte, LoopInv, Turn, ByteLoops
  <2>2. /\ off' = off + 1 /\ off' \in Nat /\ off' <= lim
        /\ off' = lim => at' = "copy_caps"
        /\ off' # lim => at' = "unaligned_start"
    BY <1>0, <2>1, TurnByte
  <2>3. UNCHANGED args /\ v0' = v0 /\ v0 = dst
    BY <1>0, <2>1 DEF Turn, LoopInv, ByteLoops
  <2>4. Progress'
    BY <1>0, <2>1, ByteCopied
  <2>5. CASE off' # lim
    BY <1>0, <1>10, <1>a, <2>1, <2>2, <2>3, <2>4, <2>5 DEF UnalignedStart, MemInv, LoopInv, ByteLoops, args
  <2>6. CASE off' = lim
    <3> DEFINE r == len - off'
    <3>1. r \in Nat /\ r >= CapBytes /\ lim' = off' + (r \div CapBytes) * CapBytes
      BY <1>0, <1>10, <2>1, <2>2, <2>6 DEF UnalignedStart, CapsEnd
    <3>2. r \div CapBytes \in Nat \ {0} /\ (r \div CapBytes) * CapBytes <= r
      BY <1>0, <3>1, RoundDown
    <3>3. (r \div CapBytes) * CapBytes \in Nat
      BY <1>0, <3>2
    <3>4. lim' \in Nat /\ lim' <= len /\ lim' - off' = (r \div CapBytes) * CapBytes
      BY <1>0, <2>2, <3>1, <3>2, <3>3
    <3>5. Whole(CapBytes)'
      BY <1>0, <2>3, <3>2, <3>4 DEF Whole, args
    <3>6. ArgsOK'
      BY <1>0, <1>a, <2>1, <2>2, <2>3, <3>4
    <3>7. LoopInv'
      BY <1>0, <2>1, <2>2, <2>3, <2>6, <3>5 DEF LoopInv, ByteLoops, args
    <3> QED BY <2>4, <3>6, <3>7 DEF MemInv
  <2> QED BY <2>5, <2>6
<1>11. CASE CopyCap
  <2> DEFINE next == IF lim = len THEN "done" ELSE "unaligned_end"
  <2>1. fn # "bzero" /\ Whole(CapBytes) /\ Turn("copy_caps", CapBytes, next) /\ at = "copy_caps" /\ v0 = dst
    BY <1>0, <1>11 DEF CopyCap, LoopInv, Turn
  <2> HIDE DEF next
  <2>2. /\ off' \in Nat /\ off' <= len /\ off + CapBytes <= lim
        /\ off' = lim => at' = next
        /\ off' # lim => at' = "copy_caps" /\ \E k \in Nat \ {0} : lim - off' = k * CapBytes
    BY <1>0, <2>1, TurnUnits
  <2>3. /\ off' = off + CapBytes /\ UNCHANGED args /\ v0' = v0 /\ lim <= len
        /\ lim' = IF off' = lim THEN len ELSE lim
    BY <1>11, <2>1 DEF Turn, CopyCap, Whole
  <2>4. ArgsOK'
    BY <1>0, <1>a, <2>2, <2>3
  <2>5. Progress'
    <3>1. ASSUME NEW b \in dst + off .. dst + off + CapBytes - 1
          PROVE  mem[src + b - dst] = Value(b)
      <4>1. b - dst \in Nat /\ b - dst < len /\ src + b - dst = src + (b - dst) /\ dst + (b - dst) = b
        BY <1>0, <2>2, <2>3
      <4> QED BY <1>0, <2>1, <4>1, SourceKept
    <3>2. mem' = [b \in Addresses |-> IF b \in dst + off .. dst + off + CapBytes - 1
                                      THEN Value(b) ELSE mem[b]]
      BY <1>11, <3>1 DEF CopyCap
    <3> QED BY <1>0, <2>3, <3>2, StoreProgress
  <2>6. LoopInv'
    BY <1>0, <2>1, <2>2, <2>3 DEF LoopInv, ByteLoops, Whole, args, next
  <2> QED BY <2>4, <2>5, <2>6 DEF MemInv
<1>12. CASE UNCHANGED vars
  <2>1. ArgsOK' /\ Progress'
    BY <1>0, <1>12, <1>a, <1>b DEF vars, ArgsOK
  <2>2. LoopInv'
    BY <1>0, <1>12 DEF vars, LoopInv, Whole, args
  <2> QED BY <2>1, <2>2 DEF MemInv
<1> QED
  BY <1>1, <1>2, <1>3, <1>4, <1>5, <1>6, <1>7, <1>8, <1>9, <1>10, <1>11, <1>12
  DEF Next, Bzero, Memcpy, NocapTurn, SlowTurn, UnalignedEnd

-----------------------------------------------------------------------------

\* The invariant holds throughout every call that leaves bzero a word to clear.
THEOREM MemInvariance ==
  ASSUME ~MisfitCalls
  PROVE  Spec => []MemInv
<1>1. Init => MemInv
  BY MemInvInit
<1> QED BY <1>1, MemInvNext, PTL DEF Spec

\* No byte outside the target changes at any moment of a call (lib.s: the word
\* and capability stores and the loops that stop on equality only).
THEOREM NothingElseWritten ==
  ASSUME ~MisfitCalls
  PROVE  Spec => []FrameKept
<1>1. MemInv => FrameKept
  <2> SUFFICES ASSUME MemInv, NEW a \in Addresses, a \notin Target PROVE mem[a] = a
    BY DEF FrameKept
  <2>1. a \notin dst .. dst + off - 1
    BY LibMemAssumption DEF MemInv, ArgsOK, Target, Addresses
  <2> QED BY <2>1 DEF MemInv, Progress
<1>2. Spec => []MemInv
  BY MemInvariance
<1> QED BY <1>1, <1>2, PTL

\* A call that returns has cleared or copied every byte of its target, and a
\* copy returns the destination (lib.s: bzero, memcpy_nocap, memcpy_c, smemcpy).
THEOREM AllWritten ==
  ASSUME ~MisfitCalls
  PROVE  Spec => []DoneExactly
<1>1. MemInv => DoneExactly
  <2> SUFFICES ASSUME MemInv, at = "done" PROVE DoneExactly
    BY DEF DoneExactly
  <2>1. off = len
    BY DEF MemInv, LoopInv
  <2>2. ASSUME NEW a \in Target PROVE a \in Addresses
    BY LibMemAssumption DEF MemInv, ArgsOK, Target, Addresses
  <2>3. \A a \in Target : mem[a] = Value(a)
    BY <2>1, <2>2 DEF MemInv, Progress, Target
  <2> QED BY <2>3 DEF DoneExactly, Value, MemInv, LoopInv
<1>2. Spec => []MemInv
  BY MemInvariance
<1> QED BY <1>1, <1>2, PTL

-----------------------------------------------------------------------------
(***************************************************************************)
(* Tags.                                                                   *)
(***************************************************************************)
First(g) == g * CapBytes

\* A byte of the granule has been written; all of them have.
Touched(g) == off > 0 /\ First(g) < dst + off /\ dst < First(g) + CapBytes
Filled(g) == dst <= First(g) /\ First(g) + CapBytes <= dst + off

Fast == fn \in {"memcpy_c", "smemcpy"} /\ FastPath

\* Granules written to have lost their tags, but for those that the fast path
\* has copied whole, which have the tags of their sources.
GranulesInv ==
  fn # "bzero" =>
    \A g \in Granules :
      g \in tagged <=>
        \/ Fast /\ Filled(g) /\ Granule(src + First(g) - dst) \in tagged0
        \/ ~Touched(g) /\ g \in tagged0

\* Capabilities are copied at the boundaries of granules, and what is left
\* behind the last one fills no granule.
PathInv ==
  /\ at = "nocap" => fn = "memcpy_nocap"
  /\ at = "slow" => ~FastPath
  /\ at = "unaligned_start" => Fast /\ lim = ToGranule(dst)
  /\ at = "copy_caps" => Fast /\ len < lim + CapBytes /\ \E m \in Nat : dst + off = First(m)
  /\ at = "unaligned_end" =>
       Fast /\ \E m \in Nat : First(m) <= dst + off /\ dst + len < First(m) + CapBytes

TagInv == MemInv /\ GranulesInv /\ PathInv

\* Multiples of a positive number are ordered as their factors, and a unit apart.
LEMMA MulOrder ==
  ASSUME NEW n \in Nat \ {0}, NEW g \in Nat, NEW h \in Nat
  PROVE  /\ g < h => g * n + n <= h * n
         /\ g * n < h * n => g < h
         /\ g * n < h * n + n => g <= h
<1>1. ASSUME NEW x \in Nat, NEW y \in Nat, x < y PROVE x * n + n <= y * n
  <2>1. y - x - 1 \in Nat
    BY <1>1
  <2>2. (y - x - 1) * n >= 0
    BY <2>1
  <2>3. (y - x - 1) * n = y * n - x * n - n
    BY <2>1
  <2>4. x * n \in Int /\ y * n \in Int
    OBVIOUS
  <2> QED BY <2>2, <2>3, <2>4
<1>2. g * n \in Nat /\ h * n \in Nat
  OBVIOUS
<1>3. g < h => g * n + n <= h * n
  BY <1>1
<1>4. h < g => h * n + n <= g * n
  BY <1>1
<1> QED BY <1>2, <1>3, <1>4

\* The granule of an address is the one between whose boundaries it lies.
LEMMA GranuleBounds ==
  ASSUME NEW b \in Nat
  PROVE  /\ Granule(b) \in Nat
         /\ First(Granule(b)) <= b /\ b < First(Granule(b)) + CapBytes
         /\ \A g \in Nat : First(g) <= b /\ b < First(g) + CapBytes => g = Granule(b)
<1> DEFINE q == Granule(b)
<1>0. CapBytes \in Nat \ {0}
  BY LibMemAssumption
<1>1. b = CapBytes * (b \div CapBytes) + (b % CapBytes) /\ b % CapBytes \in 0 .. CapBytes - 1
      /\ b \div CapBytes \in Int
  BY <1>0
<1>2. q \in Int /\ b = q * CapBytes + (b % CapBytes)
  BY <1>0, <1>1 DEF Granule
<1>3. q \in Nat
  <2> SUFFICES ASSUME q <= -1 PROVE FALSE
    BY <1>2
  <2> HIDE DEF q
  <2>1. (-1 - q) * CapBytes >= 0
    BY <1>0, <1>2
  <2>2. (-1 - q) * CapBytes = -CapBytes - q * CapBytes
    BY <1>0, <1>2
  <2>3. q * CapBytes \in Int
    BY <1>0, <1>2
  <2> QED BY <1>0, <1>1, <1>2, <2>1, <2>2, <2>3
<1> HIDE DEF q
<1>4. q * CapBytes \in Nat /\ q * CapBytes <= b /\ b < q * CapBytes + CapBytes
  BY <1>0, <1>1, <1>2, <1>3
<1>5. ASSUME NEW g \in Nat, g * CapBytes <= b, b < g * CapBytes + CapBytes PROVE g = q
  <2>1. g * CapBytes \in Nat
    BY <1>0
  <2>2. g * CapBytes < q * CapBytes + CapBytes /\ q * CapBytes < g * CapBytes + CapBytes
    BY <1>0, <1>4, <1>5, <2>1
  <2>3. g <= q /\ q <= g
    BY <1>0, <1>3, <2>2, MulOrder
  <2> QED BY <1>3, <2>3
<1> QED BY <1>3, <1>4, <1>5 DEF First, q

\* The head of the fast path ends at the boundary of a granule.
LEMMA HeadAligned ==
  ASSUME NEW d \in Nat
  PROVE  \E m \in Nat : d + ToGranule(d) = First(m) /\ \A g \in Nat : d <= First(g) => First(m) <= First(g)
<1> DEFINE m == 0 - ((0 - d) \div CapBytes)
<1>0. CapBytes \in Nat \ {0}
  BY LibMemAssumption
<1>1. /\ 0 - d = CapBytes * ((0 - d) \div CapBytes) + ((0 - d) % CapBytes)
      /\ (0 - d) % CapBytes \in 0 .. CapBytes - 1 /\ (0 - d) \div CapBytes \in Int
  BY <1>0
<1>2. ToGranule(d) = (0 - d) % CapBytes
  BY DEF ToGranule
<1>3. m \in Int /\ d + ToGranule(d) = m * CapBytes /\ ToGranule(d) \in 0 .. CapBytes - 1
  BY <1>0, <1>1, <1>2
<1> HIDE DEF m
<1>4. m \in Nat
  <2> SUFFICES ASSUME m <= -1 PROVE FALSE
    BY <1>3
  <2>1. (-1 - m) * CapBytes >= 0
    BY <1>0, <1>3
  <2>2. (-1 - m) * CapBytes = -CapBytes - m * CapBytes
    BY <1>0, <1>3
  <2> QED BY <1>0, <1>3, <2>1, <2>2
<1>5. ASSUME NEW g \in Nat, d <= g * CapBytes PROVE m * CapBytes <= g * CapBytes
  <2>1. m * CapBytes \in Int /\ g * CapBytes \in Int
    BY <1>0, <1>3
  <2>2. m * CapBytes < g * CapBytes + CapBytes
    BY <1>0, <1>3, <1>5, <2>1
  <2>3. m <= g
    BY <1>0, <1>4, <2>2, MulOrder
  <2>4. CASE m = g
    BY <2>1, <2>4
  <2>5. CASE m < g
    BY <1>0, <1>4, <2>1, <2>5, MulOrder
  <2> QED BY <1>4, <2>3, <2>4, <2>5
<1> QED BY <1>3, <1>4, <1>5 DEF First

\* Granules are numbers.
LEMMA GranulesNat == \A g \in Granules : g \in Nat /\ First(g) \in Nat
<1>1. \A a \in Addresses : a \in Nat
  BY LibMemAssumption DEF Addresses
<1>2. \A g \in Granules : g \in Nat
  BY <1>1, GranuleBounds DEF Granules
<1> QED BY <1>2, LibMemAssumption DEF First

\* Storing a byte takes the tag of its granule, and completes no granule.
LEMMA ByteTags ==
  ASSUME MemInv, GranulesInv, fn # "bzero", NEW loop, NEW next, CopyByte(loop, next), off < len,
         \A g \in Nat : Fast /\ dst <= First(g) => First(g) + CapBytes # dst + off + 1
  PROVE  GranulesInv'
<1> DEFINE b == dst + off
           G == Granule(b)
<1>1. /\ off' = off + 1 /\ UNCHANGED <<fn, dst, src, len, tagged0>>
      /\ tagged' = tagged \ {Granule(x) : x \in b .. b + 1 - 1}
  BY DEF CopyByte, Turn, Store, args
<1>2. b \in Nat /\ dst \in Nat /\ off \in Nat /\ CapBytes \in Nat \ {0} /\ b .. b + 1 - 1 = {b}
  BY LibMemAssumption DEF MemInv, ArgsOK
<1>3. tagged' = tagged \ {G}
  BY <1>1, <1>2
<1>4. G \in Nat /\ First(G) <= b /\ b < First(G) + CapBytes
      /\ \A g \in Nat : First(g) <= b /\ b < First(g) + CapBytes => g = G
  BY <1>2, GranuleBounds
<1> HIDE DEF G
<1>5. Fast' <=> Fast
  BY <1>1 DEF Fast, FastPath, ToGranule
<1>6. ASSUME NEW g \in Granules
      PROVE  g \in tagged' <=>
               \/ Fast' /\ Filled(g)' /\ Granule(src' + First(g) - dst') \in tagged0'
               \/ ~Touched(g)' /\ g \in tagged0'
  <2>1. g \in Nat /\ First(g) \in Nat
    BY GranulesNat
  <2>2. g \in tagged <=> \/ Fast /\ Filled(g) /\ Granule(src + First(g) - dst) \in tagged0
                         \/ ~Touched(g) /\ g \in tagged0
    BY DEF GranulesInv
  <2>3. CASE g = G
    <3>1. Touched(g)'
      BY <1>1, <1>2, <1>4, <2>1, <2>3 DEF Touched, First
    <3>2. ~(Fast /\ Filled(g)')
      BY <1>1, <1>2, <1>4, <2>1, <2>3 DEF Filled, First
    <3> QED BY <1>3, <1>5, <2>3, <3>1, <3>2
  <2>4. CASE g # G
    <3>1. Touched(g)' <=> Touched(g)
      BY <1>1, <1>2, <1>4, <2>1, <2>4 DEF Touched, First
    <3>2. Fast => (Filled(g)' <=> Filled(g))
      <4>1. Filled(g)' <=> dst <= First(g) /\ First(g) + CapBytes <= dst + off + 1
        BY <1>1, <1>2, <2>1 DEF Filled, First
      <4> QED BY <1>2, <2>1, <4>1 DEF Filled
    <3> QED BY <1>1, <1>3, <1>5, <2>2, <2>4, <3>1, <3>2
  <2> QED BY <2>3, <2>4
<1> QED BY <1>6 DEF GranulesInv, First, Granule, Granules, Addresses

\* Copying a capability gives its granule the tag of the source, and touches no
\* other granule.
LEMMA CapTags ==
  ASSUME MemInv, GranulesInv, fn # "bzero", Fast, CopyCap, off + CapBytes <= len,
         NEW G \in Nat, dst + off = First(G)
  PROVE  GranulesInv'
<1>1. /\ off' = off + CapBytes /\ UNCHANGED <<fn, dst, src, len, tagged0>>
      /\ tagged' = IF Granule(src + off) \in tagged
                   THEN tagged \cup {Granule(dst + off)} ELSE tagged \ {Granule(dst + off)}
  BY DEF CopyCap, Turn, args
<1>2. /\ dst \in Nat /\ off \in Nat /\ src \in Nat /\ len \in Nat /\ CapBytes \in Nat \ {0}
      /\ src + len <= dst /\ src + off \in Addresses /\ First(G) \in Nat
  BY LibMemAssumption DEF MemInv, ArgsOK, Addresses
<1>3. Granule(dst + off) = G
  <2>1. First(G) <= dst + off /\ dst + off < First(G) + CapBytes
    BY <1>2
  <2> QED BY <1>2, <2>1, GranuleBounds
<1>4. Granule(src + off) \in tagged <=> Granule(src + off) \in tagged0
  <2> DEFINE S == Granule(src + off)
  <2>1. S \in Granules /\ S \in Nat /\ First(S) \in Nat /\ First(S) <= src + off
    BY <1>2, GranuleBounds, GranulesNat DEF Granules
  <2> HIDE DEF S
  <2>2. ~Touched(S) /\ ~Filled(S)
    BY <1>2, <2>1 DEF Touched, Filled
  <2> QED BY <2>1, <2>2 DEF GranulesInv, S
<1>5. Fast'
  BY <1>1 DEF Fast, FastPath, ToGranule
<1>6. ASSUME NEW g \in Granules
      PROVE  g \in tagged' <=>
               \/ Fast' /\ Filled(g)' /\ Granule(src' + First(g) - dst') \in tagged0'
               \/ ~Touched(g)' /\ g \in tagged0'
  <2>1. g \in Nat /\ First(g) \in Nat
    BY GranulesNat
  <2>2. g \in tagged <=> \/ Fast /\ Filled(g) /\ Granule(src + First(g) - dst) \in tagged0
                         \/ ~Touched(g) /\ g \in tagged0
    BY DEF GranulesInv
  <2>3. CASE g = G
    <3>1. Touched(g)' /\ Filled(g)'
      BY <1>1, <1>2, <2>1, <2>3 DEF Touched, Filled, First
    <3>2. src' + First(g) - dst' = src + off
      BY <1>1, <1>2, <2>3
    <3> QED BY <1>1, <1>3, <1>4, <1>5, <2>3, <3>1, <3>2
  <2>4. CASE g # G
    <3>1. \/ First(g) + CapBytes <= First(G)
          \/ First(G) + CapBytes <= First(g)
      BY <1>2, <2>1, <2>4, MulOrder DEF First
    <3>2. Touched(g)' <=> Touched(g)
      BY <1>1, <1>2, <2>1, <3>1 DEF Touched, First
    <3>3. Filled(g)' <=> Filled(g)
      <4>1. Filled(g)' <=> dst <= First(g) /\ First(g) + CapBytes <= First(G) + CapBytes
        BY <1>1, <1>2 DEF Filled, First
      <4> QED BY <1>2, <2>1, <3>1, <4>1 DEF Filled
    <3> QED BY <1>1, <1>3, <1>5, <2>2, <2>4, <3>2, <3>3
  <2> QED BY <2>3, <2>4
<1> QED BY <1>6 DEF GranulesInv, First, Granule, Granules, Addresses

\* Before a call nothing is touched.
LEMMA TagInvInit ==
  ASSUME ~MisfitCalls
  PROVE  Init => TagInv
<1> SUFFICES ASSUME Init PROVE TagInv
  OBVIOUS
<1>1. MemInv
  BY MemInvInit
<1>2. GranulesInv
  <2>1. off = 0 /\ tagged0 = tagged /\ dst \in Nat /\ CapBytes \in Nat \ {0}
    BY LibMemAssumption DEF Init
  <2>2. \A g \in Granules : ~Touched(g) /\ ~Filled(g)
    BY <2>1, GranulesNat DEF Touched, Filled
  <2> QED BY <2>1, <2>2 DEF GranulesInv
<1>3. PathInv
  BY DEF Init, PathInv
<1> QED BY <1>1, <1>2, <1>3 DEF TagInv

\* Every step keeps the tags right.
LEMMA TagInvNext == TagInv /\ [Next]_vars => TagInv'
<1> SUFFICES ASSUME TagInv, [Next]_vars PROVE TagInv'
  OBVIOUS
<1>0. /\ MemInv /\ GranulesInv /\ PathInv /\ ArgsOK /\ LoopInv
      /\ dst \in Nat /\ src \in Nat /\ len \in Nat /\ off \in Nat /\ lim \in Nat
      /\ WordBytes \in Nat \ {0} /\ CapBytes \in Nat \ {0}
  BY LibMemAssumption DEF TagInv, MemInv, ArgsOK
<1>1. MemInv'
  BY <1>0, MemInvNext
<1>a. ASSUME UNCHANGED <<args, off, tagged, tagged0>> PROVE GranulesInv'
  BY <1>0, <1>a DEF GranulesInv, args, Fast, FastPath, Filled, Touched, First, ToGranule,
     Granule, Granules, Addresses
<1>b. ASSUME fn = "bzero", UNCHANGED args PROVE TagInv'
  <2>1. fn' = "bzero" /\ at' \notin ByteLoops \cup {"copy_caps"}
    BY <1>1, <1>b DEF MemInv, LoopInv, args
  <2> QED BY <1>1, <2>1 DEF TagInv, GranulesInv, PathInv, ByteLoops
<1>2. CASE Bzero
  <2>1. fn = "bzero" /\ UNCHANGED args
    BY <1>0, <1>2 DEF Bzero, BzeroSmall, BzeroAlign, ClearWord, SmallClr, ClearByte, Turn, LoopInv
  <2> QED BY <1>b, <2>1
<1>3. CASE MemcpyNocap \/ MemcpyCEmpty
  <2>1. GranulesInv'
    BY <1>3, <1>a DEF MemcpyNocap, MemcpyCEmpty, NoStore
  <2>2. PathInv'
    BY <1>0, <1>3 DEF MemcpyNocap, MemcpyCEmpty, PathInv, args
  <2> QED BY <1>1, <2>1, <2>2 DEF TagInv
<1>4. CASE MemcpyC
  <2>1. /\ GranulesInv' /\ off = 0 /\ off' = 0 /\ UNCHANGED args
        /\ fn \in {"memcpy_c", "smemcpy"}
    BY <1>0, <1>4, <1>a DEF MemcpyC, NoStore, LoopInv
  <2>2. (FastPath' <=> FastPath) /\ (Fast' <=> Fast) /\ ToGranule(dst)' = ToGranule(dst)
    BY <2>1 DEF Fast, FastPath, ToGranule, args
  <2>3. CASE ~FastPath /\ at' = "slow" /\ lim' = len
    BY <1>1, <2>1, <2>2, <2>3 DEF TagInv, PathInv
  <2>4. CASE FastPath /\ ToGranule(dst) = 0 /\ at' = "copy_caps" /\ lim' = CapsEnd(0)
    <3>1. PICK m \in Nat : dst + ToGranule(dst) = First(m)
      BY <1>0, HeadAligned
    <3>2. dst' + off' = First(m)
      BY <1>0, <2>1, <2>4, <3>1 DEF args
    <3>3. len < lim' + CapBytes
      <4>1. len = CapBytes * (len \div CapBytes) + (len % CapBytes) /\ len % CapBytes \in 0 .. CapBytes - 1
            /\ len \div CapBytes \in Int
        BY <1>0
      <4>2. lim' = (len \div CapBytes) * CapBytes
        BY <1>0, <2>4, <4>1 DEF CapsEnd
      <4> QED BY <1>0, <4>1, <4>2
    <3>4. Fast'
      BY <2>1, <2>2, <2>4 DEF Fast
    <3>5. len' = len
      BY <2>1 DEF args
    <3> QED BY <1>1, <2>1, <2>4, <3>2, <3>3, <3>4, <3>5 DEF TagInv, PathInv, First
  <2>5. CASE FastPath /\ ToGranule(dst) # 0 /\ at' = "unaligned_start" /\ lim' = ToGranule(dst)
    BY <1>1, <2>1, <2>2, <2>5 DEF TagInv, PathInv, Fast
  <2> QED BY <1>4, <2>3, <2>4, <2>5 DEF MemcpyC
<1>5. CASE NocapTurn \/ SlowTurn
  <2>1. PICK loop \in {"nocap", "slow"} : CopyByte(loop, "done") /\ at = loop
    BY <1>5 DEF NocapTurn, SlowTurn, CopyByte, Turn
  <2>2. fn # "bzero" /\ off < len /\ ~Fast /\ UNCHANGED args
    BY <1>0, <2>1 DEF LoopInv, ByteLoops, PathInv, Fast, CopyByte, Turn
  <2>3. GranulesInv'
    BY <1>0, <2>1, <2>2, ByteTags
  <2>4. PathInv'
    BY <1>0, <2>1, <2>2 DEF PathInv, CopyByte, Turn, args, FastPath, ToGranule
  <2> QED BY <1>1, <2>3, <2>4 DEF TagInv
<1>6. CASE UnalignedStart
  <2>1. /\ CopyByte("unaligned_start", "copy_caps") /\ Turn("unaligned_start", 1, "copy_caps")
        /\ at = "unaligned_start" /\ UNCHANGED args /\ off' = off + 1
        /\ lim' = IF off' = lim THEN CapsEnd(off') ELSE lim
    BY <1>6 DEF UnalignedStart, CopyByte, Turn
  <2>2. /\ fn # "bzero" /\ off < lim /\ lim + CapBytes <= len /\ Fast /\ lim = ToGranule(dst)
        /\ lim < CapBytes
    <3>1. fn # "bzero" /\ off < lim /\ lim + CapBytes <= len /\ Fast /\ lim = ToGranule(dst)
      BY <1>0, <2>1 DEF LoopInv, ByteLoops, PathInv
    <3>2. ToGranule(dst) \in 0 .. CapBytes - 1
      BY <1>0, ModRange DEF ToGranule
    <3> QED BY <1>0, <3>1, <3>2
  <2>3. \A g \in Nat : Fast /\ dst <= First(g) => First(g) + CapBytes # dst + off + 1
    <3>1. \A g \in Nat : First(g) \in Nat
      BY <1>0 DEF First
    <3> QED BY <1>0, <2>2, <3>1
  <2>4. GranulesInv'
    <3>1. off < len
      BY <1>0, <2>2
    <3> QED BY <1>0, <2>1, <2>2, <2>3, <3>1, ByteTags
  <2>5. Fast' /\ ToGranule(dst)' = ToGranule(dst) /\ len' = len /\ dst' = dst
    BY <2>1, <2>2 DEF Fast, FastPath, ToGranule, args
  <2>6. /\ off' = lim => at' = "copy_caps"
        /\ off' # lim => at' = "unaligned_start"
    BY <1>0, <2>1, <2>2, TurnByte
  <2>7. CASE off' # lim
    BY <1>1, <2>1, <2>2, <2>4, <2>5, <2>6, <2>7 DEF TagInv, PathInv
  <2>8. CASE off' = lim
    <3> DEFINE r == len - off'
    <3>1. PICK m \in Nat : dst + ToGranule(dst) = First(m)
      BY <1>0, HeadAligned
    <3>2. dst' + off' = First(m)
      BY <2>2, <2>5, <2>8, <3>1
    <3>3. r \in Nat /\ off' \in Nat /\ lim' = off' + (r \div CapBytes) * CapBytes
      BY <1>0, <2>1, <2>2, <2>8 DEF CapsEnd
    <3> HIDE DEF r
    <3>4. r = CapBytes * (r \div CapBytes) + (r % CapBytes) /\ r % CapBytes \in 0 .. CapBytes - 1
          /\ r \div CapBytes \in Int
      BY <1>0, <3>3
    <3>5. (r \div CapBytes) * CapBytes \in Int /\ r < (r \div CapBytes) * CapBytes + CapBytes
      BY <1>0, <3>3, <3>4
    <3>6. off' \in Int /\ len \in Int /\ CapBytes \in Int
          /\ len - off' < (r \div CapBytes) * CapBytes + CapBytes
      BY <1>0, <3>3, <3>5 DEF r
    <3>7. len < lim' + CapBytes
      BY <3>3, <3>5, <3>6, Transpose
    <3> QED BY <1>1, <2>4, <2>5, <2>6, <2>8, <3>2, <3>7 DEF TagInv, PathInv, First
  <2> QED BY <2>7, <2>8
<1>7. CASE UnalignedEnd
  <2>1. /\ CopyByte("unaligned_end", "done") /\ Turn("unaligned_end", 1, "done")
        /\ at = "unaligned_end" /\ UNCHANGED args /\ off' = off + 1
    BY <1>7 DEF UnalignedEnd, CopyByte, Turn
  <2>2. fn # "bzero" /\ lim = len /\ off < len /\ Fast
    BY <1>0, <2>1 DEF LoopInv, ByteLoops, PathInv
  <2>3. PICK m \in Nat : First(m) <= dst + off /\ dst + len < First(m) + CapBytes
    BY <1>0, <2>1 DEF PathInv
  <2>4. \A g \in Nat : Fast /\ dst <= First(g) => First(g) + CapBytes # dst + off + 1
    <3> SUFFICES ASSUME NEW g \in Nat, First(g) + CapBytes = dst + off + 1 PROVE FALSE
      OBVIOUS
    <3>1. First(g) \in Nat /\ First(m) \in Nat
      BY <1>0 DEF First
    <3>2. First(g) < First(m) /\ First(m) < First(g) + CapBytes
      BY <1>0, <2>2, <2>3, <3>1
    <3>3. g < m
      BY <1>0, <3>2, MulOrder DEF First
    <3>4. First(g) + CapBytes <= First(m)
      BY <1>0, <3>3, MulOrder DEF First
    <3> QED BY <1>0, <3>1, <3>2, <3>4
  <2>5. GranulesInv'
    BY <1>0, <2>1, <2>2, <2>4, ByteTags
  <2>6. /\ off' = lim => at' = "done"
        /\ off' # lim => at' = "unaligned_end"
    BY <1>0, <2>1, <2>2, TurnByte
  <2>7. Fast' /\ len' = len /\ dst' = dst
    BY <2>1, <2>2 DEF Fast, FastPath, ToGranule, args
  <2>8. First(m) <= dst' + off' /\ dst' + len' < First(m) + CapBytes
    <3>1. First(m) \in Nat
      BY <1>0 DEF First
    <3> QED BY <1>0, <2>1, <2>3, <2>7, <3>1
  <2>9. PathInv'
    BY <2>6, <2>7, <2>8 DEF PathInv, First
  <2> QED BY <1>1, <2>5, <2>9 DEF TagInv
<1>8. CASE CopyCap
  <2> DEFINE next == IF lim = len THEN "done" ELSE "unaligned_end"
  <2>1. /\ fn # "bzero" /\ Fast /\ Whole(CapBytes) /\ len < lim + CapBytes /\ UNCHANGED args
        /\ Turn("copy_caps", CapBytes, next) /\ off' = off + CapBytes
        /\ lim' = IF off' = lim THEN len ELSE lim
    BY <1>0, <1>8 DEF CopyCap, Turn, LoopInv, PathInv
  <2>2. PICK m \in Nat : dst + off = First(m)
    BY <1>0, <1>8 DEF CopyCap, Turn, PathInv
  <2> HIDE DEF next
  <2>3. /\ off + CapBytes <= lim
        /\ off' = lim => at' = next
        /\ off' # lim => at' = "copy_caps"
    BY <1>0, <2>1, TurnUnits
  <2>4. GranulesInv'
    <3>1. off + CapBytes <= len
      BY <1>0, <2>1, <2>3 DEF Whole
    <3> QED BY <1>0, <1>8, <2>1, <2>2, <3>1, CapTags
  <2>5. Fast' /\ len' = len /\ dst' = dst
    BY <2>1 DEF Fast, FastPath, ToGranule, args
  <2>6. m + 1 \in Nat /\ dst' + off' = First(m + 1)
    <3>1. First(m + 1) = First(m) + CapBytes
      BY <1>0 DEF First
    <3> QED BY <1>0, <2>1, <2>2, <2>5, <3>1
  <2>7. CASE off' # lim
    BY <1>1, <2>1, <2>3, <2>4, <2>5, <2>6, <2>7 DEF TagInv, PathInv, First
  <2>8. CASE off' = lim
    <3>1. First(m + 1) <= dst' + off' /\ dst' + len' < First(m + 1) + CapBytes
      <4>1. First(m + 1) \in Nat
        BY <1>0 DEF First
      <4> QED BY <1>0, <2>1, <2>5, <2>6, <2>8, <4>1
    <3>2. at' \in {"done", "unaligned_end"}
      BY <2>3, <2>8 DEF next
    <3>3. PathInv'
      BY <2>5, <2>6, <3>1, <3>2 DEF PathInv, First
    <3> QED BY <1>1, <2>4, <3>3 DEF TagInv
  <2> QED BY <2>7, <2>8
<1>9. CASE UNCHANGED vars
  <2>1. GranulesInv'
    BY <1>9, <1>a DEF vars
  <2>2. PathInv'
    BY <1>0, <1>9 DEF vars, args, PathInv, Fast, FastPath, ToGranule, First
  <2> QED BY <1>1, <2>1, <2>2 DEF TagInv
<1> QED
  BY <1>2, <1>3, <1>4, <1>5, <1>6, <1>7, <1>8, <1>9 DEF Next, Memcpy

\* A granule copied whole between pointers of one alignment has the tag of its
\* source, any other granule written to has none, and no other tag changes
\* (lib.s, memcpy_c), for every size of capabilities.
THEOREM TagsRight ==
  ASSUME ~MisfitCalls
  PROVE  Spec => []TagsFollowCapabilities
<1>1. TagInv => TagsFollowCapabilities
  <2> SUFFICES ASSUME TagInv, at = "done", fn # "bzero", NEW g \in Granules
               PROVE  LET first == g * CapBytes
                          bytes == first .. first + CapBytes - 1
                          whole == bytes \subseteq Target /\ fn # "memcpy_nocap"
                                     /\ dst % CapBytes = src % CapBytes
                      IN  g \in tagged <=>
                            \/ whole /\ Granule(src + first - dst) \in tagged0
                            \/ bytes \cap Target = {} /\ g \in tagged0
    BY DEF TagsFollowCapabilities
  <2> DEFINE bytes == First(g) .. First(g) + CapBytes - 1
  <2>1. /\ off = len /\ dst \in Nat /\ len \in Nat /\ CapBytes \in Nat \ {0}
        /\ g \in Nat /\ First(g) \in Nat /\ fn \in CopyFns \cup {"bzero"}
    BY LibMemAssumption, GranulesNat DEF TagInv, MemInv, ArgsOK, LoopInv
  <2>2. bytes \subseteq Target <=> Filled(g)
    <3>1. bytes \subseteq Target => Filled(g)
      <4>1. First(g) \in bytes /\ First(g) + CapBytes - 1 \in bytes
        BY <2>1
      <4> QED BY <2>1, <4>1 DEF Target, Filled
    <3>2. Filled(g) => bytes \subseteq Target
      BY <2>1 DEF Target, Filled
    <3> QED BY <3>1, <3>2
  <2>3. bytes \cap Target = {} <=> ~Touched(g)
    <3>1. Touched(g) => bytes \cap Target # {}
      <4>1. CASE First(g) <= dst
        BY <2>1, <4>1 DEF Touched, Target
      <4>2. CASE dst < First(g)
        BY <2>1, <4>2 DEF Touched, Target
      <4> QED BY <2>1, <4>1, <4>2
    <3>2. bytes \cap Target # {} => Touched(g)
      BY <2>1 DEF Touched, Target
    <3> QED BY <3>1, <3>2
  <2>4. Filled(g) /\ fn # "memcpy_nocap" /\ dst % CapBytes = src % CapBytes <=> Filled(g) /\ Fast
    <3>1. ASSUME Filled(g), dst % CapBytes = src % CapBytes PROVE FastPath
      <4>1. PICK m \in Nat : dst + ToGranule(dst) = First(m) /\ First(m) <= First(g)
        BY <2>1, <3>1, HeadAligned DEF Filled
      <4>2. ToGranule(dst) \in 0 .. CapBytes - 1
        BY <2>1, ModRange DEF ToGranule
      <4> QED BY <2>1, <3>1, <4>1, <4>2 DEF Filled, FastPath
    <3> QED BY <2>1, <3>1 DEF Fast, FastPath, CopyFns
  <2>5. g \in tagged <=> \/ Fast /\ Filled(g) /\ Granule(src + First(g) - dst) \in tagged0
                         \/ ~Touched(g) /\ g \in tagged0
    BY DEF TagInv, GranulesInv
  <2> QED BY <2>2, <2>3, <2>4, <2>5 DEF First
<1>2. Init => TagInv
  BY TagInvInit
<1> QED BY <1>1, <1>2, TagInvNext, PTL DEF Spec

-----------------------------------------------------------------------------
(***************************************************************************)
(* Termination.                                                            *)
(***************************************************************************)
\* Every step moves the cursor, which never passes the end, or goes on to a
\* later part of the function.
Parts == <<"call", "words", "smallclr", "bytes", "nocap", "slow", "unaligned_start",
           "copy_caps", "unaligned_end", "done">>
Onward(p, q) == \E i, j \in 1 .. 10 : i < j /\ p = Parts[i] /\ q = Parts[j]
Advance == (off < off' /\ off' <= len) \/ (off' = off /\ Onward(at, at'))

\* A turn moves the cursor inside the target, any other step goes on.
LEMMA StepAdvances == MemInv /\ Next => Advance
<1> SUFFICES ASSUME MemInv, Next PROVE Advance
  OBVIOUS
<1>1. /\ off \in Nat /\ WordBytes \in Nat \ {0} /\ CapBytes \in Nat \ {0}
      /\ len \in Nat /\ dst \in Int /\ LoopInv
  BY LibMemAssumption DEF MemInv, ArgsOK
<1>2. MemInv' /\ len' = len /\ off' <= len
  <2>1. MemInv'
    BY MemInvNext
  <2>2. len' = len
    BY DEF Next, Bzero, Memcpy, BzeroSmall, BzeroAlign, ClearWord, SmallClr, ClearByte,
           MemcpyNocap, MemcpyCEmpty, MemcpyC, NocapTurn, SlowTurn, UnalignedStart, CopyCap,
           UnalignedEnd, CopyByte, Turn, args
  <2> QED BY <2>1, <2>2 DEF MemInv, ArgsOK
<1>3. /\ \A q \in {"smallclr", "words", "nocap", "slow", "unaligned_start", "copy_caps", "done"} :
            Onward("call", q)
      /\ Onward("smallclr", "bytes") /\ Onward("smallclr", "done")
  BY DEF Onward, Parts
<1>4. ASSUME NEW loop, NEW n \in Nat \ {0}, NEW next, Turn(loop, n, next) PROVE Advance
  BY <1>1, <1>2, <1>4 DEF Turn, Advance
<1>5. CASE ClearWord \/ ClearByte \/ NocapTurn \/ SlowTurn \/ UnalignedStart \/ CopyCap \/ UnalignedEnd
  BY <1>1, <1>4, <1>5
  DEF ClearWord, ClearByte, NocapTurn, SlowTurn, UnalignedStart, CopyCap, UnalignedEnd, CopyByte
<1>6. CASE BzeroAlign
  <2>1. off' = ToWord(dst) /\ at = "call" /\ at' = "words" /\ off = 0
    BY <1>1, <1>6 DEF BzeroAlign, LoopInv
  <2>2. off' \in Nat
    BY <1>2 DEF MemInv, ArgsOK
  <2> QED BY <1>2, <1>3, <2>1, <2>2 DEF Advance
<1>7. CASE BzeroSmall \/ SmallClr \/ MemcpyNocap \/ MemcpyCEmpty \/ MemcpyC
  BY <1>3, <1>7 DEF BzeroSmall, SmallClr, MemcpyNocap, MemcpyCEmpty, MemcpyC, Advance
<1> QED BY <1>5, <1>6, <1>7 DEF Next, Bzero, Memcpy

\* No call goes on for ever: every step moves the cursor, which stays within
\* the length of the call, or leaves it and goes on to a later part of the
\* function (lib.s: the loops end on bne).  It is the safe half of
\* CallReturns.
THEOREM EveryStepAdvances ==
  ASSUME ~MisfitCalls
  PROVE  Spec => [][Advance]_vars
<1>1. MemInv /\ [Next]_vars => [Advance]_vars
  BY StepAdvances
<1>2. Spec => []MemInv
  BY MemInvariance
<1> QED BY <1>1, <1>2, PTL DEF Spec
=============================================================================
