------------------------------- MODULE LibMem -------------------------------
(***************************************************************************)
(* The memory functions of lib.s: bzero, memcpy_nocap, memcpy_c and        *)
(* smemcpy, one call at a time, with a turn of a loop as the step.         *)
(*                                                                         *)
(* A byte of memory is known by the address it came from (memory starts as *)
(* mem[a] = a), or is Zero.  Memory is tagged: a capability store writes a *)
(* whole granule with its tag, any other store clears the tag.  A pointer  *)
(* that leaves the modelled memory ends the call in "runaway".             *)
(***************************************************************************)
EXTENDS Integers, FiniteSets

CONSTANTS WordBytes,    \* a doubleword: 8
          SmallClear,   \* bzero clears fewer bytes than this one by one: 12
          CapBytes,     \* CAP_SIZE / 8
          SrcTop,       \* bound: sources lie below it, destinations above
          MemTop,       \* bound: bytes of memory
          MaxLen,       \* bound: length of a call
          DdcBase,      \* base of the default data capability
          MisfitCalls   \* bzero is also called with lengths that do not leave
                        \* a word behind the alignment

ASSUME LibMemAssumption ==
  /\ {WordBytes, CapBytes} \subseteq Nat \ {0, 1}
  /\ {SmallClear, SrcTop, MemTop, MaxLen, DdcBase} \subseteq Nat
  /\ MisfitCalls \in BOOLEAN
  /\ CapBytes + MaxLen <= SrcTop + 1                 \* every source fits below SrcTop
  /\ SrcTop + WordBytes + MaxLen <= MemTop + 1       \* and every destination above it

Zero == -1
Addresses == 0 .. MemTop - 1
Granule(a) == a \div CapBytes
Granules == {Granule(a) : a \in Addresses}

VARIABLES
  fn,      \* the function called
  dst,     \* its destination (bzero: the pointer)
  src,     \* its source
  len,     \* its length
  at,      \* where the call is: a loop, "call", "done" or "runaway"
  off,     \* bytes done: the cursor register less dst
  lim,     \* where the present loop ends, as an offset
  v0,      \* the result
  mem,     \* the bytes
  tagged,  \* the granules whose tag is set
  tagged0  \* history: the same before the call

args == <<fn, dst, src, len>>
vars == <<args, at, off, lim, v0, mem, tagged, tagged0>>

CopyFns == {"memcpy_nocap", "memcpy_c", "smemcpy"}
ByteLoops == {"nocap", "slow", "unaligned_start", "unaligned_end"}

\* Bytes up to the next doubleword, and up to the next granule.
ToWord(a) == (-a) % WordBytes
ToGranule(a) == (-a) % CapBytes

Misfit(d, n) == n >= SmallClear /\ n - ToWord(d) < WordBytes

\* Any call whose source and destination do not overlap.  Capabilities may
\* be anywhere in the source of a capability copy; there are some in every
\* destination already.
Init ==
  /\ fn \in CopyFns \cup {"bzero"}
  /\ dst \in SrcTop .. SrcTop + WordBytes - 1
  /\ src \in IF fn = "bzero" THEN {0} ELSE 0 .. CapBytes - 1
  /\ len \in 0 .. MaxLen
  /\ fn = "bzero" /\ Misfit(dst, len) => MisfitCalls
  /\ at = "call" /\ off = 0 /\ lim = 0 /\ v0 = 0
  /\ mem = [a \in Addresses |-> a]
  /\ \E T \in IF fn \in {"memcpy_c", "smemcpy"}
              THEN SUBSET {Granule(a) : a \in 0 .. SrcTop - 1} ELSE {{}} :
       tagged = T \cup {Granule(a) : a \in SrcTop .. MemTop - 1}
  /\ tagged0 = tagged

-----------------------------------------------------------------------------
(* Stores. *)

\* The n bytes at address a are overwritten by what f gives them; their
\* granules lose their tags.
Store(a, n, f(_)) ==
  /\ mem' = [b \in Addresses |-> IF b \in a .. a + n - 1 THEN f(b) ELSE mem[b]]
  /\ tagged' = tagged \ {Granule(b) : b \in a .. a + n - 1}

StoreZeros(a, n) == Store(a, n, LAMBDA b : Zero)

NoStore == UNCHANGED <<mem, tagged>>

\* A turn of a loop that handles n bytes at the cursor and then goes round,
\* or on to `next' when the cursor has reached the end (bne).
Turn(loop, n, next) ==
  /\ at = loop
  /\ off' = off + n
  /\ at' = IF off + n = lim THEN next
           ELSE IF dst + off + 2 * n > MemTop THEN "runaway" ELSE loop
  /\ UNCHANGED <<args, v0, tagged0>>

-----------------------------------------------------------------------------
(* bzero. *)

BzeroSmall ==
  /\ fn = "bzero" /\ at = "call"
  /\ len < SmallClear
  /\ at' = "smallclr"
  /\ NoStore
  /\ UNCHANGED <<args, off, lim, v0, tagged0>>

BzeroAlignSkipped ==
  /\ fn = "bzero" /\ at = "call"
  /\ len >= SmallClear
  /\ LET pre == ToWord(dst)
         rest == len - pre
     IN  /\ off' = pre
         /\ lim' = pre + (rest - (rest % WordBytes))
  /\ NoStore
  /\ at' = "words"
  /\ UNCHANGED <<args, v0, tagged0>>

\* sdl clears the bytes up to the next doubleword; then the loop at 2: is
\* set up to clear the doublewords that are left.
BzeroAlign ==
  /\ fn = "bzero" /\ at = "call"
  /\ len >= SmallClear
  /\ LET pre == ToWord(dst)
         rest == len - pre
     IN  /\ StoreZeros(dst, pre)
         /\ off' = pre
         /\ lim' = pre + (rest - (rest % WordBytes))
  /\ at' = "words"
  /\ UNCHANGED <<args, v0, tagged0>>

ClearWord ==
  /\ Turn("words", WordBytes, "smallclr")
  /\ StoreZeros(dst + off, WordBytes)
  /\ UNCHANGED lim

SmallClrUnchecked ==
  /\ at = "smallclr"
  /\ lim' = len
  /\ at' = "bytes"
  /\ NoStore
  /\ UNCHANGED <<args, off, v0, tagged0>>

\* smallclr: what is left goes byte by byte, if anything is.
SmallClr ==
  /\ at = "smallclr"
  /\ lim' = len
  /\ at' = IF len - off <= 0 THEN "done" ELSE "bytes"
  /\ NoStore
  /\ UNCHANGED <<args, off, v0, tagged0>>

ClearByte ==
  /\ Turn("bytes", 1, "done")
  /\ StoreZeros(dst + off, 1)
  /\ UNCHANGED lim

-----------------------------------------------------------------------------
(* memcpy_nocap, memcpy_c and smemcpy. *)

MemcpyNocap ==
  /\ fn = "memcpy_nocap" /\ at = "call"
  /\ v0' = dst
  /\ lim' = len
  /\ at' = IF len = 0 THEN "done" ELSE "nocap"
  /\ NoStore
  /\ UNCHANGED <<args, off, tagged0>>

\* smemcpy derives its capabilities from the default data capability, so
\* their base is DdcBase and dst is base plus offset; a caller of memcpy_c
\* may as well pass a capability that starts at dst.
BaseOfDst == IF fn = "smemcpy" THEN DdcBase ELSE dst
OffsetOfDst == IF fn = "smemcpy" THEN dst - DdcBase ELSE 0

AddressOfDst == BaseOfDst + OffsetOfDst

\* memcpy_c with length 0: only CGetBase, in the delay slot, is executed.
MemcpyCEmpty ==
  /\ fn \in {"memcpy_c", "smemcpy"} /\ at = "call"
  /\ len = 0
  /\ v0' = BaseOfDst
  /\ at' = "done"
  /\ NoStore
  /\ UNCHANGED <<args, off, lim, tagged0>>

\* Whether the fast path is taken: both pointers have one alignment and at
\* least a capability follows the bytes before the first boundary.
FastPath ==
  /\ dst % CapBytes = src % CapBytes
  /\ len - ToGranule(dst) >= CapBytes

\* Where copy_caps ends when it starts at offset o.
CapsEndRoundsUp(o) == o + ((len - o + CapBytes - 1) \div CapBytes) * CapBytes
CapsEnd(o) == o + ((len - o) \div CapBytes) * CapBytes

MemcpyC ==
  /\ fn \in {"memcpy_c", "smemcpy"} /\ at = "call"
  /\ len > 0
  /\ v0' = AddressOfDst
  /\ LET pre == ToGranule(dst)
     IN  \/ /\ ~FastPath
            /\ at' = "slow" /\ lim' = len
         \/ /\ FastPath /\ pre = 0
            /\ at' = "copy_caps" /\ lim' = CapsEnd(0)
         \/ /\ FastPath /\ pre # 0
            /\ at' = "unaligned_start" /\ lim' = pre
  /\ NoStore
  /\ UNCHANGED <<args, off, tagged0>>

\* clb and csb, or lb and sb.
CopyByte(loop, next) ==
  /\ Turn(loop, 1, next)
  /\ Store(dst + off, 1, LAMBDA b : mem[src + off])

NocapTurn == CopyByte("nocap", "done") /\ UNCHANGED lim
SlowTurn == CopyByte("slow", "done") /\ UNCHANGED lim
UnalignedEnd == CopyByte("unaligned_end", "done") /\ UNCHANGED lim

UnalignedStart ==
  /\ CopyByte("unaligned_start", "copy_caps")
  /\ lim' = IF off + 1 = lim THEN CapsEnd(off + 1) ELSE lim

CopyCapDataOnly ==
  /\ Turn("copy_caps", CapBytes, IF lim = len THEN "done" ELSE "unaligned_end")
  /\ Store(dst + off, CapBytes, LAMBDA b : mem[src + b - dst])
  /\ lim' = IF off + CapBytes = lim THEN len ELSE lim

\* clc and csc: CapBytes bytes and the tag.  Behind the last one, the bytes
\* that do not fill a capability are left for unaligned_end.
CopyCap ==
  /\ Turn("copy_caps", CapBytes, IF lim = len THEN "done" ELSE "unaligned_end")
  /\ mem' = [b \in Addresses |->
               IF b \in dst + off .. dst + off + CapBytes - 1
               THEN mem[src + b - dst] ELSE mem[b]]
  /\ tagged' = IF Granule(src + off) \in tagged
               THEN tagged \cup {Granule(dst + off)}
               ELSE tagged \ {Granule(dst + off)}
  /\ lim' = IF off + CapBytes = lim THEN len ELSE lim

Bzero == BzeroSmall \/ BzeroAlign \/ ClearWord \/ SmallClr \/ ClearByte
Memcpy == \/ MemcpyNocap \/ MemcpyCEmpty \/ MemcpyC
          \/ NocapTurn \/ SlowTurn \/ UnalignedStart \/ CopyCap \/ UnalignedEnd

Next == Bzero \/ Memcpy

Spec == Init /\ [][Next]_vars

FairSpec == Spec /\ WF_vars(Next)

-----------------------------------------------------------------------------

Target == dst .. dst + len - 1

\* Nothing outside the bytes the caller named changes, at any moment of a
\* call: neither the word and capability stores nor the loops that stop only
\* on equality (bne) go past the end.
FrameKept == \A a \in Addresses \ Target : mem[a] = a

\* When a function returns, every byte the caller named has been cleared, or
\* holds the byte of the source with the same offset, whichever mixture of
\* byte, word and capability stores got it there; and a copy of at least one
\* byte, and memcpy_nocap always, returns the address of the destination.
DoneExactly ==
  at = "done" =>
    /\ \A a \in Target : mem[a] = IF fn = "bzero" THEN Zero ELSE src + (a - dst)
    /\ fn # "bzero" /\ (len > 0 \/ fn = "memcpy_nocap") => v0 = dst

\* "memcpy should work for any partial copy of this structure that includes
\* the capability, as long as both have the correct alignment", and otherwise
\* the copy "should have invalidated the capability"
\* (clang_hybrid_memcpy.c): after memcpy_c a granule copied whole between
\* pointers of one alignment has the tag of its source, any other granule
\* written to has none, and no other tag changed.
TagsFollowCapabilities ==
  at = "done" /\ fn # "bzero" =>
    \A g \in Granules :
      LET first == g * CapBytes
          bytes == first .. first + CapBytes - 1
          whole == bytes \subseteq Target /\ fn # "memcpy_nocap"
                     /\ dst % CapBytes = src % CapBytes
      IN  g \in tagged <=>
            \/ whole /\ Granule(src + first - dst) \in tagged0
            \/ bytes \cap Target = {} /\ g \in tagged0

\* Every call returns: the end tests, which look for equality, are met.
CallReturns == <>(at = "done")
=============================================================================
