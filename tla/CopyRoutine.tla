----------------------------- MODULE CopyRoutine -----------------------------
(***************************************************************************)
(* memcpy.c of cheri-c-tests: the one routine behind memcpy, memcpy_c,     *)
(* memmove and bcopy, on tagged memory, with a turn of a MIPSLOOP as the   *)
(* step.  It copies bytes until words are aligned, words until             *)
(* capabilities are aligned, capabilities, and the bytes left over; from   *)
(* the end when the destination lies above an overlapping source.          *)
(*                                                                         *)
(* An access outside the bounds of dst or src, or one that is not aligned  *)
(* to its size, ends the call in "trap".                                   *)
(***************************************************************************)
EXTENDS Integers

VARIABLES
  mem,      \* bytes by address
  tag,      \* addresses of the granules whose tag is set
  call,     \* fn, dst0, src0, length; wsize and psize of the build
  pc,       \* the next phase of the call, or "idle", "done", "trap"
  dst, src, \* the pointers; behind the data when copying backwards
  len,      \* the parameter length, which the phases count down
  loop,     \* the MIPSLOOP under way, or NoLoop
  result,   \* what the call returned
  old       \* history: mem and tag when the call was made

copyVars == <<mem, tag, call, pc, dst, src, len, loop, result, old>>

NoLoop == [unit |-> 0, t |-> 0, last |-> 0, inc |-> 0]
NoResult == -1
Phases == {"call", "align", "words", "ptrs", "tail", "return"}

W == call.wsize
P == call.psize
bigptr == P > W

\* memcpy and memcpy_c are not told to handle overlap.
handle_overlap == call.fn \in {"memmove", "bcopy"}
UpAlways == TRUE
Up == call.dst0 < call.src0 \/ ~handle_overlap

\* Behind the early exit dst and src are bounded to the length, except where
\* they are the caller's own capabilities or no capabilities at all.
Bounds(base) ==
  IF call.fn = "memcpy_c" \/ ~bigptr THEN DOMAIN mem
  ELSE {a \in DOMAIN mem : base <= a /\ a < base + call.length}

\* The low bits under a mask of m - 1: (src | dst) and (src ^ dst).
Unaligned(m) == src % m # 0 \/ dst % m # 0
Misfit(m) == src % m # dst % m

-----------------------------------------------------------------------------
\* A caller enters the routine.
Enter(c) ==
  /\ pc = "idle"
  /\ call' = c
  /\ pc' = "call"
  /\ old' = [mem |-> mem, tag |-> tag]
  /\ dst' = c.dst0 /\ src' = c.src0 /\ len' = c.length
  /\ loop' = NoLoop /\ result' = NoResult
  /\ UNCHANGED <<mem, tag>>

\* Nothing to do, or set the pointers: to the end when copying backwards.
NothingToDo == len = 0 \/ call.src0 = call.dst0
Begin ==
  /\ pc = "call"
  /\ pc' = IF NothingToDo THEN "return" ELSE "align"
  /\ dst' = IF NothingToDo \/ Up THEN dst ELSE dst + len
  /\ src' = IF NothingToDo \/ Up THEN src ELSE src + len
  /\ UNCHANGED <<mem, tag, call, len, loop, result, old>>

\* Move both pointers over n units and set up the loop that copies them.
MipsLoopUp(n, unit) ==
  /\ dst' = dst + n * unit /\ src' = src + n * unit
  /\ loop' = [unit |-> unit, t |-> -(n * unit), last |-> -unit, inc |-> unit]

MipsLoopDown(n, unit) ==
  /\ dst' = dst - n * unit /\ src' = src - n * unit
  /\ loop' = [unit |-> unit, t |-> (n - 1) * unit, last |-> 0, inc |-> -unit]

MipsLoop(n, unit) == IF Up THEN MipsLoopUp(n, unit) ELSE MipsLoopDown(n, unit)
NoLoopNow == UNCHANGED <<dst, src, loop>>

Phase(now, next) ==
  /\ pc = now /\ loop = NoLoop
  /\ pc' = next
  /\ UNCHANGED <<mem, tag, call, result, old>>

\* Bytes up to the first word boundary, or all of them.
AlignBytesUp == IF Misfit(W) \/ len < W THEN len ELSE W - (src % W)
AlignBytesDownUnmasked == IF Misfit(W) \/ len <= W THEN len ELSE W - (src % W)
AlignBytesDown == IF Misfit(W) \/ len <= W THEN len ELSE src % W
Align ==
  /\ Phase("align", "words")
  /\ IF Unaligned(W)
     THEN LET n == IF Up THEN AlignBytesUp ELSE AlignBytesDown IN
          MipsLoop(n, 1) /\ len' = len - n
     ELSE NoLoopNow /\ UNCHANGED len

\* Words up to the first capability boundary, or all of them.
WordCountUpEager == (P - (src % P)) \div W
WordCountUp == IF Misfit(P) \/ len < P THEN len \div W ELSE (P - (src % P)) \div W
WordCountDown == IF Misfit(P) \/ len < P THEN len \div W ELSE (src % P) \div W
Words ==
  /\ Phase("words", "ptrs")
  /\ LET n == IF ~bigptr \/ ~Unaligned(P) THEN 0 ELSE IF Up THEN WordCountUp ELSE WordCountDown
     IN  IF n # 0
         THEN MipsLoop(n, W) /\ len' = len - n * W
         ELSE NoLoopNow /\ UNCHANGED len

\* Whole capabilities; length is not counted down.
PtrsByWords ==
  /\ Phase("ptrs", "tail")
  /\ IF len \div P # 0 THEN MipsLoop((len \div P) * (P \div W), W) ELSE NoLoopNow
  /\ UNCHANGED len
Ptrs ==
  /\ Phase("ptrs", "tail")
  /\ IF len \div P # 0 THEN MipsLoop(len \div P, P) ELSE NoLoopNow
  /\ UNCHANGED len

\* The bytes behind (or, backwards, before) the last capability.
TailBytes ==
  /\ Phase("tail", "return")
  /\ IF len % P # 0 THEN MipsLoop(len % P, 1) ELSE NoLoopNow
  /\ UNCHANGED len

-----------------------------------------------------------------------------
\* Tagged memory: a capability is copied with its tag, any other store
\* clears the tag of the granule it touches.
Move(d, s, unit) ==
  LET g == d - (d % P) IN
  /\ mem' = [a \in DOMAIN mem |-> IF d <= a /\ a < d + unit THEN mem[s + (a - d)] ELSE mem[a]]
  /\ tag' = (tag \ {g}) \cup (IF unit = P /\ s \in tag THEN {d} ELSE {})

Accessible(a, unit, bounds) == a % unit = 0 /\ a .. a + unit - 1 \subseteq bounds

\* The condition at the end of a MIPSLOOP is equality with last.
AtLast == loop.t = loop.last

\* One turn of a MIPSLOOP.
Turn ==
  /\ loop # NoLoop /\ pc # "trap"
  /\ LET d == dst + loop.t
         s == src + loop.t
     IN  IF /\ Accessible(d, loop.unit, Bounds(call.dst0))
            /\ Accessible(s, loop.unit, Bounds(call.src0))
         THEN /\ Move(d, s, loop.unit)
              /\ loop' = IF AtLast THEN NoLoop ELSE [loop EXCEPT !.t = @ + loop.inc]
              /\ UNCHANGED pc
         ELSE /\ pc' = "trap"
              /\ UNCHANGED <<mem, tag, loop>>
  /\ UNCHANGED <<call, dst, src, len, result, old>>

\* bcopy returns nothing, the others the destination.
Return ==
  /\ pc = "return" /\ loop = NoLoop
  /\ pc' = "done"
  /\ result' = IF call.fn = "bcopy" THEN NoResult ELSE call.dst0
  /\ UNCHANGED <<mem, tag, call, dst, src, len, loop, old>>

CopyNext == Begin \/ Align \/ Words \/ Ptrs \/ TailBytes \/ Turn \/ Return

=============================================================================
