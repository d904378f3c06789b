---------------------------- MODULE AbstractCopy ----------------------------
(***************************************************************************)
(* What memcpy, memmove and bcopy promise on tagged memory: while a call   *)
(* is busy only the destination changes, in any way, and when it is done   *)
(* the destination holds what the source held before the call, with the    *)
(* tags of the capabilities that were copied whole and aligned.            *)
(***************************************************************************)
EXTENDS Integers

VARIABLES mem,     \* bytes by address
          tag,     \* addresses of the granules whose tag is set
          call,    \* the call: dst0, src0, length, psize (bytes of a granule)
          busy,    \* the call has not returned
          old      \* mem and tag when it was made

vars == <<mem, tag, call, busy, old>>

Target(c) == c.dst0 .. c.dst0 + c.length - 1
Granule(c, a) == a - (a % c.psize)
Touched(c) == {Granule(c, a) : a \in Target(c)}

\* Nothing is copied onto itself; then even the tags of granules that are
\* only partly in the range stay.
Trivial(c) == c.length = 0 \/ c.src0 = c.dst0

CopiedBytes(c, m) ==
  [a \in DOMAIN m |-> IF a \in Target(c) THEN m[c.src0 + (a - c.dst0)] ELSE m[a]]

\* A granule of the destination keeps a tag when all of it is written from
\* a tagged granule of the source.
CopiedTags(c, T) ==
  IF Trivial(c) THEN T
  ELSE (T \ Touched(c)) \cup
       {g \in Touched(c) : /\ g .. g + c.psize - 1 \subseteq Target(c)
                           /\ c.src0 + (g - c.dst0) \in T}

Init == busy = FALSE

Work ==
  /\ busy
  /\ DOMAIN mem' = DOMAIN mem
  /\ \A a \in DOMAIN mem \ Target(call) : mem'[a] = mem[a]
  /\ tag \ tag' \subseteq Touched(call) /\ tag' \ tag \subseteq Touched(call)
  /\ UNCHANGED <<call, busy, old>>

Finish ==
  /\ busy
  /\ mem = CopiedBytes(call, old.mem)
  /\ tag = CopiedTags(call, old.tag)
  /\ busy' = FALSE
  /\ UNCHANGED <<mem, tag, call, old>>

\* Between calls memory is the caller's, which may also make the next call.
Caller ==
  /\ ~busy
  /\ busy' \in BOOLEAN
  /\ busy' => old' = [mem |-> mem', tag |-> tag']

Next == Work \/ Finish \/ Caller

Spec == Init /\ [][Next]_vars

=============================================================================
