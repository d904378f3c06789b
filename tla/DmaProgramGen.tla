---------------------------- MODULE DmaProgramGen ----------------------------
(***************************************************************************)
(* The random DMA program generator of the DMA fuzzer                      *)
(* (random_dma_program_structure and write_random_dma_program of           *)
(* dma_test_generation.c).                                                 *)
(*                                                                         *)
(* A program is a tree of loops, sequences and operations.  It is grown by *)
(* filling its spaces in the order in which they were made.  Of a space    *)
(* the model keeps the loop_level with which write_random_dma_program will *)
(* visit it; of the finished part, its length and its deepest loop_level.  *)
(***************************************************************************)
EXTENDS Integers, Sequences

CONSTANTS LENGTH_LIMIT, SPACE_LIMIT,   \* as in the code: 12 and 10
          RAND_LIMIT,   \* myrand() is in 0 .. RAND_LIMIT: 32767 in the code;
                        \* LENGTH_LIMIT * SPACE_LIMIT leaves the same choices
          MaxZeros      \* bound: times myrand() answers 0 for one program

ASSUME GenAssumption ==
  /\ {LENGTH_LIMIT, SPACE_LIMIT, RAND_LIMIT} \subseteq Nat \ {0}
  /\ MaxZeros \in Nat

VARIABLES
  space,           \* the loop_level of each space, in the order of the list
  spaces,          \* the code's count of them
  program_length,  \* the code's count of the instructions so far
  deepest,         \* the deepest loop_level of a finished node
  zeros            \* history: how often myrand() was 0

genVars == <<space, spaces, program_length, deepest, zeros>>

GenTypeOK ==
  /\ space \in Seq(Nat)
  /\ spaces \in Nat
  /\ program_length \in Nat
  /\ deepest \in Nat
  /\ zeros \in 0 .. MaxZeros

\* A tree with nothing but a space for its root.
GenInit ==
  /\ space = <<0>>
  /\ spaces = 1
  /\ program_length = 0
  /\ deepest = 0
  /\ zeros = 0

length_bias == LENGTH_LIMIT - program_length
space_bias == SPACE_LIMIT - spaces

\* The node the code makes of the next space, given myrand() = p.
IsOpOneMore(p) == LENGTH_LIMIT * p > RAND_LIMIT * (length_bias + 1)
IsOp(p) == LENGTH_LIMIT * p > RAND_LIMIT * length_bias
IsLoop(p) ==
  ~IsOp(p) /\ LENGTH_LIMIT * SPACE_LIMIT * p > RAND_LIMIT * length_bias * space_bias
IsSeq(p) == ~IsOp(p) /\ ~IsLoop(p)

\* The next space leaves the list, the new ones go to its end.
Fill(new) ==
  /\ space' = Tail(space) \o new
  /\ deepest' = IF Head(space) > deepest THEN Head(space) ELSE deepest

Draw(p) ==
  /\ spaces > 0
  /\ zeros' = IF p = 0 THEN zeros + 1 ELSE zeros
  /\ zeros' <= MaxZeros

FillOp(p) ==
  /\ Draw(p) /\ IsOp(p)
  /\ Fill(<<>>)
  /\ program_length' = program_length + 1
  /\ spaces' = spaces - 1

FillLoopCountedOnce(p) ==
  /\ Draw(p) /\ IsLoop(p)
  /\ Fill(<<Head(space) + 1>>)
  /\ program_length' = program_length + 1
  /\ UNCHANGED spaces

FillLoop(p) ==
  /\ Draw(p) /\ IsLoop(p)
  /\ Fill(<<Head(space) + 1>>)
  /\ program_length' = program_length + 2
  /\ UNCHANGED spaces

FillSeqOneChild(p) ==
  /\ Draw(p) /\ IsSeq(p)
  /\ Fill(<<Head(space)>>)
  /\ spaces' = spaces + 1
  /\ UNCHANGED program_length

FillSeq(p) ==
  /\ Draw(p) /\ IsSeq(p)
  /\ Fill(<<Head(space), Head(space)>>)
  /\ spaces' = spaces + 1
  /\ UNCHANGED program_length

GenStep == \E p \in 0 .. RAND_LIMIT : FillOp(p) \/ FillLoop(p) \/ FillSeq(p)

\* No space is left: the program can be written out.
Generated == spaces = 0

-----------------------------------------------------------------------------

\* The count of spaces is the length of the list of them, so the generator
\* neither follows the list past its last space nor leaves one unfilled, for
\* write_random_dma_program to find without a type.
SpacesCounted == spaces = Len(space)

\* "a maximum of around 23" (dma_test_generation.c): a program is at most
\* SPACE_LIMIT + 1 longer than LENGTH_LIMIT, except for one instruction for
\* each time myrand() was 0, which makes a space whatever the limits say.
ProgramFits ==
  Generated => program_length <= LENGTH_LIMIT + SPACE_LIMIT + 1 + zeros

\* Nothing counts nested loops; what keeps them few is that each takes two of
\* the program's instructions, and that none is begun in a program of
\* LENGTH_LIMIT.  With the code's limit of 12 that makes six, two more than
\* write_random_dma_program asserts (random_dma_program_structure).
LoopsBounded == 2 * deepest <= LENGTH_LIMIT + 1

=============================================================================
