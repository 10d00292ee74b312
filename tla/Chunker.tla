------------------------------- MODULE Chunker -------------------------------
(***************************************************************************)
(* The loop of RabinServer::send_file that cuts a file into blocks.  What  *)
(* is done with a block, insert_block and write_block_to_client, is in     *)
(* RabinServer; here a block is its interval of offsets.                   *)
(***************************************************************************)
EXTENDS Integers, Sequences

CONSTANTS
  Byte,             \* the values of a char
  Inputs,           \* the files
  MaxBytes,         \* max_bytes
  UIntRange,        \* 2^32: i is an unsigned, s a size_t
  Rabin(_, _, _)    \* rabin_func, of three adjacent bytes

\* send_file's loop ends only for a file shorter than 2^32 bytes.
ASSUME ChunkerAssumption ==
  /\ UIntRange \in Nat /\ UIntRange > 2
  /\ Inputs \subseteq Seq(Byte)
  /\ \A f \in Inputs : Len(f) < UIntRange
  /\ MaxBytes \in Nat /\ MaxBytes >= 2

VARIABLES
  file,     \* the argument
  i,        \* the offset the loop has come to
  prev,     \* the offset where the next block starts
  blocks,   \* the blocks cut so far: <<first offset, offset after the last>>
  pc        \* "loop", then "done"

vars == <<file, i, prev, blocks, pc>>

\* A wrong start: the window reads before the buffer.
InitAtZero ==
  /\ file \in Inputs
  /\ i = 0
  /\ prev = 0
  /\ blocks = <<>>
  /\ pc = "loop"

Init ==
  /\ file \in Inputs
  /\ i = 2
  /\ prev = 0
  /\ blocks = <<>>
  /\ pc = "loop"

\* A wrong window: the function also looks at the position, its fourth parameter.
BoundaryByPosition(f, k) == (Rabin(f[k - 1], f[k], f[k + 1]) + k) % 2 = 0

\* The bytes at offsets k-2, k-1 and k of file f end a block before offset k.
Boundary(f, k) == Rabin(f[k - 1], f[k], f[k + 1]) = 0

\* A wrong limit: one byte more.
TooLargeLate == i - prev > MaxBytes

TooLarge == i - prev >= MaxBytes

InLoop == pc = "loop" /\ i < Len(file)

\* A wrong turn: a boundary is ignored when the block would be of one byte.
SkipShortBlock ==
  /\ InLoop
  /\ ~TooLarge
  /\ Boundary(file, i) => i - prev < 2
  /\ i' = (i + 1) % UIntRange
  /\ UNCHANGED <<file, prev, blocks, pc>>

\* A turn of the loop that cuts nothing.
Skip ==
  /\ InLoop
  /\ ~Boundary(file, i) /\ ~TooLarge
  /\ i' = (i + 1) % UIntRange
  /\ UNCHANGED <<file, prev, blocks, pc>>

\* A turn that ends a block before offset i.
Cut ==
  /\ InLoop
  /\ Boundary(file, i) \/ TooLarge
  /\ blocks' = Append(blocks, <<prev, i>>)
  /\ prev' = i
  /\ i' = (i + 1) % UIntRange
  /\ UNCHANGED <<file, pc>>

\* A wrong end: the remainder is taken for a block only if the loop ran.
FinishShort ==
  /\ pc = "loop" /\ i >= Len(file)
  /\ blocks' = IF prev # 0 /\ prev # Len(file)
               THEN Append(blocks, <<prev, Len(file)>>) ELSE blocks
  /\ pc' = "done"
  /\ UNCHANGED <<file, i, prev>>

\* After the loop: what remains is the last block.
Finish ==
  /\ pc = "loop" /\ i >= Len(file)
  /\ blocks' = IF prev # Len(file) THEN Append(blocks, <<prev, Len(file)>>) ELSE blocks
  /\ pc' = "done"
  /\ UNCHANGED <<file, i, prev>>

Next == Skip \/ Cut \/ Finish

Spec == Init /\ [][Next]_vars

-----------------------------------------------------------------------------
(***************************************************************************)
(* Properties.                                                             *)
(***************************************************************************)

\* The variables have their types, and i never wraps around.
TypeOK ==
  /\ file \in Inputs
  /\ i \in 2 .. UIntRange - 1
  /\ prev \in 0 .. Len(file)
  /\ blocks \in Seq(Nat \X Nat)
  /\ pc \in {"loop", "done"}

\* The blocks, put one after the other, are the file from its start up to
\* offset j: what receive_file writes is what send_file was given.
Tiles(bs, j) ==
  IF bs = <<>> THEN j = 0
  ELSE /\ bs[1][1] = 0
       /\ bs[Len(bs)][2] = j
       /\ \A k \in 1 .. Len(bs) - 1 : bs[k + 1][1] = bs[k][2]

Tiled == Tiles(blocks, IF pc = "done" THEN Len(file) ELSE prev)

\* No block is empty (an empty block would be taken for the end of the file,
\* rabinclient.cc:120) and none is longer than max_bytes, the last one included.
Bounded == \A k \in 1 .. Len(blocks) : blocks[k][2] - blocks[k][1] \in 1 .. MaxBytes

Ends == {blocks[k][2] : k \in 1 .. Len(blocks)}

\* Where the file is cut depends on its content: at every boundary the loop has
\* passed, and elsewhere only after a block of full size.
Scanned == IF pc = "done" THEN Len(file) ELSE i

ContentCut ==
  /\ \A k \in 2 .. Scanned - 1 : Boundary(file, k) => k \in Ends
  /\ \A k \in 1 .. Len(blocks) :
       \/ blocks[k][2] = Len(file)
       \/ blocks[k][2] - blocks[k][1] = MaxBytes
       \/ Boundary(file, blocks[k][2])

\* The inductive invariant: how far the loop is ahead of the open block.
Ahead ==
  pc = "loop" =>
    /\ prev < i /\ i - prev <= MaxBytes
    /\ i = 2 => prev = 0
    /\ i > 2 => i <= Len(file)

Inv == TypeOK /\ Tiled /\ Bounded /\ ContentCut /\ Ahead
=============================================================================
