---------------------------- MODULE ChunkerProofs ----------------------------
(***************************************************************************)
(* Proofs about Chunker, for every window function, every limit from two   *)
(* bytes on and every file that is shorter than the range of i.            *)
(***************************************************************************)
EXTENDS Chunker, SequenceTheorems, TLAPS

\* The blocks after one more, that starts where the last one ends.
LEMMA OneMore ==
  ASSUME NEW bs \in Seq(Nat \X Nat), NEW j \in Nat, NEW k \in Nat, Tiles(bs, j)
  PROVE  /\ Append(bs, <<j, k>>) \in Seq(Nat \X Nat)
         /\ Tiles(Append(bs, <<j, k>>), k)
         /\ Len(Append(bs, <<j, k>>)) = Len(bs) + 1 /\ Len(bs) \in Nat
         /\ \A l \in 1 .. Len(bs) : Append(bs, <<j, k>>)[l] = bs[l]
         /\ Append(bs, <<j, k>>)[Len(bs) + 1] = <<j, k>>
<1> DEFINE t == Append(bs, <<j, k>>)
<1>1. /\ t \in Seq(Nat \X Nat)
      /\ Len(t) = Len(bs) + 1 /\ Len(bs) \in Nat
      /\ \A l \in 1 .. Len(bs) : t[l] = bs[l]
      /\ t[Len(bs) + 1] = <<j, k>>
  OBVIOUS
<1> HIDE DEF t
<1>2. t # <<>> /\ t[Len(t)][2] = k
  BY <1>1
<1>3. CASE bs = <<>>
  <2>1. Len(bs) = 0 /\ j = 0
    BY <1>3 DEF Tiles
  <2>2. Tiles(t, k)
    BY <1>1, <1>2, <2>1 DEF Tiles
  <2>3. QED
    BY <1>1, <2>2 DEF t
<1>4. CASE bs # <<>>
  <2>1. Len(bs) > 0 /\ t[1] = bs[1] /\ t[1][1] = 0
    BY <1>1, <1>4 DEF Tiles
  <2>2. ASSUME NEW l \in 1 .. Len(t) - 1
        PROVE  t[l + 1][1] = t[l][2]
    <3>1. CASE l = Len(bs)
      BY <1>1, <1>4, <2>1, <3>1 DEF Tiles
    <3>2. CASE l < Len(bs)
      <4>1. l \in 1 .. Len(bs) /\ l + 1 \in 1 .. Len(bs)
        BY <1>1, <3>2
      <4>2. t[l] = bs[l] /\ t[l + 1] = bs[l + 1]
        BY <1>1, <4>1
      <4>3. QED
        BY <1>1, <1>4, <3>2, <4>2 DEF Tiles
    <3>3. QED
      BY <1>1, <3>1, <3>2
  <2>3. Tiles(t, k)
    BY <1>2, <2>1, <2>2 DEF Tiles
  <2>4. QED
    BY <1>1, <2>3 DEF t
<1>5. QED
  BY <1>3, <1>4

LEMMA FileLength ==
  ASSUME TypeOK
  PROVE  Len(file) \in Nat /\ Len(file) < UIntRange /\ file \in Seq(Byte)
BY ChunkerAssumption DEF TypeOK

LEMMA InitInv == Init => Inv
<1> SUFFICES ASSUME Init PROVE Inv
  OBVIOUS
<1> USE DEF Init
<1>1. TypeOK
  BY ChunkerAssumption DEF TypeOK
<1>2. Tiled /\ Bounded
  BY DEF Tiled, Tiles, Bounded
<1>3. ContentCut
  BY DEF ContentCut, Scanned
<1>4. Ahead
  BY ChunkerAssumption DEF Ahead
<1>5. QED
  BY <1>1, <1>2, <1>3, <1>4 DEF Inv

\* i does not wrap around inside the file.
LEMMA Advance ==
  ASSUME Inv, InLoop
  PROVE  (i + 1) % UIntRange = i + 1 /\ i + 1 \in 2 .. UIntRange - 1
<1>1. i \in Nat /\ i >= 2 /\ i + 1 < UIntRange /\ UIntRange \in Nat \ {0}
  BY FileLength, ChunkerAssumption DEF Inv, TypeOK, InLoop
<1>2. \A x \in Nat : \A n \in Nat \ {0} : x < n => x % n = x
  OBVIOUS
<1>3. QED
  BY <1>1, <1>2

LEMMA SkipInv ==
  ASSUME Inv, Skip
  PROVE  Inv'
<1>1. /\ InLoop /\ i' = i + 1 /\ i' \in 2 .. UIntRange - 1
      /\ UNCHANGED <<file, prev, blocks, pc>> /\ TypeOK
      /\ Len(file) \in Nat /\ i \in Nat /\ prev \in Nat
  BY Advance, FileLength DEF Skip, Inv, TypeOK
<1>2. TypeOK' /\ Tiled' /\ Bounded'
  BY <1>1 DEF Inv, TypeOK, Tiled, Bounded
<1>3. ContentCut'
  <2>1. pc = "loop" /\ ~Boundary(file, i)
    BY DEF Skip, InLoop
  <2>2. ASSUME NEW k \in 2 .. i' - 1, Boundary(file, k)
        PROVE  k \in Ends
    <3>1. k # i
      BY <2>1, <2>2
    <3>2. k \in 2 .. i - 1
      BY <1>1, <3>1
    <3>3. QED
      BY <2>1, <2>2, <3>2 DEF Inv, ContentCut, Scanned
  <2>3. QED
    BY <1>1, <2>1, <2>2 DEF Inv, ContentCut, Scanned, Boundary, Ends
<1>4. Ahead'
  BY <1>1, ChunkerAssumption DEF Inv, Ahead, Skip, TooLarge, InLoop
<1>5. QED
  BY <1>2, <1>3, <1>4 DEF Inv

\* What the properties of the blocks become when one more is cut.
LEMMA BlockAdded ==
  ASSUME Inv, UNCHANGED file, NEW k \in Nat,
         blocks' = Append(blocks, <<prev, k>>), pc = "loop",
         k - prev \in 1 .. MaxBytes,
         k = Len(file) \/ k - prev = MaxBytes \/ Boundary(file, k)
  PROVE  /\ blocks' \in Seq(Nat \X Nat)
         /\ Tiles(blocks', k)
         /\ Bounded'
         /\ Ends' = Ends \cup {k}
         /\ \A l \in 1 .. Len(blocks') :
              \/ blocks'[l][2] = Len(file)
              \/ blocks'[l][2] - blocks'[l][1] = MaxBytes
              \/ Boundary(file, blocks'[l][2])
<1>1. blocks \in Seq(Nat \X Nat) /\ prev \in Nat /\ Tiles(blocks, prev)
  BY FileLength DEF Inv, TypeOK, Tiled
<1>2. /\ blocks' \in Seq(Nat \X Nat) /\ Tiles(blocks', k)
      /\ Len(blocks') = Len(blocks) + 1 /\ Len(blocks) \in Nat
      /\ \A l \in 1 .. Len(blocks) : blocks'[l] = blocks[l]
      /\ blocks'[Len(blocks) + 1] = <<prev, k>>
  BY <1>1, OneMore
<1>3. \A l \in 1 .. Len(blocks') : l \in 1 .. Len(blocks) \/ l = Len(blocks) + 1
  BY <1>2
<1>4. Bounded'
  BY <1>2, <1>3 DEF Inv, Bounded
<1>5. Ends' = Ends \cup {k}
  <2>1. Len(blocks) + 1 \in 1 .. Len(blocks') /\ \A l \in 1 .. Len(blocks) : l \in 1 .. Len(blocks')
    BY <1>2
  <2>2. ASSUME NEW e \in Ends' PROVE e \in Ends \cup {k}
    <3>1. PICK l \in 1 .. Len(blocks') : e = blocks'[l][2]
      BY <2>2 DEF Ends
    <3>2. CASE l \in 1 .. Len(blocks)
      BY <1>2, <3>1, <3>2 DEF Ends
    <3>3. CASE l = Len(blocks) + 1
      BY <1>2, <3>1, <3>3
    <3>4. QED
      BY <1>3, <3>1, <3>2, <3>3
  <2>3. ASSUME NEW e \in Ends PROVE e \in Ends'
    <3>1. PICK l \in 1 .. Len(blocks) : e = blocks[l][2]
      BY <2>3 DEF Ends
    <3>2. e = blocks'[l][2] /\ l \in 1 .. Len(blocks')
      BY <1>2, <2>1, <3>1
    <3>3. QED
      BY <3>2 DEF Ends
  <2>4. k \in Ends'
    <3>1. blocks'[Len(blocks) + 1][2] = k
      BY <1>2
    <3>2. QED
      BY <2>1, <3>1 DEF Ends
  <2>5. QED
    BY <2>2, <2>3, <2>4
<1>6. \A l \in 1 .. Len(blocks') :
        \/ blocks'[l][2] = Len(file)
        \/ blocks'[l][2] - blocks'[l][1] = MaxBytes
        \/ Boundary(file, blocks'[l][2])
  BY <1>2, <1>3 DEF Inv, ContentCut
<1>7. QED
  BY <1>2, <1>4, <1>5, <1>6

LEMMA CutInv ==
  ASSUME Inv, Cut
  PROVE  Inv'
<1>1. /\ pc = "loop" /\ i < Len(file) /\ i' = i + 1 /\ i' \in 2 .. UIntRange - 1
      /\ prev' = i /\ blocks' = Append(blocks, <<prev, i>>)
      /\ UNCHANGED <<file, pc>> /\ TypeOK
      /\ Len(file) \in Nat /\ i \in Nat /\ i >= 2 /\ prev \in Nat
      /\ MaxBytes \in Nat /\ MaxBytes >= 2
  BY Advance, FileLength, ChunkerAssumption DEF Cut, InLoop, Inv, TypeOK
<1>2. i - prev \in 1 .. MaxBytes
  BY <1>1 DEF Inv, Ahead
<1>3. i - prev = MaxBytes \/ Boundary(file, i)
  BY <1>1, <1>2 DEF Cut, TooLarge
<1>4. /\ blocks' \in Seq(Nat \X Nat) /\ Tiles(blocks', i) /\ Bounded'
      /\ Ends' = Ends \cup {i}
      /\ \A l \in 1 .. Len(blocks') :
           \/ blocks'[l][2] = Len(file)
           \/ blocks'[l][2] - blocks'[l][1] = MaxBytes
           \/ Boundary(file, blocks'[l][2])
  BY <1>1, <1>2, <1>3, BlockAdded
<1>5. TypeOK'
  BY <1>1, <1>4 DEF TypeOK
<1>6. Tiled'
  BY <1>1, <1>4 DEF Tiled
<1>7. ContentCut'
  <2>1. ASSUME NEW k \in 2 .. i' - 1, Boundary(file, k)
        PROVE  k \in Ends'
    <3>1. k = i \/ k \in 2 .. i - 1
      BY <1>1
    <3>2. QED
      BY <1>1, <1>4, <2>1, <3>1 DEF Inv, ContentCut, Scanned
  <2>2. QED
    BY <1>1, <1>4, <2>1 DEF ContentCut, Scanned, Boundary
<1>8. Ahead'
  BY <1>1 DEF Ahead
<1>9. QED
  BY <1>4, <1>5, <1>6, <1>7, <1>8 DEF Inv

LEMMA FinishInv ==
  ASSUME Inv, Finish
  PROVE  Inv'
<1>1. /\ pc = "loop" /\ pc' = "done" /\ i >= Len(file)
      /\ UNCHANGED <<file, i, prev>> /\ TypeOK
      /\ Len(file) \in Nat /\ i \in Nat /\ i >= 2 /\ prev \in 0 .. Len(file)
      /\ MaxBytes \in Nat /\ MaxBytes >= 2
  BY FileLength, ChunkerAssumption DEF Finish, Inv, TypeOK
<1>2. Ahead'
  BY <1>1 DEF Ahead
<1>3. \A k \in 2 .. Len(file) - 1 : k \in 2 .. i - 1
  BY <1>1
<1>4. CASE prev = Len(file) /\ blocks' = blocks
  <2>1. TypeOK' /\ Tiled' /\ Bounded'
    BY <1>1, <1>4 DEF Inv, TypeOK, Tiled, Bounded
  <2>2. ContentCut'
    BY <1>1, <1>3, <1>4 DEF Inv, ContentCut, Scanned, Boundary, Ends
  <2>3. QED
    BY <1>2, <2>1, <2>2 DEF Inv
<1>5. CASE prev # Len(file) /\ blocks' = Append(blocks, <<prev, Len(file)>>)
  <2>1. Len(file) - prev \in 1 .. MaxBytes
    BY <1>1, <1>5 DEF Inv, Ahead
  <2>2. /\ blocks' \in Seq(Nat \X Nat) /\ Tiles(blocks', Len(file)) /\ Bounded'
        /\ Ends' = Ends \cup {Len(file)}
        /\ \A l \in 1 .. Len(blocks') :
             \/ blocks'[l][2] = Len(file)
             \/ blocks'[l][2] - blocks'[l][1] = MaxBytes
             \/ Boundary(file, blocks'[l][2])
    BY <1>1, <1>5, <2>1, BlockAdded
  <2>3. TypeOK' /\ Tiled'
    BY <1>1, <2>2 DEF TypeOK, Tiled
  <2>4. ContentCut'
    BY <1>1, <1>3, <2>2 DEF Inv, ContentCut, Scanned, Boundary
  <2>5. QED
    BY <1>2, <2>2, <2>3, <2>4 DEF Inv
<1>6. QED
  BY <1>4, <1>5 DEF Finish

LEMMA NextInv ==
  ASSUME Inv, [Next]_vars
  PROVE  Inv'
<1>1. CASE UNCHANGED vars
  BY <1>1 DEF vars, Inv, TypeOK, Tiled, Bounded, ContentCut, Scanned, Ends, Boundary, Ahead
<1>2. QED
  BY <1>1, SkipInv, CutInv, FinishInv DEF Next

THEOREM ChunkerInvariance == Spec => []Inv
<1>1. Inv /\ [Next]_vars => Inv'
  BY NextInv
<1>2. QED
  BY <1>1, InitInv, PTL DEF Spec

\* i stays inside its range for every file shorter than that, and the variables
\* have their types.
THEOREM TypeCorrect == Spec => []TypeOK
<1>1. Inv => TypeOK
  BY DEF Inv
<1>2. QED
  BY <1>1, ChunkerInvariance, PTL

\* The blocks are the file: nothing is lost, repeated or out of place.
THEOREM FileTiled == Spec => []Tiled
<1>1. Inv => Tiled
  BY DEF Inv
<1>2. QED
  BY <1>1, ChunkerInvariance, PTL

\* Every block has between one and max_bytes bytes.
THEOREM BlocksBounded == Spec => []Bounded
<1>1. Inv => Bounded
  BY DEF Inv
<1>2. QED
  BY <1>1, ChunkerInvariance, PTL

\* The file is cut at its boundaries, and elsewhere only by the limit.
THEOREM CutByContent == Spec => []ContentCut
<1>1. Inv => ContentCut
  BY DEF Inv
<1>2. QED
  BY <1>1, ChunkerInvariance, PTL
=============================================================================
