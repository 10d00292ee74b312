------------------------------- MODULE Resync -------------------------------
(***************************************************************************)
(* Why blocks are cut by content: two versions of a file that end in the   *)
(* same bytes (an insertion, a deletion or a change before them) are cut   *)
(* into the same blocks from the first boundary in those bytes on, so only *)
(* the blocks before it must be sent again.                                *)
(*                                                                         *)
(* Two runs of Chunker, on p \o s and on q \o s.  They do not interact; to *)
(* compare them, the one that has come less far into s moves, and when     *)
(* they are level both do.                                                 *)
(***************************************************************************)
EXTENDS Integers, Sequences

CONSTANTS
  Byte, MaxBytes, UIntRange, Rabin(_, _, _),    \* as in Chunker
  Heads,    \* how the two versions can begin
  Tails     \* how both can end

ASSUME ResyncAssumption ==
  /\ Heads \subseteq Seq(Byte) /\ Tails \subseteq Seq(Byte)
  /\ \A p \in Heads, s \in Tails : Len(p) + Len(s) < UIntRange
  /\ UIntRange \in Nat /\ UIntRange > 2
  /\ MaxBytes \in Nat /\ MaxBytes >= 2

VARIABLES
  p, q, s,                      \* the files are p \o s and q \o s
  iA, prevA, blocksA, pcA,      \* the run on p \o s
  iB, prevB, blocksB, pcB       \* the run on q \o s

varsA == <<iA, prevA, blocksA, pcA>>
varsB == <<iB, prevB, blocksB, pcB>>
vars == <<p, q, s, varsA, varsB>>

Inputs == {h \o t : h \in Heads, t \in Tails}

A == INSTANCE Chunker WITH file <- p \o s, i <- iA, prev <- prevA, blocks <- blocksA, pc <- pcA
B == INSTANCE Chunker WITH file <- q \o s, i <- iB, prev <- prevB, blocks <- blocksB, pc <- pcB

Init ==
  /\ p \in Heads /\ q \in Heads /\ s \in Tails
  /\ A!Init /\ B!Init

\* How far the two runs have come in s; negative while in p or q.
PosA == iA - Len(p)
PosB == iB - Len(q)

StepA ==
  /\ PosA < PosB \/ pcB = "done"
  /\ UNCHANGED <<p, q, s, varsB>>
  /\ A!Next

StepB ==
  /\ PosB < PosA \/ pcA = "done"
  /\ UNCHANGED <<p, q, s, varsA>>
  /\ B!Next

StepBoth ==
  /\ PosA = PosB
  /\ UNCHANGED <<p, q, s>>
  /\ A!Next /\ B!Next

Next == StepA \/ StepB \/ StepBoth

Spec == Init /\ [][Next]_vars

-----------------------------------------------------------------------------
\* The blocks of a run, as intervals of s, that start at or after offset k of
\* s, in a file where s starts at offset n.
Since(k, blocks, n) ==
  {<<b[1] - n, b[2] - n>> : b \in {blocks[j] : j \in {l \in 1 .. Len(blocks) : blocks[l][1] >= n + k}}}

\* From a boundary of s on, both versions are cut into the same blocks, and the
\* next block starts at the same byte: an edit costs what comes before the next
\* boundary, and never shifts the blocks of the rest of the file.
Resynced ==
  PosA = PosB =>
    \A k \in 2 .. PosA - 1 :
      (k < Len(s) /\ A!Boundary(s, k))
        => /\ prevA - Len(p) = prevB - Len(q)
           /\ Since(k, blocksA, Len(p)) = Since(k, blocksB, Len(q))

\* The inductive invariant.  The two runs are level from the start of s on, if
\* ever; and a boundary brings their open blocks to the same start.
Started(bs, i, prev, pc) ==
  /\ bs \in Seq(Nat \X Nat)
  /\ i \in Nat /\ i >= 2
  /\ prev \in Nat
  /\ pc \in {"loop", "done"}
  /\ pc = "loop" => prev < i
  /\ \A l \in 1 .. Len(bs) : bs[l][1] < i

Level ==
  /\ pcA = "done" => PosA >= Len(s)
  /\ pcB = "done" => PosB >= Len(s)
  /\ PosA = PosB => pcA = pcB
  /\ PosA < PosB => (pcB = "done" => pcA = "done")
  /\ PosB < PosA => (pcA = "done" => pcB = "done")
  /\ PosA # PosB => PosA <= 2 /\ PosB <= 2

Inv ==
  /\ p \in Heads /\ q \in Heads /\ s \in Tails
  /\ Started(blocksA, iA, prevA, pcA)
  /\ Started(blocksB, iB, prevB, pcB)
  /\ Level
  /\ Resynced
=============================================================================
