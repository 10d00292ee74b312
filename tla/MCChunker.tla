------------------------------ MODULE MCChunker ------------------------------
(***************************************************************************)
(* Chunker with the window function of rabinserver.cc, on all files of up  *)
(* to MaxLength bytes.  The remainders are small: max_bytes is 4 or 5, so  *)
(* that a window in two is a boundary and full blocks are common too.      *)
(***************************************************************************)
EXTENDS Chunker, Djb2

CONSTANTS MaxLength    \* bound: the length of a file

MCByte == {-1, 0, 97}

MCInputs == UNION {[1 .. n -> MCByte] : n \in 0 .. MaxLength}

MCRabin(b0, b1, b2) == RabinFunc(b0, b1, b2)

ASSUME SameLimit == MaxBytes = max_bytes
=============================================================================
