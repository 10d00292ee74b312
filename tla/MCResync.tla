------------------------------ MODULE MCResync ------------------------------
(***************************************************************************)
(* Resync with the window function of rabinserver.cc, on all pairs of      *)
(* beginnings of up to two bytes and all common ends of up to MaxLength.   *)
(***************************************************************************)
EXTENDS Resync, Djb2

CONSTANTS MaxLength    \* bound: the length of the common end

MCByte == {-1, 0, 97}

Words(max) == UNION {[1 .. n -> MCByte] : n \in 0 .. max}

MCHeads == Words(2)
MCTails == Words(MaxLength)

MCRabin(b0, b1, b2) == RabinFunc(b0, b1, b2)
=============================================================================
