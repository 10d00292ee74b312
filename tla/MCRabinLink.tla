----------------------------- MODULE MCRabinLink -----------------------------
(***************************************************************************)
(* Small instances of RabinLink.  d1 and d2 have the same number, 0, which *)
(* is also the number in the end-of-file descriptor; d2 is one byte long,  *)
(* so it is never read in two parts.                                       *)
(***************************************************************************)
EXTENDS RabinLink, TLC

CONSTANTS d1, d2, d3

MCData == {d1, d2, d3}
MCNumber == 0 .. 1
MCLength == 0 .. 2
MCHash == d1 :> 0 @@ d2 :> 0 @@ d3 :> 1
MCSize == d1 :> 2 @@ d2 :> 1 @@ d3 :> 2

\* Files of up to two chunks: none, repeated, colliding and distinct ones.
MCFiles == {<<>>, <<d1>>, <<d1, d1>>, <<d1, d2>>, <<d2, d1>>, <<d3, d1>>}

\* Files of at most one chunk, for runs in which much else can happen.
MCShortFiles == {<<>>, <<d1>>, <<d2>>, <<d3>>}

\* Files of up to three chunks, for runs with few calls.
MCLongFiles == {<<>>, <<d1, d2, d1>>, <<d3, d3, d2>>, <<d1, d3>>}
=============================================================================
