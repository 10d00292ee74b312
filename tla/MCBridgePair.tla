---------------------------- MODULE MCBridgePair ----------------------------
(***************************************************************************)
(* Small instances of BridgePair: two browsers are enough for bridges that *)
(* overlap and for bridges that follow each other.  Browsers are alike, so *)
(* the safety runs identify states that differ by an exchange of them.     *)
(***************************************************************************)
EXTENDS BridgePair, TLC

CONSTANTS b1, b2

MCBrowser == {b1, b2}

MCSymmetry == Permutations(MCBrowser)
=============================================================================
