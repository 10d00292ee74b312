---------------------------- MODULE MCNormalProxy ----------------------------
(***************************************************************************)
(* A small instance of NormalProxy: two browsers, and a process table with *)
(* room for both children, for one, or for none.                           *)
(***************************************************************************)
EXTENDS NormalProxy

CONSTANTS b1, b2

MCBrowser == {b1, b2}
=============================================================================
