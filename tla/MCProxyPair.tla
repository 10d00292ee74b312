----------------------------- MODULE MCProxyPair -----------------------------
(***************************************************************************)
(* Small instances of ProxyPair.  With three requests one exchange can go  *)
(* wrong, the next get what it left, and the third show whether the pair   *)
(* has recovered.                                                          *)
(***************************************************************************)
EXTENDS ProxyPair

CONSTANTS r1, r2, r3

MCRequest == {r1, r2, r3}
=============================================================================
