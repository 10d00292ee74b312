----------------------------- MODULE MCFileLink -----------------------------
(* RabinLink's small instance, seen in whole files. *)
EXTENDS MCRabinLink, FileLink
=============================================================================
