---------------------------- MODULE FileTransfer ----------------------------
(***************************************************************************)
(* What the library promises of a connection: the client gets the chunks   *)
(* and the ends of file the server sent, each once, unchanged and in the   *)
(* order they were sent.  Tables, descriptors and reads do not show.       *)
(***************************************************************************)
EXTENDS Naturals, Sequences

CONSTANT Item    \* the chunks and the end-of-file marker

VARIABLES
  sent,     \* what the server has sent on the current connection
  recvd     \* what the client has received of it

TransferInit ==
  /\ sent = <<>>
  /\ recvd = <<>>

Send ==
  /\ \E i \in Item : sent' = Append(sent, i)
  /\ UNCHANGED recvd

Receive ==
  /\ Len(recvd) < Len(sent)
  /\ recvd' = Append(recvd, sent[Len(recvd) + 1])
  /\ UNCHANGED sent

\* A new connection owes nothing of the one before it.
Connect ==
  /\ sent' = <<>>
  /\ recvd' = <<>>

TransferNext == Send \/ Receive \/ Connect

TransferSpec == TransferInit /\ [][TransferNext]_<<sent, recvd>>
=============================================================================
