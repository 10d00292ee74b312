------------------------------ MODULE FileLink ------------------------------
(***************************************************************************)
(* The link as its callers see it, in whole files: send_file is called     *)
(* with one, receive_file leaves one in its file, and blocks, descriptors  *)
(* and reads are between the two.  On a network that is not slow this is   *)
(* again what FileTransfer promises, now of files; the proxies rely on it. *)
(***************************************************************************)
EXTENDS RabinLink

VARIABLES
  outbox,   \* history: the files send_file was called with on this connection
  inbox     \* history: the files receive_file wrote up to their end

fileVars == <<outbox, inbox>>

FileInit ==
  /\ Init
  /\ outbox = <<>>
  /\ inbox = <<>>

\* An application calls send_file with f.
FileSends ==
  /\ \E f \in Files : SendFile(f) /\ outbox' = Append(outbox, f)
  /\ UNCHANGED <<clientVars, conns, inbox>>

\* A read; if it was of an empty descriptor, receive_file has the whole file.
FileReads ==
  /\ ClientReads
  /\ inbox' = IF recvd' = Append(recvd, EOF) THEN Append(inbox, file) ELSE inbox
  /\ UNCHANGED outbox

\* Nothing is owed to the client of the connection before.
FileReconnect ==
  /\ Reconnect
  /\ outbox' = <<>>
  /\ inbox' = <<>>

FileStays ==
  /\ ServerWrites \/ ServerEnds \/ ClientStarts \/ ReadGivesUp \/ ClientLeaves
  /\ UNCHANGED fileVars

FileNext == FileSends \/ FileReads \/ FileReconnect \/ FileStays

FileSpec == FileInit /\ [][FileNext]_<<vars, fileVars>>

-----------------------------------------------------------------------------
Whole == INSTANCE FileTransfer WITH Item <- Files, sent <- outbox, recvd <- inbox

\* On a network that is not slow, send_file and receive_file are one step each to
\* their callers: however blocks are split, cached or overwritten and whatever
\* times out between two files, a file that is received up to its end is the
\* next one that was sent, and all of it.
FilesCross == Whole!TransferSpec

\* f is the beginning of the file that is to be received next.
Beginning(f) ==
  \/ f = <<>>
  \/ /\ Len(inbox) < Len(outbox)
     /\ Len(f) <= Len(outbox[Len(inbox) + 1])
     /\ \A i \in 1 .. Len(f) : f[i] = outbox[Len(inbox) + 1][i]

\* On such a network receive_file returns with a part of a file only if the server
\* has ended, and the part is then the beginning of the next file.  Otherwise it
\* has written the whole of one, or nothing (a timeout between two files), and by
\* its result the caller cannot tell an empty file from nothing.
FilesWhole ==
  ~SlowNetwork =>
    /\ cpc \in {"header", "data"} => Beginning(file)
    /\ cpc = "idle" => \/ file = <<>>
                       \/ inbox # <<>> /\ file = inbox[Len(inbox)]
                       \/ spc = "down" /\ Beginning(file)
    /\ (cpc = "idle" /\ ret # 0) => ret = Len(file) + 1
=============================================================================
