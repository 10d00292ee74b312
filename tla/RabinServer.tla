----------------------------- MODULE RabinServer -----------------------------
(***************************************************************************)
(* RabinServer (Server/rabinserver.cc): the table of blocks, insert_block, *)
(* write_block_to_client and the part of send_file that follows the choice *)
(* of the cut points.  A file is the sequence of chunks Chunker cuts it    *)
(* into; no chunk is empty.                                                *)
(***************************************************************************)
EXTENDS BlockWire

CONSTANTS
  Files,      \* the files an application may pass to send_file
  MaxFiles    \* bound: how many calls of send_file are explored

ASSUME FilesAssumption == Files \subseteq Seq(Data) /\ MaxFiles \in Nat

VARIABLES
  blocks,   \* the server's table, block number -> block
  todo,     \* the chunks of the current file that are still to be written
  spc,      \* where the server is: "idle" between calls of send_file,
            \* "sending" between two blocks, "data" between the descriptor
            \* of a block and its bytes, "down" when the process has ended
  nfiles    \* how many files send_file was called with

serverVars == <<blocks, todo, spc, nfiles>>

NoBlock == [data |-> Absent, old |-> FALSE]

ServerInit ==
  /\ blocks = [n \in BlockNum |-> NoBlock]
  /\ todo = <<>>
  /\ spc = "idle"
  /\ nfiles = 0

(***************************************************************************)
(* Wrong variants of insert_block: what the invariants must tell apart     *)
(* from the one the program has.                                           *)
(***************************************************************************)

\* A new block is old from the start, as in the client's insert_block.
InsertBlockOld(b) ==
  IF blocks[Hash[b]].data = b
  THEN [blocks EXCEPT ![Hash[b]].old = TRUE]
  ELSE [blocks EXCEPT ![Hash[b]] = [data |-> b, old |-> TRUE]]

\* A colliding block takes the place of the content and keeps the flag.
InsertBlockKeepsFlag(b) ==
  IF blocks[Hash[b]].data = b
  THEN [blocks EXCEPT ![Hash[b]].old = TRUE]
  ELSE [blocks EXCEPT ![Hash[b]].data = b]

\* The contents are never found equal (pointers compared, not bytes).
InsertBlockAnew(b) == [blocks EXCEPT ![Hash[b]] = [data |-> b, old |-> FALSE]]

(***************************************************************************)
(* insert_block: the table after chunk b is looked up under its number.    *)
(* The same chunk is marked old, any other one is overwritten.             *)
(***************************************************************************)
InsertBlock(b) ==
  LET n == Hash[b] IN
  IF blocks[n].data = b
  THEN [blocks EXCEPT ![n].old = TRUE]
  ELSE [blocks EXCEPT ![n] = [data |-> b, old |-> FALSE]]

\* send_file is called with a file.
SendFile(f) ==
  /\ spc = "idle"
  /\ nfiles < MaxFiles
  /\ nfiles' = nfiles + 1
  /\ todo' = f
  /\ spc' = "sending"
  /\ UNCHANGED <<blocks, wireVars>>

ServerDies ==
  /\ spc' = "down"
  /\ todo' = <<>>

\* A wrong turn of the loop: prev moves on before the data is written.
SendBlockMovesOn ==
  /\ spc = "sending"
  /\ todo # <<>>
  /\ WriteOK(BlockDesc(Head(todo), FALSE, Len(sent) + 1))
  /\ sent' = IF sock = "open" THEN Append(sent, Head(todo)) ELSE sent
  /\ blocks' = InsertBlock(Head(todo))
  /\ todo' = Tail(todo)
  /\ spc' = "data"
  /\ UNCHANGED nfiles

(***************************************************************************)
(* One turn of the loop: insert_block, then write_block_to_client up to    *)
(* its first write.  If that write fails the function returns before the   *)
(* data and leaves old as it is; send_file ignores the result.             *)
(***************************************************************************)
SendBlock ==
  /\ spc = "sending"
  /\ todo # <<>>
  /\ LET b == Head(todo)
         old == InsertBlock(b)[Hash[b]].old
     IN /\ blocks' = InsertBlock(b)
        /\ \/ /\ WriteOK(BlockDesc(b, old, Len(sent) + 1))
              /\ sent' = IF sock = "open" THEN Append(sent, b) ELSE sent
              /\ todo' = IF old THEN Tail(todo) ELSE todo
              /\ spc' = IF old THEN "sending" ELSE "data"
           \/ /\ WriteError
              /\ todo' = Tail(todo)
              /\ UNCHANGED <<spc, sent>>
           \/ /\ WriteSignal
              /\ ServerDies
              /\ UNCHANGED sent
  /\ UNCHANGED nfiles

(***************************************************************************)
(* The second write of write_block_to_client.  old is set whatever the     *)
(* write returned.                                                         *)
(***************************************************************************)
SendData ==
  /\ spc = "data"
  /\ LET b == Head(todo) IN
     \/ /\ WriteOK(BlockData(b, Len(sent))) \/ WriteError
        /\ blocks' = [blocks EXCEPT ![Hash[b]].old = TRUE]
        /\ todo' = Tail(todo)
        /\ spc' = "sending"
     \/ /\ WriteSignal
        /\ ServerDies
        /\ UNCHANGED blocks
  /\ UNCHANGED <<nfiles, sent>>

\* The end of send_file: the empty descriptor that marks the end of a file.
SendEof ==
  /\ spc = "sending"
  /\ todo = <<>>
  /\ \/ /\ WriteOK(EofDesc(Len(sent) + 1))
        /\ sent' = IF sock = "open" THEN Append(sent, EOF) ELSE sent
        /\ spc' = "idle"
        /\ UNCHANGED todo
     \/ /\ WriteError
        /\ spc' = "idle"
        /\ UNCHANGED <<todo, sent>>
     \/ /\ WriteSignal
        /\ ServerDies
        /\ UNCHANGED sent
  /\ UNCHANGED <<blocks, nfiles>>

\* The server's process ends, by its own will or not; its socket is closed.
ServerStops ==
  /\ spc # "down"
  /\ ServerDies
  /\ UNCHANGED <<blocks, nfiles, wireVars>>

ServerStep == SendBlock \/ SendData \/ SendEof

ServerTypeOK ==
  /\ blocks \in [BlockNum -> [data : Data \cup {Absent}, old : BOOLEAN]]
  /\ todo \in Seq(Data)
  /\ spc \in {"idle", "sending", "data", "down"}
  /\ nfiles \in 0 .. MaxFiles
  /\ spc = "data" => todo # <<>>
=============================================================================
