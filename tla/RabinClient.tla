----------------------------- MODULE RabinClient -----------------------------
(***************************************************************************)
(* RabinClient (Client/rabinclient.cc): receive_file, receive_block and    *)
(* the client's table of blocks.                                           *)
(*                                                                         *)
(* The read loops are modelled read by read: each read() returns any       *)
(* positive number of the bytes that are still missing, or fails, because  *)
(* nothing came for ten seconds or because the server has closed.  After a *)
(* read that failed inside a block the client goes on with whatever bytes  *)
(* come next: nothing on the wire says where a message begins.             *)
(***************************************************************************)
EXTENDS BlockWire

CONSTANT Junk    \* bytes in the place of a block that are no chunk

ASSUME JunkAssumption == Junk \notin Data /\ Junk # EOF /\ Junk # Absent

VARIABLES
  cache,    \* the client's table, block number -> content
  cpc,      \* where the client is: "idle" between calls of receive_file,
            \* reading a "header" or the "data" of a block, "dead" by an
            \* uncaught std::out_of_range, "closed" when the process has ended
  rd,       \* how many messages of stream were read to their end
  off,      \* how many bytes of the message after them were read
  got,      \* br or bytesRead: how many bytes of the header or of the data
            \* that is being read were read
  desc,     \* the descriptor whose data is being read
  file,     \* what the current receive_file has written to its file
  nblocks,  \* its num_blocks
  ret,      \* what the last receive_file returned, 0 before the first return
  recvd,    \* history: the items received on this connection
  astray    \* history: a read has failed inside a block of this connection

clientVars == <<cache, cpc, rd, off, got, desc, file, nblocks, ret, recvd, astray>>

ClientInit ==
  /\ cache = [n \in Number |-> Absent]
  /\ cpc = "idle"
  /\ rd = 0
  /\ off = 0
  /\ got = 0
  /\ desc = EofDesc(0)
  /\ file = <<>>
  /\ nblocks = 0
  /\ ret = 0
  /\ recvd = <<>>
  /\ astray = FALSE

\* A new RabinClient object that has connected.
ClientConnect ==
  /\ cache' = [n \in Number |-> Absent]
  /\ cpc' = "idle"
  /\ rd' = 0
  /\ off' = 0
  /\ got' = 0
  /\ desc' = EofDesc(0)
  /\ file' = <<>>
  /\ nblocks' = 0
  /\ ret' = 0
  /\ recvd' = <<>>
  /\ astray' = FALSE

\* receive_file is called.
StartReceive ==
  /\ cpc = "idle"
  /\ cpc' = "header"
  /\ file' = <<>>
  /\ nblocks' = 0
  /\ UNCHANGED <<cache, rd, off, got, desc, ret, recvd, astray, wireVars>>

\* receive_block returned block b: receive_file writes it and asks for the next.
Deliver(b) ==
  /\ file' = Append(file, b)
  /\ nblocks' = nblocks + 1
  /\ recvd' = Append(recvd, b)
  /\ cpc' = "header"
  /\ UNCHANGED ret

\* receive_block returned NULL: receive_file counts it and returns.
ReturnNull ==
  /\ nblocks' = nblocks + 1
  /\ ret' = nblocks + 1
  /\ cpc' = "idle"
  /\ UNCHANGED file

\* The next k bytes of the connection, which are all of one message.  (A read()
\* that returns bytes of two messages is two reads of this model.)
Take(k) ==
  /\ rd < Len(stream)
  /\ LET last == Bytes(stream[rd + 1]) IN
     /\ off + k <= last
     /\ rd' = IF off + k = last THEN rd + 1 ELSE rd
     /\ off' = IF off + k = last THEN 0 ELSE off + k
  /\ UNCHANGED <<astray, stream, sent>>

\* A read() that leaves some of the need bytes missing.
ReadPart(need) ==
  /\ \E k \in 1 .. need - got - 1 : Take(k) /\ got' = got + k
  /\ UNCHANGED <<cache, cpc, desc, file, nblocks, ret, recvd, sock>>

\* A wrong read loop: the last bytes are taken only once more have come.
ReadLastLate(need) ==
  /\ rd + 1 < Len(stream)
  /\ Take(need - got)
  /\ got' = 0

\* The read() that completes them.
ReadLast(need) ==
  /\ Take(need - got)
  /\ got' = 0

\* The need bytes that are complete with this read are one message of this kind.
Complete(kind, need) ==
  /\ stream[rd + 1].kind = kind
  /\ off = got
  /\ Bytes(stream[rd + 1]) = need

\* What block_num, data_size and old can be when the header is complete: those of
\* a descriptor, or whatever the bytes that are in its place say.
Headers ==
  IF Complete("desc", HdrSize) THEN {stream[rd + 1]}
  ELSE [kind : {"desc"}, num : Number, size : Length, old : BOOLEAN, seq : {0}]

\* The same of the data.
Contents ==
  IF Complete("data", desc.size) THEN {stream[rd + 1].data}
  ELSE {Junk} \cup {b \in Data : Size[b] = desc.size}

(***************************************************************************)
(* The header is complete.  An empty descriptor ends the file.  An old one *)
(* is answered from the table by get_block, if it is there.  Otherwise the *)
(* data follows.                                                           *)
(***************************************************************************)
HeaderRead ==
  /\ cpc = "header"
  /\ ReadLast(HdrSize)
  /\ UNCHANGED sock
  /\ \E d \in Headers :
     \/ /\ d.size = 0
        /\ ReturnNull
        /\ recvd' = Append(recvd, EOF)
        /\ UNCHANGED <<cache, desc>>
     \/ /\ d.size # 0 /\ d.old
        /\ cache[d.num] # Absent
        /\ Deliver(cache[d.num])
        /\ UNCHANGED <<cache, desc>>
     \/ /\ d.size # 0 /\ ~d.old
        /\ desc' = d
        /\ cpc' = "data"
        /\ UNCHANGED <<cache, file, nblocks, ret, recvd>>

\* The process has ended: its end of the connection is closed.
Hangup == sock' = IF sock = "open" THEN "gone" ELSE sock

\* An old descriptor of a number that is not in the table: get_block's
\* blocks.at throws std::out_of_range, which nothing catches.
CacheMiss ==
  /\ cpc = "header"
  /\ ReadLast(HdrSize)
  /\ \E d \in Headers : d.size # 0 /\ d.old /\ cache[d.num] = Absent
  /\ cpc' = "dead"
  /\ Hangup
  /\ UNCHANGED <<cache, desc, file, nblocks, ret, recvd>>

\* A wrong insert_block: a number that is in the table keeps its content
\* (blocks.insert in place of blocks[n] =).
DataReadKeepsFirst ==
  /\ cpc = "data"
  /\ ReadLast(desc.size)
  /\ UNCHANGED sock
  /\ \E b \in Contents :
       cache' = IF cache[desc.num] = Absent THEN [cache EXCEPT ![desc.num] = b]
                ELSE cache
  /\ Deliver(cache'[desc.num])
  /\ UNCHANGED desc

\* The data is complete: insert_block, then get_block of the same number.
DataRead ==
  /\ cpc = "data"
  /\ ReadLast(desc.size)
  /\ UNCHANGED sock
  /\ \E b \in Contents :
       /\ cache' = [cache EXCEPT ![desc.num] = b]
       /\ Deliver(b)
  /\ UNCHANGED desc

\* A wrong reaction to a failed read: the loop tries again.
ReadFailsRetries ==
  /\ cpc \in {"header", "data"}
  /\ UNCHANGED <<clientVars, wireVars>>

(***************************************************************************)
(* read() returned -1 (the ten-second timeout) or 0 (the server closed).   *)
(* receive_block returns NULL and forgets what it has read: br, bytesRead  *)
(* and the buffers are its locals.  The bytes stay read: inside a block    *)
(* the next receive_block takes what is left of it for a header.           *)
(***************************************************************************)
ReadFails ==
  /\ cpc \in {"header", "data"}
  /\ ReturnNull
  /\ got' = 0
  /\ astray' = (astray \/ got # 0 \/ cpc = "data")
  /\ UNCHANGED <<cache, rd, off, desc, recvd, wireVars>>

\* The client's process ends, by its own will or not.
ClientCloses ==
  /\ cpc \notin {"closed", "dead"}
  /\ cpc' = "closed"
  /\ Hangup
  /\ UNCHANGED <<cache, rd, off, got, desc, file, nblocks, ret, recvd, astray, stream, sent>>

ReadStep ==
  \/ cpc = "header" /\ ReadPart(HdrSize)
  \/ cpc = "data" /\ ReadPart(desc.size)
  \/ HeaderRead
  \/ CacheMiss
  \/ DataRead

ClientTypeOK ==
  /\ cache \in [Number -> Data \cup {Junk, Absent}]
  /\ cpc \in {"idle", "header", "data", "dead", "closed"}
  /\ rd \in 0 .. Len(stream)
  /\ off \in Nat
  /\ off # 0 => rd < Len(stream) /\ off < Bytes(stream[rd + 1])
  /\ got \in Nat
  /\ cpc = "idle" => got = 0
  /\ cpc = "header" => got < HdrSize
  /\ cpc = "data" => got < desc.size
  /\ desc \in Message
  /\ desc.kind = "desc"
  /\ file \in Seq(Data \cup {Junk})
  /\ nblocks \in Nat
  /\ ret \in Nat
  /\ recvd \in Seq(Item \cup {Junk})
  /\ astray \in BOOLEAN
=============================================================================
