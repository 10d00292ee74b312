------------------------------ MODULE BlockWire ------------------------------
(***************************************************************************)
(* The TCP connection between a RabinServer and a RabinClient, and the     *)
(* messages the server writes to it.                                       *)
(*                                                                         *)
(* A chunk of a file is a member of Data: only its identity, its size and  *)
(* the number hash_function gives it matter.  Two chunks may have the same *)
(* number.  A message is what one call of write() sends: a packed          *)
(* block_desc, or the bytes of a block.  TCP keeps the order and the       *)
(* bytes, so a connection is the sequence of everything written to it;     *)
(* how far the reader has come is the reader's state.                      *)
(***************************************************************************)
EXTENDS Naturals, Sequences

CONSTANTS
  Data,     \* the contents a chunk can have
  Number,   \* the values of block_num
  Length,   \* the values of data_size
  Hash,     \* hash_function, on whole chunks: their block numbers
  Size,     \* data_size of a chunk, in bytes
  HdrSize,  \* sizeof(block_desc)
  EOF,      \* the end-of-file marker, in the histories of items
  Absent    \* no chunk: the content of a number that is not in the table

ASSUME HashAssumption == /\ Number \subseteq Nat /\ 0 \in Number
                         /\ Hash \in [Data -> Number]
ASSUME SizeAssumption == /\ Length \subseteq Nat /\ 0 \in Length
                         /\ Size \in [Data -> Length \ {0}]
                         /\ HdrSize \in Nat \ {0}
ASSUME MarkAssumption == EOF \notin Data /\ Absent \notin Data

VARIABLES
  stream,   \* every message written to the current connection, in order
  sent,     \* history: the items (chunks and EOFs) those messages describe
  sock      \* the server's socket: "open", "gone" (the client has closed its
            \* end) or "reset" (and a write has already reported the error)

wireVars == <<stream, sent, sock>>

BlockNum == {Hash[b] : b \in Data}
Item == Data \cup {EOF}

(***************************************************************************)
(* Messages.  seq is not on the wire: it is the index in sent of the item  *)
(* the message belongs to.  The number and the size cross the wire through *)
(* htonl and ntohl, which are inverse to each other on 32-bit values; both *)
(* fields are below 2^32 (hash_function ends in a 32-bit remainder, and a  *)
(* chunk is at most max_bytes long).  data_size is 0 in the EOF marker     *)
(* only, and block_num is then 0, which may also be the number of a chunk. *)
(***************************************************************************)
BlockDesc(b, old, k) ==
  [kind |-> "desc", num |-> Hash[b], size |-> Size[b], old |-> old, seq |-> k]

EofDesc(k) == [kind |-> "desc", num |-> 0, size |-> 0, old |-> FALSE, seq |-> k]

BlockData(b, k) == [kind |-> "data", data |-> b, seq |-> k]

Message ==
  [kind : {"desc"}, num : Number, size : Length, old : BOOLEAN, seq : Nat]
    \cup [kind : {"data"}, data : Data, seq : Nat]

\* How many bytes of the connection a message takes.
Bytes(m) == IF m.kind = "desc" THEN HdrSize ELSE Size[m.data]

(***************************************************************************)
(* The outcomes of write(newsockfd, ...).  To a peer that has closed, the  *)
(* kernel first accepts bytes it then drops, reports one error when the    *)
(* reset arrives, and from then on raises SIGPIPE, which nothing in the    *)
(* server handles.                                                         *)
(***************************************************************************)
WriteOK(m) ==
  /\ sock \in {"open", "gone"}
  /\ stream' = IF sock = "open" THEN Append(stream, m) ELSE stream
  /\ UNCHANGED sock

WriteError ==
  /\ sock = "gone"
  /\ sock' = "reset"
  /\ UNCHANGED stream

WriteSignal ==
  /\ sock \in {"gone", "reset"}
  /\ UNCHANGED <<stream, sock>>

WireInit ==
  /\ stream = <<>>
  /\ sent = <<>>
  /\ sock = "open"

\* connect_to_client: accept() gives a connection nothing was written to.
WireConnect ==
  /\ stream' = <<>>
  /\ sent' = <<>>
  /\ sock' = "open"

WireTypeOK ==
  /\ stream \in Seq(Message)
  /\ sent \in Seq(Item)
  /\ sock \in {"open", "gone", "reset"}
=============================================================================
