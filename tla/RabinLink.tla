------------------------------ MODULE RabinLink ------------------------------
(***************************************************************************)
(* A RabinServer and the RabinClient that is connected to it.              *)
(*                                                                         *)
(* The server object, with its table, outlives connections: after a client *)
(* has left, disconnect_from_client and connect_to_client accept the next  *)
(* one, a new RabinClient object whose table is empty.                     *)
(***************************************************************************)
EXTENDS RabinServer, RabinClient

CONSTANTS
  SlowNetwork,  \* whether bytes that were written can take ten seconds and more
  MaxConns      \* bound: how many clients the server accepts

ASSUME LinkAssumption == SlowNetwork \in BOOLEAN /\ MaxConns \in Nat \ {0}

VARIABLE conns    \* how many clients the server has accepted

vars == <<wireVars, serverVars, clientVars, conns>>

Init ==
  /\ WireInit
  /\ ServerInit
  /\ ClientInit
  /\ conns = 1

\* A wrong time limit, shorter than the pauses of a running send_file.
NothingComesYet == rd = Len(stream)

(***************************************************************************)
(* When a read() may fail.  It returns 0 at the end of a connection the    *)
(* server has closed, and -1 after ten seconds: on a network that is not   *)
(* slow only while the server is idle, for a running send_file writes its  *)
(* next message at once.                                                   *)
(***************************************************************************)
NothingComes == rd = Len(stream) /\ spc \in {"idle", "down"}

ReadGivesUp ==
  /\ NothingComes \/ SlowNetwork
  /\ ReadFails
  /\ UNCHANGED <<serverVars, conns>>

ClientReads == ReadStep /\ UNCHANGED <<serverVars, conns>>

ClientStarts == StartReceive /\ UNCHANGED <<serverVars, conns>>

ClientLeaves == ClientCloses /\ UNCHANGED <<serverVars, conns>>

ServerSends ==
  /\ \E f \in Files : SendFile(f)
  /\ UNCHANGED <<clientVars, conns>>

ServerWrites == ServerStep /\ UNCHANGED <<clientVars, conns>>

ServerEnds == ServerStops /\ UNCHANGED <<clientVars, conns>>

\* disconnect_from_client and connect_to_client, between two calls of send_file.
Reconnect ==
  /\ spc = "idle"
  /\ conns < MaxConns
  /\ conns' = conns + 1
  /\ WireConnect
  /\ ClientConnect
  /\ UNCHANGED serverVars

Next ==
  \/ ServerSends
  \/ ServerWrites
  \/ ServerEnds
  \/ ClientStarts
  \/ ClientReads
  \/ ReadGivesUp
  \/ ClientLeaves
  \/ Reconnect

Spec == Init /\ [][Next]_vars

(***************************************************************************)
(* Fairness.  The client is one thread: inside receive_file it is in a     *)
(* read() that returns, with bytes if there are some and with an error     *)
(* after ten seconds if not.  The server is one thread too, and send_file, *)
(* once called, never waits but in write().  Nothing makes an application  *)
(* call send_file, or receive_file again.                                  *)
(***************************************************************************)
FairSpec == Spec /\ WF_vars(ClientReads \/ ReadGivesUp) /\ WF_vars(ServerWrites)

-----------------------------------------------------------------------------
(***************************************************************************)
(* Properties.                                                             *)
(***************************************************************************)

\* Every variable has its type (all of the server, the client and the wire).
TypeOK ==
  /\ WireTypeOK
  /\ ServerTypeOK
  /\ ClientTypeOK
  /\ conns \in 1 .. MaxConns

Transfer == INSTANCE FileTransfer

\* On a network that is not slow, whatever is cached, overwritten or lost with a
\* process, and whenever receive_file gives up between two files, the blocks it
\* writes and the ends of file it sees are those the server sent, in order and
\* with nothing left out.
Implements == Transfer!TransferSpec

\* The same on any network, for every step up to the first read that fails inside
\* a block: from then on receive_block takes the middle of messages for headers
\* (rabinclient.cc:107-118), and what it writes need not be what was sent.
ImplementsOnCourse ==
  Transfer!TransferInit /\ [][astray' \/ Transfer!TransferNext]_<<sent, recvd>>

\* To the server's first client, as long as no read of it failed inside a block,
\* "old" is never said of a block that client does not have: its get_block does
\* not throw (rabinclient.cc:201).
NeverMisses == (conns = 1 /\ ~astray) => cpc # "dead"

\* Once all that was written is read, as long as the connection stands and no read
\* failed inside a block, the two tables agree: the client has no content but the
\* one the server would call old, and the first client has all of them.
CachesConverge ==
  (~astray /\ rd = Len(stream) /\ sock = "open" /\ spc \in {"idle", "sending"})
    => \A n \in BlockNum :
          \/ cache[n] = blocks[n].data
          \/ conns > 1 /\ cache[n] = Absent

\* Among the first j messages of s, wherever the bytes of b are sent, those of
\* another block with the same number are sent later.
Superseded(s, b, j) ==
  \A i \in 1 .. j :
    (s[i].kind = "data" /\ s[i].data = b)
      => \E k \in i + 1 .. j : /\ s[k].kind = "data"
                              /\ s[k].data # b
                              /\ Hash[s[k].data] = Hash[b]

\* The point of the protocol: the bytes of a block cross a connection a second
\* time only if another block with the same number took its place in between.
SentOnce ==
  \A j \in 1 .. Len(stream) :
    stream[j].kind = "data" => Superseded(stream, stream[j].data, j - 1)

\* f is what the items h end in after their last end of file.
Tails(f, h) ==
  \E k \in 0 .. Len(h) :
    /\ k # 0 => h[k] = EOF
    /\ f = SubSeq(h, k + 1, Len(h))

\* On a network that is not slow, what a running receive_file has written is
\* what was received since the last end of file: it never starts a file in
\* the middle, however its reads are split and whatever timed out before.
Reassembly ==
  (~SlowNetwork /\ spc # "down" /\ cpc \in {"header", "data"}) => Tails(file, recvd)

\* Nothing in the protocol tells a client where a message begins; the ten seconds of
\* the timeout do: on a network that is not slow a read fails inside a block only
\* when the server has ended and nothing is left that could be misread.
StaysOnCourse ==
  (~SlowNetwork /\ astray) => (spc = "down" /\ rd = Len(stream))

\* Every receive_file returns, even if send_file is never called again: the
\* timeout set in the constructor (rabinclient.cc:26-33) bounds every read.
ReceiveReturns ==
  (cpc \in {"header", "data"}) ~> (cpc \notin {"header", "data"})

\* A client that keeps calling receive_file has in the end every item the server
\* sent, unless one of the two processes ends first.  (MaxFiles bounds what is
\* sent, so there is an end.)
Delivered ==
  WF_vars(ClientStarts) =>
    <>[](recvd = sent \/ spc = "down" \/ cpc \in {"closed", "dead"})

-----------------------------------------------------------------------------
(***************************************************************************)
(* What the documentation says and the code does not do.                   *)
(***************************************************************************)

\* rabinclient.h:61: for an old descriptor receive_block "just fishes the block
\* from the local cache", whichever client of the server it is.
OldIsCached == cpc # "dead"

-----------------------------------------------------------------------------
(***************************************************************************)
(* The inductive invariant.                                                *)
(***************************************************************************)

IsBlock(m) == m.kind = "data"
IsDesc(m) == m.kind = "desc"
IsNew(m) == m.kind = "desc" /\ m.size # 0 /\ ~m.old
IsOld(m) == m.kind = "desc" /\ m.size # 0 /\ m.old

\* After the first j messages of stream s, the last content written for
\* number n is b; b is Absent if there was none.
Shows(s, n, j, b) ==
  \/ /\ b = Absent
     /\ \A i \in 1 .. j : IsBlock(s[i]) => Hash[s[i].data] # n
  \/ \E i \in 1 .. j :
       /\ IsBlock(s[i])
       /\ s[i].data = b
       /\ Hash[b] = n
       /\ \A k \in i + 1 .. j : IsBlock(s[k]) => Hash[s[k].data] # n

\* The same, but a client after the first may never have been sent number n.
ShowsHere(s, n, j, b) == Shows(s, n, j, b) \/ (conns > 1 /\ Shows(s, n, j, Absent))

\* Descriptor m says what its item is, in the history h of items.
Describes(m, h) ==
  /\ m.seq \in 1 .. Len(h)
  /\ m.size = 0 => h[m.seq] = EOF
  /\ m.size # 0 => /\ h[m.seq] \in Data
                   /\ Hash[h[m.seq]] = m.num
                   /\ Size[h[m.seq]] = m.size

\* In a stream s of messages about the items h, the data of a block follows its
\* descriptor, if that was not old, and nothing else does; items come in order.
Frames(s, h) ==
  /\ \A j \in 1 .. Len(s) :
       /\ IsDesc(s[j]) => Describes(s[j], h)
       /\ IsBlock(s[j]) => /\ j > 1
                           /\ IsNew(s[j - 1])
                           /\ s[j].seq = s[j - 1].seq
                           /\ s[j].data = h[s[j].seq]
       /\ (IsDesc(s[j]) /\ j > 1) => /\ ~IsNew(s[j - 1])
                                     /\ s[j].seq = s[j - 1].seq + 1
  /\ s # <<>> => s[1].seq = 1 /\ s[Len(s)].seq = Len(h)
  /\ s = <<>> => h = <<>>

Framed == Frames(stream, sent)

\* Between two blocks the stream does not end in a descriptor that waits for
\* its data; in the middle of a block it does.
ServerFramed ==
  sock = "open" =>
    /\ (spc \in {"idle", "sending"} /\ stream # <<>>) => ~IsNew(stream[Len(stream)])
    /\ spc = "data" => /\ stream # <<>>
                       /\ IsNew(stream[Len(stream)])
                       /\ sent[Len(sent)] = Head(todo)
                       /\ blocks[Hash[Head(todo)]].data = Head(todo)

\* The server's table is what the client will have when it has read all.
ServerCoherent ==
  (sock = "open" /\ spc # "down") =>
    \A n \in BlockNum :
      \/ spc = "data" /\ n = Hash[Head(todo)]
      \/ ShowsHere(stream, n, Len(stream), blocks[n].data)

\* An old descriptor finds its block, when the client comes to it.
OldCoherent ==
  \A j \in 1 .. Len(stream) :
    IsOld(stream[j]) => ShowsHere(stream, stream[j].num, j, sent[stream[j].seq])

\* A client that is not astray has in its table what it has read so far.
ClientCoherent == ~astray => \A n \in BlockNum : Shows(stream, n, rd, cache[n])

\* Where it is in the stream and what it is waiting for.
ClientFramed ==
  ~astray =>
    /\ off = got
    /\ cpc = "data" => /\ rd > 0
                       /\ IsNew(stream[rd])
                       /\ desc = stream[rd]
    /\ (cpc \in {"idle", "header"} /\ rd > 0) => ~IsNew(stream[rd])
    /\ cpc \in {"idle", "header", "data"} =>
         IF rd = 0 THEN Len(recvd) = 0
         ELSE Len(recvd) + (IF cpc = "data" THEN 1 ELSE 0) = stream[rd].seq

\* What it received is the beginning of what was sent, and so is its file made of
\* chunks.
InOrder ==
  ~astray =>
    /\ Len(recvd) <= Len(sent)
    /\ \A k \in 1 .. Len(recvd) : recvd[k] = sent[k]
    /\ file \in Seq(Data)

\* When the bytes of a block are about to be written, they are not the last
\* ones that were written for its number.
AboutToSend ==
  (sock = "open" /\ spc = "data") => Superseded(stream, Head(todo), Len(stream))

\* Why Reassembly holds: on a network that is not slow, receive_file gives up
\* only between two files, when it has read everything.
EndsInEof(h) == h # <<>> => h[Len(h)] = EOF

BetweenFiles ==
  (~SlowNetwork /\ spc # "down") =>
    /\ ~astray
    /\ cpc \notin {"closed", "dead"} => sock = "open"
    /\ (spc = "idle" /\ sock = "open") => EndsInEof(sent)
    /\ cpc = "idle" => EndsInEof(recvd)

IInv ==
  /\ TypeOK
  /\ Framed
  /\ ServerFramed
  /\ ServerCoherent
  /\ OldCoherent
  /\ ClientCoherent
  /\ ClientFramed
  /\ InOrder
  /\ NeverMisses
=============================================================================
