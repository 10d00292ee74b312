------------------------- MODULE RabinLinkFileProofs -------------------------
(***************************************************************************)
(* More about RabinLink: what crosses the connection crosses it once, and  *)
(* on a network that is not slow files are not taken apart.                *)
(***************************************************************************)
EXTENDS RabinLinkProofs

(***************************************************************************)
(* SentOnce.                                                               *)
(***************************************************************************)

SInv == IInv /\ SentOnce /\ AboutToSend

\* What was superseded in a stream stays so when the stream grows.
LEMMA SupersededPrefix ==
  ASSUME NEW s, NEW t, NEW b, NEW j \in Nat, \A i \in 1 .. j : t[i] = s[i],
         Superseded(s, b, j)
  PROVE  Superseded(t, b, j)
<1> SUFFICES ASSUME NEW i \in 1 .. j, t[i].kind = "data", t[i].data = b
             PROVE  \E k \in i + 1 .. j : /\ t[k].kind = "data"
                                          /\ t[k].data # b
                                          /\ Hash[t[k].data] = Hash[b]
  BY DEF Superseded
<1>1. PICK k \in i + 1 .. j : /\ s[k].kind = "data"
                              /\ s[k].data # b
                              /\ Hash[s[k].data] = Hash[b]
  BY DEF Superseded
<1>2. k \in 1 .. j
  OBVIOUS
<1>3. QED
  BY <1>1, <1>2

\* A message that is not the bytes of b supersedes nothing less.
LEMMA SupersededStep ==
  ASSUME NEW s, NEW b, NEW j \in Nat, Superseded(s, b, j),
         ~(s[j + 1].kind = "data" /\ s[j + 1].data = b)
  PROVE  Superseded(s, b, j + 1)
<1> SUFFICES ASSUME NEW i \in 1 .. j + 1, s[i].kind = "data", s[i].data = b
             PROVE  \E k \in i + 1 .. j + 1 : /\ s[k].kind = "data"
                                              /\ s[k].data # b
                                              /\ Hash[s[k].data] = Hash[b]
  BY DEF Superseded
<1>1. i \in 1 .. j
  OBVIOUS
<1>2. PICK k \in i + 1 .. j : /\ s[k].kind = "data"
                              /\ s[k].data # b
                              /\ Hash[s[k].data] = Hash[b]
  BY <1>1 DEF Superseded
<1>3. k \in i + 1 .. j + 1
  OBVIOUS
<1>4. QED
  BY <1>2, <1>3

\* If the last content written for the number of b is another one, or none,
\* then b is superseded.
LEMMA ShowsSupersedes ==
  ASSUME NEW s \in Seq(Message), NEW j \in 0 .. Len(s), NEW b \in Data, NEW c,
         Shows(s, Hash[b], j, c), c # b
  PROVE  Superseded(s, b, j)
<1> SUFFICES ASSUME NEW i \in 1 .. j, s[i].kind = "data", s[i].data = b
             PROVE  \E k \in i + 1 .. j : /\ s[k].kind = "data"
                                          /\ s[k].data # b
                                          /\ Hash[s[k].data] = Hash[b]
  BY DEF Superseded
<1>1. IsBlock(s[i]) /\ Hash[s[i].data] = Hash[b]
  BY DEF IsBlock
<1>2. PICK k \in 1 .. j :
         /\ IsBlock(s[k])
         /\ s[k].data = c
         /\ Hash[c] = Hash[b]
         /\ \A l \in k + 1 .. j : IsBlock(s[l]) => Hash[s[l].data] # Hash[b]
  BY <1>1 DEF Shows
<1>3. ~(i > k)
  <2>1. i > k => i \in k + 1 .. j
    OBVIOUS
  <2>2. QED
    BY <1>1, <1>2, <2>1
<1>4. i # k
  BY <1>2
<1>5. k \in i + 1 .. j
  BY <1>3, <1>4
<1>6. QED
  BY <1>2, <1>5 DEF IsBlock

\* Appending a descriptor, or data that is superseded, keeps SentOnce.
LEMMA SentOnceAppend ==
  ASSUME IInv, SentOnce, NEW m \in Message, stream' = Append(stream, m),
         m.kind = "data" => Superseded(stream, m.data, Len(stream))
  PROVE  SentOnce'
<1>1. /\ stream \in Seq(Message) /\ Len(stream) \in Nat
      /\ Len(stream') = Len(stream) + 1
      /\ \A i \in 1 .. Len(stream) : stream'[i] = stream[i]
      /\ stream'[Len(stream) + 1] = m
  BY AppendKeeps DEF IInv, TypeOK, WireTypeOK
<1> SUFFICES ASSUME NEW j \in 1 .. Len(stream'), stream'[j].kind = "data"
             PROVE  Superseded(stream', stream'[j].data, j - 1)
  BY DEF SentOnce
<1>2. j - 1 \in Nat /\ \A i \in 1 .. j - 1 : stream'[i] = stream[i]
  BY <1>1
<1>3. Superseded(stream, stream'[j].data, j - 1)
  <2>1. CASE j \in 1 .. Len(stream)
    BY <1>1, <2>1 DEF SentOnce
  <2>2. CASE j = Len(stream) + 1
    BY <1>1, <2>2
  <2>3. QED
    BY <1>1, <2>1, <2>2
<1>4. QED
  BY <1>2, <1>3, SupersededPrefix

\* A step that leaves the stream alone, and is not on its way to data.
LEMMA SentOnceStays ==
  ASSUME IInv, SentOnce, AboutToSend, UNCHANGED stream,
         (sock' = "open" /\ spc' = "data")
           => (sock = "open" /\ spc = "data" /\ todo' = todo)
  PROVE  SentOnce' /\ AboutToSend'
BY DEF SentOnce, AboutToSend

LEMMA SendBlockOnce ==
  ASSUME SInv, SendBlock
  PROVE  SentOnce' /\ AboutToSend'
<1> USE DEF SInv
<1>1. /\ ServerTypeOK /\ spc = "sending" /\ todo # <<>> /\ todo \in Seq(Data)
      /\ stream \in Seq(Message) /\ Len(stream) \in Nat /\ Len(sent) \in Nat
  BY DEF SendBlock, IInv, TypeOK, ServerTypeOK, WireTypeOK
<1>2. PICK b \in Data : b = Head(todo)
  BY <1>1, TodoHead
<1>3. PICK old \in BOOLEAN : old = InsertBlock(b)[Hash[b]].old
  BY <1>1, InsertBlockTable
<1>4. PICK m : m = BlockDesc(b, old, Len(sent) + 1)
  OBVIOUS
<1>5. m \in Message /\ IsDesc(m) /\ ~IsBlock(m)
  BY <1>1, <1>4, MessageMade, MessageFields
<1>6. CASE ~(WriteOK(m) /\ sock = "open")
  <2>1. stream' = stream /\ ~(sock' = "open" /\ spc' = "data")
    BY <1>1, <1>2, <1>3, <1>4, <1>6
       DEF SendBlock, WriteOK, WriteError, WriteSignal, ServerDies
  <2>2. QED
    BY <2>1, SentOnceStays
<1>7. CASE WriteOK(m) /\ sock = "open"
  <2>1. stream' = Append(stream, m) /\ (spc' = "data" => ~old /\ todo' = todo)
    BY <1>1, <1>2, <1>3, <1>4, <1>7
       DEF SendBlock, WriteOK, WriteError, WriteSignal, ServerDies
  <2>2. SentOnce'
    BY <1>5, <2>1, SentOnceAppend DEF IsBlock
  <2>3. AboutToSend'
    <3> SUFFICES ASSUME spc' = "data"
                 PROVE  Superseded(stream', b, Len(stream'))
      BY <1>2, <2>1 DEF AboutToSend
    <3>1. Hash[b] \in BlockNum
      BY DEF BlockNum
    <3>2. blocks[Hash[b]].data # b
      <4>1. blocks \in [BlockNum -> [data : Data \cup {Absent}, old : BOOLEAN]]
        BY <1>1 DEF ServerTypeOK
      <4>2. blocks[Hash[b]].data = b
              => InsertBlock(b) = [blocks EXCEPT ![Hash[b]].old = TRUE]
        BY DEF InsertBlock
      <4>3. blocks[Hash[b]].data = b => InsertBlock(b)[Hash[b]].old = TRUE
        BY <3>1, <4>1, <4>2
      <4>4. QED
        BY <1>3, <2>1, <4>3
    <3>3. ShowsHere(stream, Hash[b], Len(stream), blocks[Hash[b]].data)
      BY <1>1, <1>7, <3>1 DEF IInv, ServerCoherent
    <3>4. Absent # b
      BY MarkAssumption
    <3>5. Superseded(stream, b, Len(stream))
      <4>1. Len(stream) \in 0 .. Len(stream)
        BY <1>1
      <4>2. ASSUME NEW c, Shows(stream, Hash[b], Len(stream), c), c # b
            PROVE  Superseded(stream, b, Len(stream))
        BY <1>1, <4>1, <4>2, ShowsSupersedes
      <4>3. QED
        BY <3>2, <3>3, <3>4, <4>2 DEF ShowsHere
    <3>6. /\ Len(stream') = Len(stream) + 1 /\ stream'[Len(stream) + 1] = m
          /\ \A i \in 1 .. Len(stream) : stream'[i] = stream[i]
      BY <1>1, <1>5, <2>1, AppendKeeps
    <3>7. Superseded(stream', b, Len(stream))
      BY <1>1, <3>5, <3>6, SupersededPrefix
    <3>8. QED
      BY <1>1, <1>5, <3>6, <3>7, SupersededStep DEF IsBlock
  <2>4. QED
    BY <2>2, <2>3
<1>8. QED
  BY <1>6, <1>7

LEMMA SendDataOnce ==
  ASSUME SInv, SendData
  PROVE  SentOnce' /\ AboutToSend'
<1> USE DEF SInv
<1>1. /\ spc = "data" /\ todo # <<>> /\ todo \in Seq(Data) /\ Len(sent) \in Nat
      /\ spc' \in {"sending", "down"}
  BY DEF SendData, ServerDies, IInv, TypeOK, ServerTypeOK, WireTypeOK
<1>2. PICK m : m = BlockData(Head(todo), Len(sent))
  OBVIOUS
<1>3. m \in Message /\ m.data = Head(todo)
  BY <1>1, <1>2, TodoHead, MessageMade DEF BlockData
<1>4. CASE stream' = stream
  BY <1>1, <1>4, SentOnceStays
<1>5. CASE stream' = Append(stream, m) /\ sock = "open"
  BY <1>1, <1>3, <1>5, SentOnceAppend DEF AboutToSend
<1>6. QED
  BY <1>2, <1>4, <1>5 DEF SendData, WriteOK, WriteError, WriteSignal

LEMMA SendEofOnce ==
  ASSUME SInv, SendEof
  PROVE  SentOnce' /\ AboutToSend'
<1> USE DEF SInv
<1>1. Len(sent) \in Nat /\ spc' \in {"idle", "down"}
  BY DEF SendEof, ServerDies, IInv, TypeOK, WireTypeOK
<1>2. PICK m : m = EofDesc(Len(sent) + 1)
  OBVIOUS
<1>3. m \in Message /\ m.kind = "desc"
  BY <1>1, <1>2, EofMade
<1>4. CASE stream' = stream
  BY <1>1, <1>4, SentOnceStays
<1>5. CASE stream' = Append(stream, m)
  BY <1>1, <1>3, <1>5, SentOnceAppend DEF AboutToSend
<1>6. QED
  BY <1>2, <1>4, <1>5 DEF SendEof, WriteOK, WriteError, WriteSignal

\* A connection carries the bytes of a block twice only if another block with
\* the same number came in between.
THEOREM SendsOnce == Spec => []SentOnce
<1>1. Init => SInv
  BY InitIInv DEF SInv, SentOnce, AboutToSend, Init, WireInit, ServerInit
<1>2. ASSUME SInv, [Next]_vars
      PROVE  SInv'
  <2> USE DEF SInv
  <2>1. IInv'
    BY <1>2, NextIInv
  <2>2. CASE ServerWrites
    BY <1>2, <2>1, <2>2, SendBlockOnce, SendDataOnce, SendEofOnce DEF ServerWrites, ServerStep
  <2>3. CASE ServerSends
    BY <1>2, <2>1, <2>3, SentOnceStays DEF ServerSends, SendFile, wireVars
  <2>4. CASE ServerEnds
    BY <1>2, <2>1, <2>4, SentOnceStays DEF ServerEnds, ServerStops, ServerDies, wireVars
  <2>5. CASE ClientStarts \/ ReadGivesUp \/ ClientLeaves
    BY <1>2, <2>1, <2>5, SentOnceStays
       DEF ClientStarts, StartReceive, ReadGivesUp, ReadFails, ClientLeaves, ClientCloses,
           Hangup, wireVars, serverVars
  <2>6. CASE ClientReads
    <3>1. stream' = stream /\ (sock' = "open" => sock = "open") /\ UNCHANGED <<spc, todo>>
      BY <2>6 DEF ClientReads, ReadStep, ReadPart, HeaderRead, CacheMiss, DataRead,
                  ReadLast, Take, Hangup, wireVars, serverVars
    <3>2. QED
      BY <1>2, <2>1, <3>1, SentOnceStays
  <2>7. CASE Reconnect
    BY <2>1, <2>7 DEF Reconnect, WireConnect, serverVars, SentOnce, AboutToSend
  <2>8. CASE UNCHANGED vars
    BY <1>2, <2>1, <2>8, SentOnceStays DEF vars, wireVars, serverVars
  <2>9. QED
    BY <1>2, <2>2, <2>3, <2>4, <2>5, <2>6, <2>7, <2>8 DEF Next
<1>3. SInv => SentOnce
  BY DEF SInv
<1>4. QED
  BY <1>1, <1>2, <1>3, PTL DEF Spec

(***************************************************************************)
(* Reassembly and StaysOnCourse.                                           *)
(***************************************************************************)

RInv == IInv /\ BetweenFiles /\ Reassembly /\ StaysOnCourse

\* A client that is not astray has received chunks and ends of file only.
LEMMA ItemsOnly ==
  ASSUME IInv, ~astray
  PROVE  recvd \in Seq(Item) /\ file \in Seq(Data)
<1>1. /\ recvd \in Seq(Item \cup {Junk}) /\ sent \in Seq(Item)
      /\ Len(recvd) \in Nat /\ Len(sent) \in Nat
      /\ Len(recvd) <= Len(sent)
      /\ \A k \in 1 .. Len(recvd) : recvd[k] = sent[k]
      /\ file \in Seq(Data)
  BY DEF IInv, TypeOK, WireTypeOK, ClientTypeOK, InOrder
<1>2. \A k \in 1 .. Len(recvd) : recvd[k] \in Item
  BY <1>1
<1>3. QED
  BY <1>1, <1>2

LEMMA ItemsOnlyNext ==
  ASSUME IInv', ~astray'
  PROVE  recvd' \in Seq(Item)
<1>1. /\ recvd' \in Seq(Item \cup {Junk}) /\ sent' \in Seq(Item)
      /\ Len(recvd') \in Nat /\ Len(sent') \in Nat
      /\ Len(recvd') <= Len(sent')
      /\ \A k \in 1 .. Len(recvd') : recvd'[k] = sent'[k]
  BY DEF IInv, TypeOK, WireTypeOK, ClientTypeOK, InOrder
<1>2. \A k \in 1 .. Len(recvd') : recvd'[k] \in Item
  BY <1>1
<1>3. QED
  BY <1>1, <1>2

\* Where a client of a network that is not slow finds bytes, it is not astray.
LEMMA ReadsOnCourse ==
  ASSUME RInv, ~SlowNetwork, rd < Len(stream)
  PROVE  ~astray
BY DEF RInv, StaysOnCourse

\* A file that has just begun.
LEMMA TailsNone ==
  ASSUME NEW h \in Seq(Item), EndsInEof(h)
  PROVE  Tails(<<>>, h)
<1>1. Len(h) \in 0 .. Len(h) /\ (Len(h) # 0 => h # <<>>)
  OBVIOUS
<1>2. SubSeq(h, Len(h) + 1, Len(h)) = <<>>
  OBVIOUS
<1>3. QED
  BY <1>1, <1>2 DEF Tails, EndsInEof

\* One more block of the same file.
LEMMA TailsMore ==
  ASSUME NEW h \in Seq(Item), NEW b \in Item, NEW f, Tails(f, h)
  PROVE  Tails(Append(f, b), Append(h, b))
<1>1. PICK k \in 0 .. Len(h) : (k # 0 => h[k] = EOF) /\ f = SubSeq(h, k + 1, Len(h))
  BY DEF Tails
<1>2. /\ Len(Append(h, b)) = Len(h) + 1 /\ Len(h) \in Nat
      /\ k # 0 => Append(h, b)[k] = h[k]
  BY AppendKeeps
<1>3. SubSeq(Append(h, b), k + 1, Len(h) + 1) = Append(SubSeq(h, k + 1, Len(h)), b)
  <2> DEFINE g == Append(h, b)
             p == SubSeq(h, k + 1, Len(h))
             q == SubSeq(g, k + 1, Len(h) + 1)
  <2>1. /\ g \in Seq(Item) /\ Len(g) = Len(h) + 1 /\ Len(h) \in Nat /\ k \in Nat
        /\ \A i \in 1 .. Len(h) : g[i] = h[i]
        /\ g[Len(h) + 1] = b
    BY AppendKeeps
  <2> HIDE DEF g
  <2>2. /\ p \in Seq(Item) /\ Len(p) = Len(h) - k
        /\ \A i \in 1 .. Len(h) - k : p[i] = h[k + i]
    BY <2>1, SubSeqProperties
  <2>3. /\ q \in Seq(Item) /\ Len(q) = Len(h) - k + 1
        /\ \A i \in 1 .. Len(h) - k + 1 : q[i] = g[k + i]
    BY <2>1, SubSeqProperties
  <2> HIDE DEF p, q
  <2>4. /\ Append(p, b) \in Seq(Item) /\ Len(Append(p, b)) = Len(h) - k + 1
        /\ \A i \in 1 .. Len(h) - k : Append(p, b)[i] = p[i]
        /\ Append(p, b)[Len(h) - k + 1] = b
    BY <2>1, <2>2, AppendKeeps
  <2>5. ASSUME NEW i \in 1 .. Len(h) - k + 1
        PROVE  q[i] = Append(p, b)[i]
    <3>1. CASE i \in 1 .. Len(h) - k
      <4>1. k + i \in 1 .. Len(h)
        BY <2>1, <3>1
      <4>2. QED
        BY <2>1, <2>2, <2>3, <2>4, <3>1, <4>1
    <3>2. CASE i = Len(h) - k + 1
      BY <2>1, <2>3, <2>4, <3>2
    <3>3. QED
      <4>1. i \in 1 .. Len(h) - k \/ i = Len(h) - k + 1
        BY <2>1
      <4>2. QED
        BY <3>1, <3>2, <4>1
  <2>6. q = Append(p, b)
    BY <2>1, <2>3, <2>4, <2>5, SeqEqual
  <2>7. QED
    BY <2>6 DEF p, q, g
<1>4. k \in 0 .. Len(Append(h, b))
  BY <1>2
<1>5. QED
  BY <1>1, <1>2, <1>3, <1>4 DEF Tails

\* Steps of the server: it is idle on a connection that stands only when it has
\* ended a file.
LEMMA ServerBetween ==
  ASSUME RInv, UNCHANGED clientVars, ServerSends \/ ServerWrites \/ ServerEnds
  PROVE  BetweenFiles' /\ Reassembly' /\ StaysOnCourse'
<1> USE DEF RInv
<1>1. /\ sent \in Seq(Item) /\ rd \in Nat /\ Len(stream) \in Nat
      /\ stream \in Seq(Message) /\ rd <= Len(stream)
  BY DEF IInv, TypeOK, WireTypeOK, ClientTypeOK
<1>2. (spc # "down")' => spc # "down"
  BY DEF ServerSends, SendFile, ServerWrites, ServerStep, SendBlock, SendData, SendEof,
         ServerDies, ServerEnds, ServerStops
<1>3. stream' = stream \/ \E m : stream' = Append(stream, m)
  BY DEF ServerSends, SendFile, ServerWrites, ServerStep, SendBlock, SendData, SendEof,
         ServerDies, ServerEnds, ServerStops, WriteOK, WriteError, WriteSignal, wireVars
<1>4. rd < Len(stream) => rd < Len(stream')
  <2>1. \A m : Len(Append(stream, m)) = Len(stream) + 1
    BY <1>1
  <2>2. QED
    BY <1>1, <1>3, <2>1
<1>5. sock = "open" => sock' = "open"
  BY DEF ServerSends, SendFile, ServerWrites, ServerStep, SendBlock, SendData, SendEof,
         ServerEnds, ServerStops, WriteOK, WriteError, WriteSignal, wireVars
<1>6. (spc' = "idle" /\ sock' = "open") => sent' = Append(sent, EOF)
  BY DEF ServerSends, SendFile, ServerWrites, ServerStep, SendBlock, SendData, SendEof,
         ServerDies, ServerEnds, ServerStops, WriteOK, WriteError, WriteSignal, wireVars
<1>7. EndsInEof(Append(sent, EOF))
  <2>1. EOF \in Item
    BY DEF Item
  <2>2. QED
    BY <1>1, <2>1, AppendKeeps DEF EndsInEof
<1>8. BetweenFiles'
  BY <1>2, <1>4, <1>5, <1>6, <1>7 DEF BetweenFiles, clientVars
<1>9. Reassembly'
  BY <1>2 DEF Reassembly, clientVars
<1>10. StaysOnCourse'
  <2>1. CASE spc # "down"
    BY <2>1 DEF BetweenFiles, StaysOnCourse, clientVars
  <2>2. CASE spc = "down"
    BY <2>2 DEF ServerSends, SendFile, ServerWrites, ServerStep, SendBlock, SendData,
                SendEof, ServerEnds, ServerStops
  <2>3. QED
    BY <2>1, <2>2
<1>11. QED
  BY <1>8, <1>9, <1>10

\* The client gives up between two files, with nothing half read, or after the
\* server's end.
LEMMA GivesUpBetween ==
  ASSUME RInv, ReadGivesUp
  PROVE  BetweenFiles' /\ Reassembly' /\ StaysOnCourse'
<1> USE DEF RInv
<1>a. CASE SlowNetwork \/ spc = "down"
  BY <1>a DEF ReadGivesUp, ReadFails, NothingComes, wireVars, serverVars, BetweenFiles,
              Reassembly, StaysOnCourse
<1> SUFFICES ASSUME ~SlowNetwork, spc # "down"
             PROVE  BetweenFiles' /\ Reassembly' /\ StaysOnCourse'
  BY <1>a
<1>1. /\ rd = Len(stream) /\ spc = "idle" /\ cpc \in {"header", "data"}
      /\ ~astray /\ got = 0 /\ sock = "open" /\ EndsInEof(sent)
      /\ rd \in Nat /\ stream \in Seq(Message) /\ sent \in Seq(Item) /\ recvd \in Seq(Item)
  <2>1. rd = Len(stream) /\ spc = "idle" /\ cpc \in {"header", "data"} /\ rd \in Nat
    BY DEF ReadGivesUp, NothingComes, ReadFails, IInv, TypeOK, ClientTypeOK
  <2>2. ~astray /\ sock = "open" /\ EndsInEof(sent)
    BY <2>1 DEF BetweenFiles
  <2>3. got = 0
    BY <2>1, <2>2 DEF IInv, ClientFramed, TypeOK, ClientTypeOK
  <2>4. recvd \in Seq(Item)
    BY <2>2, ItemsOnly
  <2>5. QED
    BY <2>1, <2>2, <2>3, <2>4 DEF IInv, TypeOK, WireTypeOK
<1>2. cpc = "header"
  BY <1>1 DEF IInv, ServerFramed, ClientFramed
<1>3. EndsInEof(recvd)
  <2>1. Len(recvd) = Len(sent)
    BY <1>1, <1>2 DEF IInv, ClientFramed, Framed, Frames
  <2>2. QED
    BY <1>1, <2>1 DEF EndsInEof, IInv, InOrder
<1>4. QED
  BY <1>1, <1>2, <1>3
     DEF ReadGivesUp, ReadFails, ReturnNull, wireVars, serverVars, BetweenFiles, Reassembly,
         StaysOnCourse

\* Reads that return bytes.
LEMMA ReadsBetween ==
  ASSUME RInv, ClientReads
  PROVE  BetweenFiles' /\ Reassembly' /\ StaysOnCourse'
<1> USE DEF RInv
<1>0. /\ UNCHANGED <<serverVars, conns, stream, sent, astray>> /\ rd < Len(stream)
  BY DEF ClientReads, ReadStep, ReadPart, HeaderRead, CacheMiss, DataRead, ReadLast,
         Take, wireVars
<1>a. StaysOnCourse'
  BY <1>0, ReadsOnCourse DEF StaysOnCourse
<1> SUFFICES ASSUME ~SlowNetwork, spc # "down"
             PROVE  BetweenFiles' /\ Reassembly'
  BY <1>a DEF ClientReads, serverVars, BetweenFiles, Reassembly
<1>1. UNCHANGED <<serverVars, conns, stream, sent, astray>>
  BY <1>0
<1>2. /\ ~astray /\ recvd \in Seq(Item) /\ file \in Seq(Data)
      /\ cpc \in {"header", "data"} => Tails(file, recvd)
  BY <1>0, ReadsOnCourse, ItemsOnly DEF Reassembly
<1>3. CASE \E need \in {HdrSize, desc.size} : ReadPart(need) /\ cpc \in {"header", "data"}
  BY <1>1, <1>2, <1>3 DEF ReadPart, serverVars, BetweenFiles, Reassembly
<1>4. ASSUME HeaderRead \/ DataRead,
             cpc' = "idle" => EndsInEof(recvd'),
             cpc' \in {"header", "data"} => Tails(file', recvd')
      PROVE  BetweenFiles' /\ Reassembly'
  <2>1. sock' = sock /\ cpc \in {"header", "data"}
    BY <1>4 DEF HeaderRead, DataRead
  <2>2. QED
    BY <1>1, <1>2, <1>4, <2>1 DEF serverVars, BetweenFiles, Reassembly
<1>5. CASE HeaderRead
  <2>1. CASE recvd' = Append(recvd, EOF) /\ cpc' = "idle"
    <3>1. EOF \in Item
      BY DEF Item
    <3>2. EndsInEof(recvd')
      BY <1>2, <2>1, <3>1, AppendKeeps DEF EndsInEof
    <3>3. QED
      BY <1>4, <1>5, <2>1, <3>2
  <2>2. CASE \E b : Deliver(b)
    <3>1. PICK b : Deliver(b)
      BY <2>2
    <3>2. recvd' \in Seq(Item) /\ Len(recvd') = Len(recvd) + 1 /\ recvd' = Append(recvd, b)
      <4>1. IInv' /\ recvd' = Append(recvd, b)
        BY <1>1, <1>5, <3>1, HeaderReadInv DEF Deliver
      <4>2. recvd' \in Seq(Item)
        BY <1>1, <1>2, <4>1, ItemsOnlyNext
      <4>3. QED
        BY <1>2, <4>1, <4>2
    <3>3. b \in Item
      <4>1. recvd'[Len(recvd) + 1] = b /\ Len(recvd) \in Nat
        BY <1>2, <3>2
      <4>2. QED
        BY <3>2, <4>1
    <3>4. Tails(file', recvd') /\ cpc' = "header"
      BY <1>2, <1>5, <3>1, <3>3, TailsMore DEF HeaderRead, Deliver
    <3>5. QED
      BY <1>4, <1>5, <3>4
  <2>3. CASE UNCHANGED <<file, recvd>> /\ cpc' = "data"
    BY <1>2, <1>4, <1>5, <2>3 DEF HeaderRead
  <2>4. QED
    BY <1>5, <2>1, <2>2, <2>3 DEF HeaderRead, ReturnNull
<1>6. CASE DataRead
  <2>1. PICK b : b = stream[rd + 1].data
    OBVIOUS
  <2>2. cpc = "data" /\ b \in Data
    BY <1>0, <1>2, <1>6, <2>1, NextData DEF DataRead
  <2>3. Deliver(b)
    <3>1. Contents = {b}
      BY <1>2, <1>6, <2>1, ReadLastOnCourse DEF DataRead
    <3>2. QED
      BY <1>6, <3>1 DEF DataRead
  <2>4. Tails(file', recvd') /\ cpc' = "header"
    BY <1>2, <2>2, <2>3, TailsMore DEF Deliver, Item
  <2>5. QED
    BY <1>4, <1>6, <2>4
<1>7. CASE CacheMiss
  BY <1>1, <1>2, <1>7 DEF CacheMiss, serverVars, BetweenFiles, Reassembly
<1>8. QED
  BY <1>3, <1>5, <1>6, <1>7 DEF ClientReads, ReadStep

LEMMA InitRInv == Init => RInv
BY InitIInv DEF RInv, BetweenFiles, Reassembly, StaysOnCourse, EndsInEof, Init, WireInit, ServerInit,
                ClientInit

LEMMA NextRInv ==
  ASSUME RInv, [Next]_vars
  PROVE  RInv'
<1> USE DEF RInv
<1>1. IInv'
  BY NextIInv
<1>2. CASE ServerSends \/ ServerWrites \/ ServerEnds
  BY <1>1, <1>2, ServerBetween DEF ServerSends, ServerWrites, ServerEnds
<1>3. CASE ClientStarts
  <2>1. (~SlowNetwork /\ spc # "down" /\ EndsInEof(recvd)) => Tails(<<>>, recvd)
    BY ItemsOnly, TailsNone DEF BetweenFiles
  <2>2. QED
    BY <1>1, <1>3, <2>1 DEF ClientStarts, StartReceive, wireVars, serverVars,
                            BetweenFiles, Reassembly, StaysOnCourse
<1>4. CASE ClientReads
  BY <1>1, <1>4, ReadsBetween
<1>5. CASE ReadGivesUp
  BY <1>1, <1>5, GivesUpBetween
<1>6. CASE ClientLeaves
  BY <1>1, <1>6 DEF ClientLeaves, ClientCloses, serverVars, BetweenFiles, Reassembly,
                    StaysOnCourse
<1>7. CASE Reconnect
  BY <1>1, <1>7 DEF Reconnect, WireConnect, ClientConnect, serverVars,
                    BetweenFiles, Reassembly, StaysOnCourse, EndsInEof
<1>8. CASE UNCHANGED vars
  BY <1>1, <1>8 DEF vars, wireVars, serverVars, clientVars, BetweenFiles, Reassembly,
                    StaysOnCourse
<1>9. QED
  BY <1>2, <1>3, <1>4, <1>5, <1>6, <1>7, <1>8 DEF Next

LEMMA RInvariance == Spec => []RInv
BY InitRInv, NextRInv, PTL DEF Spec

\* On a network that is not slow, receive_file never starts in the middle of a
\* file, whatever timed out before.
THEOREM FilesReassembled == Spec => []Reassembly
<1>1. RInv => Reassembly
  BY DEF RInv
<1>2. QED
  BY RInvariance, <1>1, PTL

\* On such a network no read fails inside a block but after the server's end, when
\* nothing is left that could be misread: the timeout alone keeps the client on
\* its course, for the protocol does not mark where a message begins.
THEOREM OnCourseUnlessSlow == Spec => []StaysOnCourse
<1>1. RInv => StaysOnCourse
  BY DEF RInv
<1>2. QED
  BY RInvariance, <1>1, PTL

\* So on a network that is not slow the link implements FileTransfer, whatever is
\* cached, overwritten or lost with a process: an astray client receives nothing.
THEOREM Refinement == ~SlowNetwork => (Spec => Implements)
<1> SUFFICES ASSUME ~SlowNetwork
             PROVE  Spec => Implements
  OBVIOUS
<1>1. Init => Transfer!TransferInit
  BY DEF Init, WireInit, ClientInit, Transfer!TransferInit
<1>2. RInv /\ [Next]_vars => [Transfer!TransferNext]_<<sent, recvd>>
  <2> SUFFICES ASSUME RInv, [Next]_vars
               PROVE  [Transfer!TransferNext]_<<sent, recvd>>
    OBVIOUS
  <2> USE DEF RInv
  <2>1. CASE ~astray'
    BY <2>1, StepTransfers
  <2>2. CASE astray'
    <3>1. spc' = "down" /\ rd' = Len(stream')
      BY <2>2, NextRInv DEF StaysOnCourse
    <3>2. CASE UNCHANGED <<sent, recvd>>
      BY <3>2
    <3>3. CASE ClientReads
      <4>1. astray' = astray /\ rd < Len(stream)
        BY <3>3 DEF ClientReads, ReadStep, ReadPart, HeaderRead, CacheMiss, DataRead,
                    ReadLast, Take
      <4>2. QED
        BY <2>2, <4>1, ReadsOnCourse
    <3>4. CASE ServerWrites
      <4>1. astray' = astray /\ spc # "down"
        BY <3>4 DEF ServerWrites, ServerStep, SendBlock, SendData, SendEof, clientVars
      <4>2. QED
        BY <2>2, <4>1 DEF BetweenFiles
    <3>5. CASE Reconnect
      BY <2>2, <3>5 DEF Reconnect, ClientConnect
    <3>6. UNCHANGED <<sent, recvd>> \/ ClientReads \/ ServerWrites \/ Reconnect
      BY DEF Next, vars, wireVars, clientVars, ServerSends, SendFile, ServerEnds,
             ServerStops, ClientStarts, StartReceive, ReadGivesUp, ReadFails,
             ClientLeaves, ClientCloses
    <3>7. QED
      BY <3>2, <3>3, <3>4, <3>5, <3>6
  <2>3. QED
    BY <2>1, <2>2
<1>3. QED
  BY <1>1, <1>2, RInvariance, PTL DEF Spec, Implements, Transfer!TransferSpec
=============================================================================
