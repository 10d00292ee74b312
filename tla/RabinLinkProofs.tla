--------------------------- MODULE RabinLinkProofs ---------------------------
(***************************************************************************)
(* Proofs about RabinLink, for all chunks, block numbers, sizes, files and *)
(* numbers of connections.  The invariant is IInv; each action is a lemma. *)
(***************************************************************************)
EXTENDS RabinLink, SequenceTheorems, TLAPS

(***************************************************************************)
(* Messages and sequences of messages.                                     *)
(***************************************************************************)

\* The fields of a message of either kind have their types.
LEMMA MessageFields ==
  ASSUME NEW m \in Message
  PROVE  /\ m.seq \in Nat
         /\ m.kind \in {"desc", "data"}
         /\ IsBlock(m) => m.data \in Data
         /\ ~IsBlock(m) <=> IsDesc(m)
         /\ IsDesc(m) => m.num \in Nat /\ m.size \in Nat /\ m.old \in BOOLEAN
BY HashAssumption, SizeAssumption DEF Message, IsBlock, IsDesc

\* Every message takes bytes.
LEMMA BytesTaken ==
  ASSUME NEW m \in Message
  PROVE  Bytes(m) \in Nat /\ Bytes(m) > 0
<1>1. CASE m.kind = "desc"
  BY <1>1, SizeAssumption DEF Bytes
<1>2. CASE m.kind # "desc"
  <2>1. m.data \in Data
    BY <1>2 DEF Message
  <2>2. Size[m.data] \in Nat \ {0}
    BY <2>1, SizeAssumption
  <2>3. QED
    BY <1>2, <2>2 DEF Bytes
<1>3. QED
  BY <1>1, <1>2

\* What the server writes is a message, of the kind it should be.
LEMMA MessageMade ==
  ASSUME NEW b \in Data, NEW old \in BOOLEAN, NEW k \in Nat
  PROVE  /\ BlockDesc(b, old, k) \in Message
         /\ IsDesc(BlockDesc(b, old, k))
         /\ IsNew(BlockDesc(b, old, k)) <=> ~old
         /\ IsOld(BlockDesc(b, old, k)) <=> old
         /\ BlockData(b, k) \in Message
         /\ IsBlock(BlockData(b, k))
<1>1. Hash[b] \in Number /\ Size[b] \in Length /\ Size[b] # 0
  BY HashAssumption, SizeAssumption
<1>2. QED
  BY <1>1 DEF BlockDesc, BlockData, Message, IsDesc, IsBlock, IsNew, IsOld

LEMMA EofMade ==
  ASSUME NEW k \in Nat
  PROVE  /\ EofDesc(k) \in Message
         /\ EofDesc(k).kind = "desc" /\ EofDesc(k).size = 0 /\ EofDesc(k).seq = k
<1>1. 0 \in Number /\ 0 \in Length
  BY HashAssumption, SizeAssumption
<1>2. QED
  BY <1>1 DEF EofDesc, Message

\* Appending keeps the elements that were there.
LEMMA AppendKeeps ==
  ASSUME NEW S, NEW s \in Seq(S), NEW m \in S
  PROVE  /\ Append(s, m) \in Seq(S)
         /\ Len(Append(s, m)) = Len(s) + 1
         /\ Len(s) \in Nat
         /\ \A i \in 1 .. Len(s) : Append(s, m)[i] = s[i]
         /\ Append(s, m)[Len(s) + 1] = m
OBVIOUS

(***************************************************************************)
(* Shows: what the last content written for a number is.                   *)
(***************************************************************************)

\* What the first j messages show depends on them alone.
LEMMA ShowsPrefix ==
  ASSUME NEW s, NEW t, NEW n, NEW b, NEW j \in Nat,
         \A i \in 1 .. j : t[i] = s[i],
         Shows(s, n, j, b)
  PROVE  Shows(t, n, j, b)
<1>1. CASE b = Absent /\ \A i \in 1 .. j : IsBlock(s[i]) => Hash[s[i].data] # n
  BY <1>1 DEF Shows
<1>2. ASSUME NEW i \in 1 .. j, IsBlock(s[i]), s[i].data = b, Hash[b] = n,
             \A k \in i + 1 .. j : IsBlock(s[k]) => Hash[s[k].data] # n
      PROVE  Shows(t, n, j, b)
  <2>1. \A k \in i + 1 .. j : k \in 1 .. j
    OBVIOUS
  <2>2. \A k \in i + 1 .. j : IsBlock(t[k]) => Hash[t[k].data] # n
    BY <1>2, <2>1
  <2>3. QED
    BY <1>2, <2>2 DEF Shows
<1>3. QED
  BY <1>1, <1>2 DEF Shows

\* It does not depend on messages that follow.
LEMMA ShowsAppend ==
  ASSUME NEW s \in Seq(Message), NEW m \in Message, NEW n, NEW b, NEW j \in 0 .. Len(s)
  PROVE  Shows(Append(s, m), n, j, b) <=> Shows(s, n, j, b)
<1>1. \A i \in 1 .. j : Append(s, m)[i] = s[i]
  BY AppendKeeps
<1>2. j \in Nat
  OBVIOUS
<1>3. QED
  BY <1>1, <1>2, ShowsPrefix

\* A message that is not a block of number n changes nothing for n.
LEMMA ShowsStep ==
  ASSUME NEW s \in Seq(Message), NEW n, NEW b, NEW j \in Nat, j < Len(s),
         IsBlock(s[j + 1]) => Hash[s[j + 1].data] # n
  PROVE  Shows(s, n, j + 1, b) <=> Shows(s, n, j, b)
<1>1. \A i \in 1 .. j + 1 : i \in 1 .. j \/ i = j + 1
  OBVIOUS
<1>2. \A i \in 1 .. j : i \in 1 .. j + 1
  OBVIOUS
<1>3. \A i \in 1 .. j : \A k \in i + 1 .. j + 1 : k \in i + 1 .. j \/ k = j + 1
  OBVIOUS
<1>4. \A i \in 1 .. j : \A k \in i + 1 .. j : k \in i + 1 .. j + 1
  OBVIOUS
<1>5. CASE b = Absent /\ \A i \in 1 .. j : IsBlock(s[i]) => Hash[s[i].data] # n
  BY <1>1, <1>5 DEF Shows
<1>6. ASSUME NEW i \in 1 .. j, IsBlock(s[i]), s[i].data = b, Hash[b] = n,
             \A k \in i + 1 .. j : IsBlock(s[k]) => Hash[s[k].data] # n
      PROVE  Shows(s, n, j + 1, b)
  BY <1>2, <1>3, <1>6 DEF Shows
<1>7. ASSUME NEW i \in 1 .. j + 1, IsBlock(s[i]), s[i].data = b, Hash[b] = n,
             \A k \in i + 1 .. j + 1 : IsBlock(s[k]) => Hash[s[k].data] # n
      PROVE  Shows(s, n, j, b)
  BY <1>1, <1>4, <1>7 DEF Shows
<1>8. Shows(s, n, j, b) => Shows(s, n, j + 1, b)
  BY <1>5, <1>6 DEF Shows
<1>9. Shows(s, n, j + 1, b) => Shows(s, n, j, b)
  BY <1>2, <1>7 DEF Shows
<1>10. QED
  BY <1>8, <1>9

\* A block is what its number shows from then on.
LEMMA ShowsBlock ==
  ASSUME NEW s \in Seq(Message), NEW j \in 1 .. Len(s), IsBlock(s[j])
  PROVE  Shows(s, Hash[s[j].data], j, s[j].data)
<1>1. \A k \in j + 1 .. j : FALSE
  OBVIOUS
<1>2. j \in 1 .. j
  OBVIOUS
<1>3. QED
  BY <1>1, <1>2 DEF Shows

\* There is one such content.
LEMMA ShowsUnique ==
  ASSUME NEW s \in Seq(Message), NEW n, NEW j \in 0 .. Len(s), NEW a, NEW b,
         Shows(s, n, j, a), Shows(s, n, j, b)
  PROVE  a = b
<1>1. ASSUME NEW i \in 1 .. j, NEW k \in 1 .. j,
             IsBlock(s[i]), s[i].data = a, Hash[a] = n,
             \A l \in i + 1 .. j : IsBlock(s[l]) => Hash[s[l].data] # n,
             IsBlock(s[k]), s[k].data = b, Hash[b] = n,
             \A l \in k + 1 .. j : IsBlock(s[l]) => Hash[s[l].data] # n
      PROVE  a = b
  <2>1. ~(i < k)
    <3>1. i < k => k \in i + 1 .. j
      OBVIOUS
    <3>2. QED
      BY <1>1, <3>1
  <2>2. ~(k < i)
    <3>1. k < i => i \in k + 1 .. j
      OBVIOUS
    <3>2. QED
      BY <1>1, <3>1
  <2>3. i = k
    BY <2>1, <2>2
  <2>4. QED
    BY <1>1, <2>3
<1>2. QED
  BY <1>1 DEF Shows

(***************************************************************************)
(* How the server extends a stream.                                        *)
(***************************************************************************)

\* A descriptor of the next item, after a stream that waits for no data.
LEMMA FramesDesc ==
  ASSUME NEW s \in Seq(Message), NEW h \in Seq(Item), NEW m \in Message, NEW i \in Item,
         Frames(s, h), IsDesc(m), m.seq = Len(h) + 1, Describes(m, Append(h, i)),
         s # <<>> => ~IsNew(s[Len(s)])
  PROVE  Frames(Append(s, m), Append(h, i))
<1> DEFINE t == Append(s, m)
           g == Append(h, i)
<1>1. /\ t \in Seq(Message) /\ Len(t) = Len(s) + 1 /\ Len(s) \in Nat
      /\ \A j \in 1 .. Len(s) : t[j] = s[j]
      /\ t[Len(s) + 1] = m
  BY AppendKeeps
<1>2. /\ g \in Seq(Item) /\ Len(g) = Len(h) + 1 /\ Len(h) \in Nat
      /\ \A k \in 1 .. Len(h) : g[k] = h[k]
      /\ g[Len(h) + 1] = i
  BY AppendKeeps
<1> HIDE DEF t, g
<1>3. ASSUME NEW j \in 1 .. Len(s)
      PROVE  /\ IsDesc(t[j]) => Describes(t[j], g)
             /\ IsBlock(t[j]) => /\ j > 1
                                 /\ IsNew(t[j - 1])
                                 /\ t[j].seq = t[j - 1].seq
                                 /\ t[j].data = g[t[j].seq]
             /\ (IsDesc(t[j]) /\ j > 1) => /\ ~IsNew(t[j - 1])
                                           /\ t[j].seq = t[j - 1].seq + 1
  <2>1. t[j] = s[j] /\ (j > 1 => t[j - 1] = s[j - 1] /\ j - 1 \in 1 .. Len(s))
    BY <1>1
  <2>2. IsDesc(s[j]) => Describes(s[j], g)
    BY <1>2 DEF Frames, Describes
  <2>3. IsBlock(s[j]) => s[j].seq \in 1 .. Len(h)
    BY <2>1 DEF Frames, Describes, IsNew, IsDesc
  <2>4. QED
    BY <1>2, <2>1, <2>2, <2>3 DEF Frames
<1>4. /\ Describes(m, g)
      /\ ~IsBlock(m)
      /\ Len(s) + 1 > 1 => /\ ~IsNew(t[Len(s)])
                           /\ m.seq = t[Len(s)].seq + 1
  <2>1. Describes(m, g) /\ ~IsBlock(m)
    BY MessageFields DEF g
  <2>2. Len(s) + 1 > 1 => s # <<>> /\ t[Len(s)] = s[Len(s)]
    BY <1>1
  <2>3. QED
    BY <2>1, <2>2 DEF Frames
<1>5. t[1].seq = 1 /\ t[Len(t)].seq = Len(g)
  <2>1. CASE s = <<>>
    BY <1>1, <1>2, <2>1 DEF Frames
  <2>2. CASE s # <<>>
    BY <1>1, <1>2, <2>2 DEF Frames
  <2>3. QED
    BY <2>1, <2>2
<1>6. t # <<>>
  BY <1>1
<1>7. \A j \in 1 .. Len(t) : j \in 1 .. Len(s) \/ (j = Len(s) + 1 /\ j - 1 = Len(s))
  BY <1>1
<1>8. Frames(t, g)
  BY <1>1, <1>3, <1>4, <1>5, <1>6, <1>7 DEF Frames
<1>9. QED
  BY <1>8 DEF t, g

\* The data of the block whose descriptor ends the stream.
LEMMA FramesData ==
  ASSUME NEW s \in Seq(Message), NEW h \in Seq(Item), NEW m \in Message,
         Frames(s, h), IsBlock(m), s # <<>>, IsNew(s[Len(s)]),
         m.seq = Len(h), m.data = h[Len(h)]
  PROVE  Frames(Append(s, m), h)
<1> DEFINE t == Append(s, m)
<1>1. /\ t \in Seq(Message) /\ Len(t) = Len(s) + 1 /\ Len(s) \in Nat
      /\ \A j \in 1 .. Len(s) : t[j] = s[j]
      /\ t[Len(s) + 1] = m
  BY AppendKeeps
<1> HIDE DEF t
<1>2. ASSUME NEW j \in 1 .. Len(s)
      PROVE  /\ t[j] = s[j]
             /\ j > 1 => t[j - 1] = s[j - 1]
  BY <1>1
<1>3. Len(s) > 0 /\ ~IsDesc(m) /\ s[Len(s)].seq = m.seq
  <2>1. ~IsDesc(m)
    BY MessageFields
  <2>2. QED
    BY <1>1, <2>1 DEF Frames
<1>4. t[1].seq = 1 /\ t[Len(t)].seq = Len(h) /\ t # <<>>
  BY <1>1, <1>3 DEF Frames
<1>5. \A j \in 1 .. Len(t) : j \in 1 .. Len(s) \/ (j = Len(s) + 1 /\ j - 1 = Len(s))
  BY <1>1
<1>6. ASSUME NEW j \in 1 .. Len(t)
      PROVE  /\ IsDesc(t[j]) => Describes(t[j], h)
             /\ IsBlock(t[j]) => /\ j > 1
                                 /\ IsNew(t[j - 1])
                                 /\ t[j].seq = t[j - 1].seq
                                 /\ t[j].data = h[t[j].seq]
             /\ (IsDesc(t[j]) /\ j > 1) => /\ ~IsNew(t[j - 1])
                                           /\ t[j].seq = t[j - 1].seq + 1
  <2>1. CASE j \in 1 .. Len(s)
    BY <1>2, <2>1 DEF Frames
  <2>2. CASE j = Len(s) + 1 /\ j - 1 = Len(s)
    <3>1. t[j] = m /\ t[j - 1] = s[Len(s)] /\ j > 1
      BY <1>1, <1>2, <1>3, <2>2
    <3>2. QED
      BY <1>3, <3>1
  <2>3. QED
    BY <1>5, <2>1, <2>2
<1>7. Frames(t, h)
  BY <1>4, <1>6 DEF Frames
<1>8. QED
  BY <1>7 DEF t

(***************************************************************************)
(* The initial states.                                                     *)
(***************************************************************************)

\* The numbers of chunks are numbers a descriptor can have.
LEMMA NumbersUsed == BlockNum \subseteq Number
BY HashAssumption DEF BlockNum

LEMMA InitIInv == Init => IInv
<1> SUFFICES ASSUME Init PROVE IInv
  OBVIOUS
<1> USE DEF Init, WireInit, ServerInit, ClientInit
<1>1. EofDesc(0) \in Message /\ EofDesc(0).kind = "desc"
  BY EofMade
<1>2. WireTypeOK
  BY DEF WireTypeOK
<1>3. ServerTypeOK
  BY FilesAssumption DEF ServerTypeOK, NoBlock
<1>4. ClientTypeOK
  <2>1. HdrSize \in Nat /\ HdrSize > 0
    BY SizeAssumption
  <2>2. <<>> \in Seq(Data \cup {Junk}) /\ <<>> \in Seq(Item \cup {Junk}) /\ Len(stream) = 0
    OBVIOUS
  <2>3. cache \in [Number -> Data \cup {Junk, Absent}]
    OBVIOUS
  <2>4. rd \in 0 .. Len(stream)
    BY <2>2
  <2>5. QED
    BY <1>1, <2>1, <2>2, <2>3, <2>4 DEF ClientTypeOK
<1>5. TypeOK
  BY <1>2, <1>3, <1>4, LinkAssumption DEF TypeOK
<1>6. Framed
  BY DEF Framed, Frames
<1>7. \A n : Shows(<<>>, n, 0, Absent)
  BY DEF Shows
<1>8. ServerFramed /\ ServerCoherent /\ OldCoherent
  BY <1>7 DEF ServerFramed, ServerCoherent, OldCoherent, ShowsHere, NoBlock
<1>9. ClientCoherent
  BY <1>7, NumbersUsed DEF ClientCoherent
<1>10. ClientFramed /\ InOrder /\ NeverMisses
  BY DEF ClientFramed, InOrder, NeverMisses
<1>11. QED
  BY <1>5, <1>6, <1>8, <1>9, <1>10 DEF IInv

(***************************************************************************)
(* Steps of the server leave the client's variables alone: what the client *)
(* has read is still there.                                                *)
(***************************************************************************)

\* The stream and the items only grow.
Grown ==
  /\ stream' \in Seq(Message)
  /\ Len(stream') \in Nat /\ Len(stream') >= Len(stream)
  /\ \A j \in 1 .. Len(stream) : stream'[j] = stream[j]
  /\ sent' \in Seq(Item)
  /\ Len(sent') \in Nat /\ Len(sent') >= Len(sent)
  /\ \A k \in 1 .. Len(sent) : sent'[k] = sent[k]

LEMMA ClientStays ==
  ASSUME IInv, UNCHANGED <<clientVars, conns>>, Grown
  PROVE  /\ ClientTypeOK' /\ (conns \in 1 .. MaxConns)'
         /\ ClientCoherent' /\ ClientFramed' /\ InOrder' /\ NeverMisses'
<1>1. /\ rd \in Nat /\ rd <= Len(stream) /\ Len(stream) \in Nat
      /\ Len(sent) \in Nat /\ Len(recvd) \in Nat
  BY DEF IInv, TypeOK, ClientTypeOK, WireTypeOK
<1>2. ClientTypeOK' /\ (conns \in 1 .. MaxConns)'
  <2>1. rd < Len(stream) => rd < Len(stream') /\ stream'[rd + 1] = stream[rd + 1]
    BY <1>1 DEF Grown
  <2>2. (off # 0 => rd < Len(stream) /\ off < Bytes(stream[rd + 1]))'
    BY <2>1 DEF IInv, TypeOK, ClientTypeOK, clientVars
  <2>3. QED
    BY <1>1, <2>2 DEF IInv, TypeOK, ClientTypeOK, clientVars, Grown
<1>3. ClientCoherent'
  <2> SUFFICES ASSUME ~astray, NEW n \in BlockNum
               PROVE  Shows(stream', n, rd, cache[n])
    BY DEF ClientCoherent, clientVars
  <2>1. Shows(stream, n, rd, cache[n])
    BY DEF IInv, ClientCoherent
  <2>2. \A i \in 1 .. rd : stream'[i] = stream[i]
    BY <1>1 DEF Grown
  <2>3. QED
    BY <1>1, <2>1, <2>2, ShowsPrefix
<1>4. ClientFramed'
  <2>1. rd # 0 => stream'[rd] = stream[rd]
    BY <1>1 DEF Grown
  <2>2. QED
    BY <2>1, <1>1 DEF IInv, ClientFramed, clientVars
<1>5. InOrder'
  BY <1>1 DEF IInv, InOrder, clientVars, Grown
<1>6. NeverMisses'
  BY DEF IInv, NeverMisses, clientVars
<1>7. QED
  BY <1>2, <1>3, <1>4, <1>5, <1>6

\* The old descriptors that were in the stream are still answered.
LEMMA OldStays ==
  ASSUME IInv, UNCHANGED conns, Grown,
         NEW j \in 1 .. Len(stream), IsOld(stream'[j])
  PROVE  ShowsHere(stream, stream[j].num, j, sent[stream[j].seq])'
<1>1. /\ stream'[j] = stream[j] /\ j \in Nat
      /\ \A i \in 1 .. j : stream'[i] = stream[i]
  BY DEF Grown
<1>2. stream[j].seq \in 1 .. Len(sent)
  BY <1>1 DEF IInv, Framed, Frames, Describes, IsOld, IsDesc
<1>3. sent'[stream[j].seq] = sent[stream[j].seq]
  BY <1>2 DEF Grown
<1>4. ShowsHere(stream, stream[j].num, j, sent[stream[j].seq])
  BY <1>1 DEF IInv, OldCoherent
<1>5. QED
  BY <1>1, <1>3, <1>4, ShowsPrefix DEF ShowsHere

\* What the server may have in its hand: the head of a list of chunks.
LEMMA TodoHead ==
  ASSUME NEW s \in Seq(Data), s # <<>>
  PROVE  /\ Head(s) \in Data /\ Tail(s) \in Seq(Data)
         /\ Hash[Head(s)] \in BlockNum
BY HashAssumption DEF BlockNum

\* A step that writes nothing grows the stream by nothing.
LEMMA GrownSame ==
  ASSUME WireTypeOK, UNCHANGED <<stream, sent>>
  PROVE  Grown
BY DEF WireTypeOK, Grown

\* A step that writes message m about the new item i.
LEMMA GrownDesc ==
  ASSUME WireTypeOK, NEW m \in Message, NEW i \in Item,
         stream' = Append(stream, m), sent' = Append(sent, i)
  PROVE  Grown
BY AppendKeeps DEF WireTypeOK, Grown

\* A step that writes message m about the last item.
LEMMA GrownData ==
  ASSUME WireTypeOK, NEW m \in Message, stream' = Append(stream, m), sent' = sent
  PROVE  Grown
BY AppendKeeps DEF WireTypeOK, Grown

\* On a connection the client has left the stream stands still, and nothing
\* the server does matters to the invariant but its own types.
LEMMA Unheard ==
  ASSUME IInv, UNCHANGED <<clientVars, conns, stream, sent>>,
         ServerTypeOK', sock' \in {"gone", "reset"} \/ spc' = "down",
         sock' \in {"open", "gone", "reset"}
  PROVE  IInv'
<1>1. Grown /\ WireTypeOK'
  BY GrownSame DEF IInv, TypeOK, WireTypeOK
<1>2. ClientTypeOK' /\ (conns \in 1 .. MaxConns)'
      /\ ClientCoherent' /\ ClientFramed' /\ InOrder' /\ NeverMisses'
  BY <1>1, ClientStays
<1>3. Framed' /\ ServerFramed' /\ ServerCoherent'
  BY DEF IInv, Framed, ServerFramed, ServerCoherent
<1>4. OldCoherent'
  BY DEF IInv, OldCoherent, ShowsHere
<1>5. QED
  BY <1>1, <1>2, <1>3, <1>4 DEF IInv, TypeOK

\* send_file is called: nothing is on the wire yet.
LEMMA SendFileInv ==
  ASSUME IInv, NEW f \in Files, SendFile(f), UNCHANGED <<clientVars, conns>>
  PROVE  IInv'
<1> USE DEF SendFile, wireVars
<1>1. Grown /\ WireTypeOK'
  BY GrownSame DEF IInv, TypeOK, WireTypeOK
<1>2. ClientTypeOK' /\ (conns \in 1 .. MaxConns)'
      /\ ClientCoherent' /\ ClientFramed' /\ InOrder' /\ NeverMisses'
  BY <1>1, ClientStays
<1>3. ServerTypeOK'
  BY FilesAssumption DEF IInv, TypeOK, ServerTypeOK
<1>4. Framed' /\ ServerFramed'
  BY DEF IInv, Framed, ServerFramed
<1>5. ServerCoherent'
  BY DEF IInv, ServerCoherent, ShowsHere
<1>6. OldCoherent'
  BY DEF IInv, OldCoherent, ShowsHere
<1>7. QED
  BY <1>1, <1>2, <1>3, <1>4, <1>5, <1>6 DEF IInv, TypeOK

LEMMA ServerStopsInv ==
  ASSUME IInv, ServerStops, UNCHANGED <<clientVars, conns>>
  PROVE  IInv'
<1>1. ServerTypeOK'
  BY DEF IInv, TypeOK, ServerTypeOK, ServerStops, ServerDies
<1>2. QED
  BY <1>1, Unheard DEF ServerStops, ServerDies, wireVars, IInv, TypeOK, WireTypeOK

\* The table after insert_block.
LEMMA InsertBlockTable ==
  ASSUME ServerTypeOK, NEW b \in Data
  PROVE  /\ InsertBlock(b) \in [BlockNum -> [data : Data \cup {Absent}, old : BOOLEAN]]
         /\ InsertBlock(b)[Hash[b]].data = b
         /\ \A n \in BlockNum : n # Hash[b] => InsertBlock(b)[n] = blocks[n]
         /\ InsertBlock(b)[Hash[b]].old => blocks[Hash[b]].data = b
         /\ InsertBlock(b)[Hash[b]].old \in BOOLEAN
<1>1. Hash[b] \in BlockNum
  BY DEF BlockNum
<1>2. blocks \in [BlockNum -> [data : Data \cup {Absent}, old : BOOLEAN]]
  BY DEF ServerTypeOK
<1>3. CASE blocks[Hash[b]].data = b
  BY <1>1, <1>2, <1>3 DEF InsertBlock
<1>4. CASE blocks[Hash[b]].data # b
  BY <1>1, <1>2, <1>4 DEF InsertBlock
<1>5. QED
  BY <1>3, <1>4

\* A turn of send_file's loop, up to the first write.
LEMMA SendBlockInv ==
  ASSUME IInv, SendBlock, UNCHANGED <<clientVars, conns>>
  PROVE  IInv'
<1>1. /\ WireTypeOK /\ ServerTypeOK
      /\ spc = "sending" /\ todo # <<>> /\ todo \in Seq(Data)
      /\ blocks' = InsertBlock(Head(todo)) /\ nfiles' = nfiles
  BY DEF SendBlock, IInv, TypeOK, ServerTypeOK
<1>2. PICK b \in Data : b = Head(todo)
  BY <1>1, TodoHead
<1>3. PICK n \in BlockNum : n = Hash[b]
  BY DEF BlockNum
<1>4. PICK old \in BOOLEAN : old = InsertBlock(b)[n].old
  BY <1>1, <1>3, InsertBlockTable
<1>5. PICK m : m = BlockDesc(b, old, Len(sent) + 1)
  OBVIOUS
<1>6. Tail(todo) \in Seq(Data)
  BY <1>1, TodoHead
<1>7. /\ blocks' \in [BlockNum -> [data : Data \cup {Absent}, old : BOOLEAN]]
      /\ blocks'[n].data = b
      /\ \A k \in BlockNum : k # n => blocks'[k] = blocks[k]
      /\ old => blocks[n].data = b
  BY <1>1, <1>2, <1>3, <1>4, InsertBlockTable
<1>8. ASSUME spc' \in {"sending", "data", "down"},
             todo' = todo \/ todo' = Tail(todo) \/ todo' = <<>>,
             spc' = "data" => todo' = todo
      PROVE  ServerTypeOK'
  <2>1. todo' \in Seq(Data)
    BY <1>1, <1>6, <1>8, EmptySeq
  <2>2. nfiles' \in 0 .. MaxFiles
    BY <1>1 DEF ServerTypeOK
  <2>3. QED
    BY <1>1, <1>7, <1>8, <2>1, <2>2 DEF ServerTypeOK
<1>9. CASE /\ WriteError
           /\ todo' = Tail(todo)
           /\ UNCHANGED <<spc, sent>>
  <2>1. ServerTypeOK'
    BY <1>1, <1>8, <1>9
  <2>2. QED
    BY <1>9, <2>1, Unheard DEF WriteError
<1>10. CASE WriteSignal /\ ServerDies /\ UNCHANGED sent
  <2>1. ServerTypeOK'
    BY <1>8, <1>10 DEF ServerDies
  <2>2. QED
    BY <1>10, <2>1, Unheard DEF WriteSignal, ServerDies
<1>11. CASE /\ WriteOK(m)
            /\ sent' = IF sock = "open" THEN Append(sent, b) ELSE sent
            /\ todo' = IF old THEN Tail(todo) ELSE todo
            /\ spc' = IF old THEN "sending" ELSE "data"
  <2>1. ServerTypeOK'
    BY <1>7, <1>8, <1>11
  <2>2. CASE sock = "gone"
    BY <1>11, <2>1, <2>2, Unheard DEF WriteOK
  <2>3. CASE sock = "open"
    <3>1. stream' = Append(stream, m) /\ sent' = Append(sent, b) /\ sock' = "open"
      BY <1>11, <2>3 DEF WriteOK
    <3>2. /\ stream \in Seq(Message) /\ Len(stream) \in Nat
          /\ sent \in Seq(Item) /\ Len(sent) \in Nat /\ b \in Item
      BY <1>1, <1>2 DEF WireTypeOK, Item
    <3>3. /\ m \in Message /\ IsDesc(m) /\ ~IsBlock(m)
          /\ IsNew(m) <=> ~old
          /\ IsOld(m) <=> old
      BY <1>5, <3>2, MessageMade, MessageFields
    <3>4. Grown
      BY <1>1, <3>1, <3>2, <3>3, GrownDesc
    <3>5. WireTypeOK'
      BY <3>1, <3>4 DEF Grown, WireTypeOK
    <3>6. ClientTypeOK' /\ (conns \in 1 .. MaxConns)'
          /\ ClientCoherent' /\ ClientFramed' /\ InOrder' /\ NeverMisses'
      BY <3>4, ClientStays
    <3>7. /\ Len(stream') = Len(stream) + 1 /\ stream'[Len(stream')] = m
          /\ Len(sent') = Len(sent) + 1 /\ sent'[Len(sent')] = b
      BY <3>1, <3>2, <3>3, AppendKeeps
    <3>8. /\ m.seq = Len(sent) + 1 /\ m.num = n /\ m.size = Size[b] /\ m.size # 0
      BY <1>3, <1>5, SizeAssumption DEF BlockDesc
    <3>9. Describes(m, sent')
      BY <1>3, <3>2, <3>7, <3>8 DEF Describes
    <3>10. Framed'
      <4>1. stream # <<>> => ~IsNew(stream[Len(stream)])
        BY <1>1, <2>3 DEF IInv, ServerFramed
      <4>2. Frames(Append(stream, m), Append(sent, b))
        BY <3>1, <3>2, <3>3, <3>8, <3>9, <4>1, FramesDesc DEF IInv, Framed
      <4>3. QED
        BY <3>1, <4>2 DEF Framed
    <3>11. ServerFramed'
      <4>1. old => spc' = "sending" /\ ~IsNew(m)
        BY <1>11, <3>3
      <4>2. ~old => spc' = "data" /\ IsNew(m) /\ todo' = todo
        BY <1>11, <3>3
      <4>3. stream' # <<>>
        BY <3>2, <3>7
      <4>4. QED
        BY <1>2, <1>3, <1>7, <3>7, <4>1, <4>2, <4>3 DEF ServerFramed
    <3>12. ASSUME NEW k \in BlockNum, NEW c
           PROVE  ShowsHere(stream, k, Len(stream), c)
                    => ShowsHere(stream, k, Len(stream), c)'
      <4>1. ASSUME NEW x, Shows(stream, k, Len(stream), x)
            PROVE  Shows(stream', k, Len(stream'), x)
        <5>1. Shows(stream', k, Len(stream), x)
          BY <3>1, <3>2, <3>3, <4>1, ShowsAppend
        <5>2. QED
          BY <3>2, <3>3, <3>5, <3>7, <5>1, ShowsStep DEF WireTypeOK
      <4>2. QED
        BY <4>1 DEF ShowsHere
    <3>13. ServerCoherent'
      <4> SUFFICES ASSUME NEW k \in BlockNum
                   PROVE  \/ (spc = "data" /\ k = Hash[Head(todo)])'
                          \/ ShowsHere(stream, k, Len(stream), blocks[k].data)'
        BY DEF ServerCoherent
      <4>1. ShowsHere(stream, k, Len(stream), blocks[k].data)
        BY <1>1, <2>3 DEF IInv, ServerCoherent
      <4>2. CASE k # n
        BY <1>7, <3>12, <4>1, <4>2 DEF ShowsHere
      <4>3. CASE k = n /\ old
        BY <1>7, <3>12, <4>1, <4>3 DEF ShowsHere
      <4>4. CASE k = n /\ ~old
        BY <1>2, <1>3, <1>11, <4>4
      <4>5. QED
        BY <1>7, <4>2, <4>3, <4>4
    <3>14. OldCoherent'
      <4> SUFFICES ASSUME NEW j \in 1 .. Len(stream'), IsOld(stream'[j])
                   PROVE  ShowsHere(stream, stream[j].num, j, sent[stream[j].seq])'
        BY DEF OldCoherent
      <4>1. CASE j \in 1 .. Len(stream)
        BY <3>4, <4>1, OldStays
      <4>2. CASE j = Len(stream')
        <5>1. old
          BY <3>3, <3>7, <4>2
        <5>2. ShowsHere(stream, n, Len(stream), b)
          BY <1>1, <1>2, <1>7, <2>3, <5>1 DEF IInv, ServerCoherent
        <5>3. ShowsHere(stream, n, Len(stream), b)'
          BY <1>2, <3>12, <5>2 DEF ShowsHere
        <5>4. stream'[j].num = n /\ sent'[stream'[j].seq] = b
          BY <3>7, <3>8, <4>2
        <5>5. QED
          BY <4>2, <5>3, <5>4 DEF ShowsHere
      <4>3. QED
        BY <3>2, <3>7, <4>1, <4>2
    <3>15. QED
      BY <2>1, <3>5, <3>6, <3>10, <3>11, <3>13, <3>14 DEF IInv, TypeOK
  <2>4. QED
    BY <1>11, <2>2, <2>3 DEF WriteOK
<1>12. QED
  BY <1>2, <1>3, <1>4, <1>5, <1>9, <1>10, <1>11 DEF SendBlock

\* The bytes of a block follow its descriptor.
LEMMA SendDataInv ==
  ASSUME IInv, SendData, UNCHANGED <<clientVars, conns>>
  PROVE  IInv'
<1>1. /\ WireTypeOK /\ ServerTypeOK
      /\ spc = "data" /\ todo # <<>> /\ todo \in Seq(Data)
      /\ nfiles' = nfiles /\ sent' = sent
  BY DEF SendData, IInv, TypeOK, ServerTypeOK
<1>2. PICK b \in Data : b = Head(todo)
  BY <1>1, TodoHead
<1>3. PICK n \in BlockNum : n = Hash[b]
  BY DEF BlockNum
<1>4. Tail(todo) \in Seq(Data)
  BY <1>1, TodoHead
<1>5. CASE WriteSignal /\ ServerDies /\ UNCHANGED blocks
  <2>1. ServerTypeOK'
    BY <1>1, <1>5, EmptySeq DEF ServerTypeOK, ServerDies
  <2>2. QED
    BY <1>1, <1>5, <2>1, Unheard DEF WriteSignal, ServerDies
<1>6. ASSUME blocks' = [blocks EXCEPT ![n].old = TRUE],
             todo' = Tail(todo), spc' = "sending"
      PROVE  /\ ServerTypeOK'
             /\ \A k \in BlockNum : blocks'[k].data = blocks[k].data
  <2>1. /\ blocks' \in [BlockNum -> [data : Data \cup {Absent}, old : BOOLEAN]]
        /\ \A k \in BlockNum : blocks'[k].data = blocks[k].data
    BY <1>1, <1>6 DEF ServerTypeOK
  <2>2. QED
    BY <1>1, <1>4, <1>6, <2>1 DEF ServerTypeOK
<1>7. CASE WriteError /\ blocks' = [blocks EXCEPT ![n].old = TRUE]
           /\ todo' = Tail(todo) /\ spc' = "sending"
  BY <1>1, <1>6, <1>7, Unheard DEF WriteError
<1>8. CASE WriteOK(BlockData(b, Len(sent))) /\ blocks' = [blocks EXCEPT ![n].old = TRUE]
           /\ todo' = Tail(todo) /\ spc' = "sending"
  <2>1. CASE sock = "gone"
    BY <1>1, <1>6, <1>8, <2>1, Unheard DEF WriteOK
  <2>2. CASE sock = "open"
    <3>1. PICK m : m = BlockData(b, Len(sent))
      OBVIOUS
    <3>2. stream' = Append(stream, m) /\ sock' = "open"
      BY <1>8, <2>2, <3>1 DEF WriteOK
    <3>3. /\ stream \in Seq(Message) /\ Len(stream) \in Nat
          /\ sent \in Seq(Item) /\ Len(sent) \in Nat
      BY <1>1 DEF WireTypeOK
    <3>4. /\ m \in Message /\ IsBlock(m) /\ ~IsDesc(m) /\ ~IsNew(m) /\ ~IsOld(m)
          /\ m.data = b /\ m.seq = Len(sent)
      BY <3>1, <3>3, MessageMade, MessageFields DEF BlockData, IsNew, IsOld, IsDesc
    <3>5. Grown
      BY <1>1, <3>2, <3>4, GrownData
    <3>6. WireTypeOK'
      BY <3>2, <3>5 DEF Grown, WireTypeOK
    <3>7. ClientTypeOK' /\ (conns \in 1 .. MaxConns)'
          /\ ClientCoherent' /\ ClientFramed' /\ InOrder' /\ NeverMisses'
      BY <3>5, ClientStays
    <3>8. /\ Len(stream') = Len(stream) + 1 /\ stream'[Len(stream')] = m
      BY <3>2, <3>3, <3>4, AppendKeeps
    <3>9. /\ stream # <<>> /\ IsNew(stream[Len(stream)])
          /\ sent[Len(sent)] = b /\ blocks[n].data = b
      BY <1>1, <1>2, <1>3, <2>2 DEF IInv, ServerFramed
    <3>10. Framed'
      <4>1. Frames(Append(stream, m), sent)
        BY <3>3, <3>4, <3>9, FramesData DEF IInv, Framed
      <4>2. QED
        BY <1>1, <3>2, <4>1 DEF Framed
    <3>11. ServerFramed'
      BY <1>8, <3>4, <3>8 DEF ServerFramed
    <3>12. ServerCoherent'
      <4> SUFFICES ASSUME NEW k \in BlockNum
                   PROVE  ShowsHere(stream, k, Len(stream), blocks[k].data)'
        BY DEF ServerCoherent
      <4>1. blocks'[k].data = blocks[k].data
        BY <1>6, <1>8
      <4>2. CASE k = n
        <5>1. Len(stream') \in 1 .. Len(stream') /\ stream' \in Seq(Message)
          BY <3>3, <3>6, <3>8 DEF WireTypeOK
        <5>2. Shows(stream', Hash[m.data], Len(stream'), m.data)
          BY <3>4, <3>8, <5>1, ShowsBlock
        <5>3. QED
          BY <1>3, <3>4, <3>9, <4>1, <4>2, <5>2 DEF ShowsHere
      <4>3. CASE k # n
        <5>1. ShowsHere(stream, k, Len(stream), blocks[k].data)
          BY <1>1, <1>2, <1>3, <2>2, <4>3 DEF IInv, ServerCoherent
        <5>2. ASSUME NEW x, Shows(stream, k, Len(stream), x)
              PROVE  Shows(stream', k, Len(stream'), x)
          <6>1. Shows(stream', k, Len(stream), x)
            BY <3>2, <3>3, <3>4, <5>2, ShowsAppend
          <6>2. QED
            BY <1>3, <3>3, <3>4, <3>6, <3>8, <4>3, <6>1, ShowsStep DEF WireTypeOK
        <5>3. QED
          BY <4>1, <5>1, <5>2 DEF ShowsHere
      <4>4. QED
        BY <4>2, <4>3
    <3>13. OldCoherent'
      <4> SUFFICES ASSUME NEW j \in 1 .. Len(stream'), IsOld(stream'[j])
                   PROVE  ShowsHere(stream, stream[j].num, j, sent[stream[j].seq])'
        BY DEF OldCoherent
      <4>1. j \in 1 .. Len(stream)
        BY <3>3, <3>4, <3>8
      <4>2. QED
        BY <3>5, <4>1, OldStays
    <3>14. QED
      BY <1>6, <1>8, <3>6, <3>7, <3>10, <3>11, <3>12, <3>13 DEF IInv, TypeOK
  <2>3. QED
    BY <1>8, <2>1, <2>2 DEF WriteOK
<1>9. QED
  BY <1>2, <1>3, <1>5, <1>7, <1>8 DEF SendData

\* The empty descriptor that ends a file.
LEMMA SendEofInv ==
  ASSUME IInv, SendEof, UNCHANGED <<clientVars, conns>>
  PROVE  IInv'
<1>1. /\ WireTypeOK /\ ServerTypeOK /\ spc = "sending"
      /\ nfiles' = nfiles /\ blocks' = blocks
  BY DEF SendEof, IInv, TypeOK
<1>2. ASSUME spc' \in {"idle", "down"}, todo' = todo \/ todo' = <<>>
      PROVE  ServerTypeOK'
  BY <1>1, <1>2, EmptySeq DEF ServerTypeOK
<1>3. CASE WriteError /\ spc' = "idle" /\ UNCHANGED <<todo, sent>>
  BY <1>2, <1>3, Unheard DEF WriteError
<1>4. CASE WriteSignal /\ ServerDies /\ UNCHANGED sent
  BY <1>2, <1>4, Unheard DEF WriteSignal, ServerDies
<1>5. CASE /\ WriteOK(EofDesc(Len(sent) + 1))
           /\ sent' = IF sock = "open" THEN Append(sent, EOF) ELSE sent
           /\ spc' = "idle"
           /\ UNCHANGED todo
  <2>1. CASE sock = "gone"
    BY <1>2, <1>5, <2>1, Unheard DEF WriteOK
  <2>2. CASE sock = "open"
    <3>1. PICK m : m = EofDesc(Len(sent) + 1)
      OBVIOUS
    <3>2. stream' = Append(stream, m) /\ sent' = Append(sent, EOF) /\ sock' = "open"
      BY <1>5, <2>2, <3>1 DEF WriteOK
    <3>3. /\ stream \in Seq(Message) /\ Len(stream) \in Nat
          /\ sent \in Seq(Item) /\ Len(sent) \in Nat /\ EOF \in Item
      BY <1>1 DEF WireTypeOK, Item
    <3>4. /\ m \in Message /\ IsDesc(m) /\ ~IsBlock(m) /\ ~IsNew(m) /\ ~IsOld(m)
          /\ m.seq = Len(sent) + 1 /\ m.size = 0
      <4>1. m \in Message /\ m.kind = "desc" /\ m.size = 0 /\ m.seq = Len(sent) + 1
        BY <3>1, <3>3, EofMade
      <4>2. QED
        BY <4>1 DEF IsDesc, IsBlock, IsNew, IsOld
    <3>5. Grown
      BY <1>1, <3>2, <3>3, <3>4, GrownDesc
    <3>6. WireTypeOK'
      BY <3>2, <3>5 DEF Grown, WireTypeOK
    <3>7. ClientTypeOK' /\ (conns \in 1 .. MaxConns)'
          /\ ClientCoherent' /\ ClientFramed' /\ InOrder' /\ NeverMisses'
      BY <3>5, ClientStays
    <3>8. /\ Len(stream') = Len(stream) + 1 /\ stream'[Len(stream')] = m
          /\ Len(sent') = Len(sent) + 1 /\ sent'[Len(sent')] = EOF
      BY <3>2, <3>3, <3>4, AppendKeeps
    <3>9. Framed'
      <4>1. stream # <<>> => ~IsNew(stream[Len(stream)])
        BY <1>1, <2>2 DEF IInv, ServerFramed
      <4>2. Describes(m, sent')
        BY <3>3, <3>4, <3>8 DEF Describes
      <4>3. Frames(Append(stream, m), Append(sent, EOF))
        BY <3>2, <3>3, <3>4, <4>1, <4>2, FramesDesc DEF IInv, Framed
      <4>4. QED
        BY <3>2, <4>3 DEF Framed
    <3>10. ServerFramed'
      BY <1>5, <3>4, <3>8 DEF ServerFramed
    <3>11. ServerCoherent'
      <4> SUFFICES ASSUME NEW k \in BlockNum
                   PROVE  ShowsHere(stream, k, Len(stream), blocks[k].data)'
        BY DEF ServerCoherent
      <4>1. ShowsHere(stream, k, Len(stream), blocks[k].data)
        BY <1>1, <2>2 DEF IInv, ServerCoherent
      <4>2. ASSUME NEW x, Shows(stream, k, Len(stream), x)
            PROVE  Shows(stream', k, Len(stream'), x)
        <5>1. Shows(stream', k, Len(stream), x)
          BY <3>2, <3>3, <3>4, <4>2, ShowsAppend
        <5>2. QED
          BY <3>3, <3>4, <3>6, <3>8, <5>1, ShowsStep DEF WireTypeOK
      <4>3. QED
        BY <1>1, <4>1, <4>2 DEF ShowsHere
    <3>12. OldCoherent'
      <4> SUFFICES ASSUME NEW j \in 1 .. Len(stream'), IsOld(stream'[j])
                   PROVE  ShowsHere(stream, stream[j].num, j, sent[stream[j].seq])'
        BY DEF OldCoherent
      <4>1. j \in 1 .. Len(stream)
        BY <3>3, <3>4, <3>8
      <4>2. QED
        BY <3>5, <4>1, OldStays
    <3>13. QED
      BY <1>2, <1>5, <3>6, <3>7, <3>9, <3>10, <3>11, <3>12 DEF IInv, TypeOK
  <2>3. QED
    BY <1>5, <2>1, <2>2 DEF WriteOK
<1>6. QED
  BY <1>3, <1>4, <1>5 DEF SendEof

\* The next client: the server's table stays, everything else starts anew.
LEMMA ReconnectInv ==
  ASSUME IInv, Reconnect
  PROVE  IInv'
<1> USE DEF Reconnect, WireConnect, ClientConnect
<1>1. EofDesc(0) \in Message /\ EofDesc(0).kind = "desc"
  BY EofMade
<1>2. /\ spc = "idle" /\ UNCHANGED serverVars
      /\ conns \in 1 .. MaxConns /\ conns < MaxConns /\ conns' = conns + 1
      /\ ServerTypeOK
  BY DEF IInv, TypeOK
<1>3. (conns \in 1 .. MaxConns)' /\ conns' > 1
  BY <1>2, LinkAssumption
<1>4. WireTypeOK' /\ ServerTypeOK' /\ ClientTypeOK'
  <2>1. HdrSize \in Nat /\ HdrSize > 0
    BY SizeAssumption
  <2>2. <<>> \in Seq(Data \cup {Junk}) /\ <<>> \in Seq(Item \cup {Junk}) /\ Len(<<>>) = 0
    OBVIOUS
  <2>3. WireTypeOK' /\ ServerTypeOK'
    BY <1>2, EmptySeq DEF WireTypeOK, ServerTypeOK, serverVars
  <2>4. cache' \in [Number -> Data \cup {Junk, Absent}]
    OBVIOUS
  <2>5. rd' \in 0 .. Len(stream')
    BY <2>2
  <2>6. ClientTypeOK'
    BY <1>1, <2>1, <2>2, <2>4, <2>5 DEF ClientTypeOK
  <2>7. QED
    BY <2>3, <2>6
<1>5. \A n : Shows(<<>>, n, 0, Absent)
  BY DEF Shows
<1>6. Framed' /\ ServerFramed' /\ OldCoherent'
  BY <1>2 DEF Framed, Frames, ServerFramed, OldCoherent, serverVars
<1>7. ServerCoherent'
  BY <1>3, <1>5 DEF ServerCoherent, ShowsHere
<1>8. ClientCoherent'
  BY <1>5, NumbersUsed DEF ClientCoherent
<1>9. ClientFramed' /\ InOrder' /\ NeverMisses'
  BY DEF ClientFramed, InOrder, NeverMisses
<1>10. QED
  BY <1>3, <1>4, <1>6, <1>7, <1>8, <1>9 DEF IInv, TypeOK

(***************************************************************************)
(* What the client finds next in the stream.                               *)
(***************************************************************************)

\* Where a header is expected there is one, and it is that of the next item.
LEMMA NextHeader ==
  ASSUME IInv, ~astray, cpc \in {"idle", "header"}, rd < Len(stream)
  PROVE  /\ stream[rd + 1] \in Message /\ IsDesc(stream[rd + 1])
         /\ stream[rd + 1].seq = Len(recvd) + 1
         /\ Describes(stream[rd + 1], sent)
<1>1. /\ stream \in Seq(Message) /\ Len(stream) \in Nat /\ rd \in Nat
      /\ rd + 1 \in 1 .. Len(stream) /\ Len(recvd) \in Nat
  BY DEF IInv, TypeOK, WireTypeOK, ClientTypeOK
<1>2. stream[rd + 1] \in Message
  BY <1>1
<1>3. IsDesc(stream[rd + 1])
  <2>1. SUFFICES ASSUME IsBlock(stream[rd + 1]) PROVE FALSE
    BY <1>2, MessageFields
  <2>2. rd > 0 /\ IsNew(stream[rd])
    BY <1>1, <2>1 DEF IInv, Framed, Frames
  <2>3. QED
    BY <2>2 DEF IInv, ClientFramed
<1>4. stream[rd + 1].seq = Len(recvd) + 1
  <2>1. CASE rd = 0
    BY <1>1, <2>1 DEF IInv, Framed, Frames, ClientFramed
  <2>2. CASE rd > 0
    <3>1. stream[rd + 1].seq = stream[rd].seq + 1
      BY <1>1, <1>3, <2>2 DEF IInv, Framed, Frames
    <3>2. Len(recvd) = stream[rd].seq
      BY <1>1, <2>2 DEF IInv, ClientFramed
    <3>3. QED
      BY <3>1, <3>2
  <2>3. QED
    BY <1>1, <2>1, <2>2
<1>5. QED
  BY <1>1, <1>2, <1>3, <1>4 DEF IInv, Framed, Frames

\* An old header is answered with its item, unless the table has nothing.
LEMMA OldHeader ==
  ASSUME IInv, ~astray, cpc \in {"idle", "header"}, rd < Len(stream),
         IsOld(stream[rd + 1])
  PROVE  /\ sent[Len(recvd) + 1] \in Data
         /\ \/ cache[stream[rd + 1].num] = sent[Len(recvd) + 1]
            \/ conns > 1 /\ cache[stream[rd + 1].num] = Absent
<1> DEFINE d == stream[rd + 1]
<1>1. /\ stream \in Seq(Message) /\ Len(stream) \in Nat /\ rd \in Nat
      /\ rd + 1 \in 1 .. Len(stream) /\ rd \in 0 .. Len(stream)
  BY DEF IInv, TypeOK, WireTypeOK, ClientTypeOK
<1>2. /\ d \in Message /\ IsDesc(d) /\ ~IsBlock(d)
      /\ d.seq = Len(recvd) + 1 /\ Describes(d, sent) /\ d.size # 0
  BY NextHeader, MessageFields DEF IsOld
<1>3. /\ sent[Len(recvd) + 1] \in Data /\ Hash[sent[Len(recvd) + 1]] = d.num
  BY <1>2 DEF Describes
<1>4. ShowsHere(stream, d.num, rd + 1, sent[Len(recvd) + 1])
  BY <1>1, <1>2 DEF IInv, OldCoherent
<1>5. ASSUME NEW c, Shows(stream, d.num, rd + 1, c)
      PROVE  cache[d.num] = c
  <2>1. Shows(stream, d.num, rd, c)
    BY <1>1, <1>2, <1>5, ShowsStep
  <2>2. Shows(stream, d.num, rd, cache[d.num])
    BY <1>3 DEF IInv, ClientCoherent, BlockNum
  <2>3. QED
    BY <1>1, <2>1, <2>2, ShowsUnique
<1>6. QED
  BY <1>3, <1>4, <1>5 DEF ShowsHere

\* After a new header comes the data of its block.
LEMMA NextData ==
  ASSUME IInv, ~astray, cpc = "data", rd < Len(stream)
  PROVE  /\ stream[rd + 1] \in Message /\ IsBlock(stream[rd + 1])
         /\ stream[rd + 1].data \in Data
         /\ stream[rd + 1].seq = Len(recvd) + 1
         /\ stream[rd + 1].data = sent[Len(recvd) + 1]
         /\ Len(recvd) + 1 \in 1 .. Len(sent)
         /\ desc.num = Hash[stream[rd + 1].data]
         /\ desc.size = Size[stream[rd + 1].data]
         /\ desc.num \in BlockNum
<1>1. /\ stream \in Seq(Message) /\ Len(stream) \in Nat /\ rd \in Nat
      /\ rd + 1 \in 1 .. Len(stream) /\ Len(recvd) \in Nat
  BY DEF IInv, TypeOK, WireTypeOK, ClientTypeOK
<1>2. /\ rd > 0 /\ IsNew(stream[rd]) /\ desc = stream[rd]
      /\ Len(recvd) + 1 = stream[rd].seq
  BY <1>1 DEF IInv, ClientFramed
<1>3. rd \in 1 .. Len(stream) /\ Describes(stream[rd], sent)
  BY <1>1, <1>2 DEF IInv, Framed, Frames, IsNew, IsDesc
<1>4. stream[rd + 1] \in Message /\ IsBlock(stream[rd + 1])
  <2>1. stream[rd + 1] \in Message
    BY <1>1
  <2>2. ~IsDesc(stream[rd + 1])
    BY <1>1, <1>2 DEF IInv, Framed, Frames
  <2>3. QED
    BY <2>1, <2>2, MessageFields
<1>5. /\ stream[rd + 1].seq = stream[rd].seq
      /\ stream[rd + 1].data = sent[stream[rd].seq]
  BY <1>1, <1>4 DEF IInv, Framed, Frames
<1>6. /\ sent[stream[rd].seq] \in Data /\ Hash[sent[stream[rd].seq]] = desc.num
      /\ Size[sent[stream[rd].seq]] = desc.size
      /\ stream[rd].seq \in 1 .. Len(sent)
  BY <1>2, <1>3 DEF Describes, IsNew
<1>7. QED
  BY <1>2, <1>4, <1>5, <1>6 DEF BlockNum

(***************************************************************************)
(* Steps of the client leave the server's variables alone.                 *)
(***************************************************************************)

LEMMA ServerStays ==
  ASSUME IInv, UNCHANGED <<serverVars, conns, stream, sent>>,
         sock' = sock \/ (sock = "open" /\ sock' = "gone")
  PROVE  /\ WireTypeOK' /\ ServerTypeOK' /\ (conns \in 1 .. MaxConns)'
         /\ Framed' /\ ServerFramed' /\ ServerCoherent' /\ OldCoherent'
<1>1. WireTypeOK' /\ ServerTypeOK' /\ (conns \in 1 .. MaxConns)'
  BY DEF IInv, TypeOK, WireTypeOK, ServerTypeOK, serverVars
<1>2. Framed' /\ ServerFramed'
  BY DEF IInv, Framed, ServerFramed, serverVars
<1>3. sock' = "open" => sock = "open"
  OBVIOUS
<1>4. ServerCoherent'
  BY <1>3 DEF IInv, ServerCoherent, ShowsHere, serverVars
<1>5. OldCoherent'
  BY DEF IInv, OldCoherent, ShowsHere
<1>6. QED
  BY <1>1, <1>2, <1>4, <1>5

\* A client that goes on as before keeps what it knows of the stream, and one
\* that is astray knows nothing.
LEMMA ClientKeeps ==
  ASSUME IInv, UNCHANGED <<conns, stream, sent>>,
         astray => astray',
         ~astray' => /\ UNCHANGED <<cache, rd, desc, recvd>>
                     /\ off' = got'
                     /\ file' \in Seq(Data)
                     /\ cpc' = "data" => cpc = "data"
                     /\ cpc' \in {"idle", "header"} => cpc \in {"idle", "header"}
                     /\ cpc' # "dead"
  PROVE  ClientCoherent' /\ ClientFramed' /\ InOrder' /\ NeverMisses'
<1>1. CASE astray'
  BY <1>1 DEF ClientCoherent, ClientFramed, InOrder, NeverMisses
<1>2. CASE ~astray'
  <2>1. ClientCoherent'
    BY <1>2 DEF IInv, ClientCoherent
  <2>2. ClientFramed'
    BY <1>2 DEF IInv, ClientFramed
  <2>3. InOrder' /\ NeverMisses'
    BY <1>2 DEF IInv, InOrder, NeverMisses
  <2>4. QED
    BY <2>1, <2>2, <2>3
<1>3. QED
  BY <1>1, <1>2

LEMMA StartReceiveInv ==
  ASSUME IInv, StartReceive, UNCHANGED <<serverVars, conns>>
  PROVE  IInv'
<1> USE DEF StartReceive, wireVars
<1>1. ClientTypeOK'
  BY EmptySeq, SizeAssumption DEF IInv, TypeOK, ClientTypeOK
<1>2. ClientCoherent' /\ ClientFramed' /\ InOrder' /\ NeverMisses'
  BY EmptySeq, ClientKeeps DEF IInv, ClientFramed
<1>3. QED
  BY <1>1, <1>2, ServerStays DEF IInv, TypeOK

\* Some bytes more were read: the place in the stream is a place in it again.
LEMMA TakeType ==
  ASSUME IInv, NEW k \in Nat, k > 0, Take(k)
  PROVE  /\ rd' \in 0 .. Len(stream')
         /\ off' \in Nat
         /\ (off # 0 => rd < Len(stream) /\ off < Bytes(stream[rd + 1]))'
         /\ UNCHANGED <<astray, stream, sent>>
<1>1. /\ stream \in Seq(Message) /\ rd \in Nat /\ off \in Nat /\ rd < Len(stream)
      /\ UNCHANGED <<astray, stream, sent>>
  BY DEF IInv, TypeOK, WireTypeOK, ClientTypeOK, Take
<1>2. rd + 1 \in 1 .. Len(stream) /\ stream[rd + 1] \in Message
  BY <1>1
<1>3. PICK last \in Nat : last = Bytes(stream[rd + 1])
  BY <1>2, BytesTaken
<1>4. /\ off + k <= last
      /\ rd' = IF off + k = last THEN rd + 1 ELSE rd
      /\ off' = IF off + k = last THEN 0 ELSE off + k
  BY <1>3 DEF Take
<1>5. CASE off + k = last
  BY <1>1, <1>2, <1>4, <1>5
<1>6. CASE off + k # last
  BY <1>1, <1>2, <1>3, <1>4, <1>6
<1>7. QED
  BY <1>5, <1>6

\* How much of a message a client that is not astray has read, and how much of it
\* is missing.
LEMMA OnCourse ==
  ASSUME IInv, ~astray, cpc \in {"header", "data"}, rd < Len(stream)
  PROVE  /\ off = got /\ off < Bytes(stream[rd + 1])
         /\ Bytes(stream[rd + 1]) = IF cpc = "header" THEN HdrSize ELSE desc.size
         /\ stream[rd + 1].kind = IF cpc = "header" THEN "desc" ELSE "data"
<1>1. rd + 1 \in 1 .. Len(stream) /\ stream[rd + 1] \in Message /\ off \in Nat
  BY DEF IInv, TypeOK, WireTypeOK, ClientTypeOK
<1>2. off = got /\ off < Bytes(stream[rd + 1])
  BY <1>1, BytesTaken DEF IInv, ClientFramed, TypeOK, ClientTypeOK
<1>3. CASE cpc = "header"
  BY <1>2, <1>3, NextHeader DEF IsDesc, Bytes
<1>4. CASE cpc = "data"
  BY <1>2, <1>4, NextData DEF IsBlock, Bytes
<1>5. QED
  BY <1>2, <1>3, <1>4

\* The need bytes that are being read.
LEMMA ReadPartInv ==
  ASSUME IInv, NEW need \in Nat, ReadPart(need), cpc \in {"header", "data"},
         need = IF cpc = "header" THEN HdrSize ELSE desc.size,
         UNCHANGED <<serverVars, conns>>
  PROVE  IInv'
<1> USE DEF ReadPart
<1>1. got \in Nat /\ off \in Nat
  BY DEF IInv, TypeOK, ClientTypeOK
<1>2. PICK k \in 1 .. need - got - 1 : Take(k) /\ got' = got + k
  OBVIOUS
<1>3. k \in Nat /\ k > 0 /\ got + k < need
  BY <1>1, <1>2
<1>4. /\ rd' \in 0 .. Len(stream')
      /\ off' \in Nat
      /\ (off # 0 => rd < Len(stream) /\ off < Bytes(stream[rd + 1]))'
      /\ UNCHANGED <<astray, stream, sent>>
  BY <1>2, <1>3, TakeType
<1>5. ClientTypeOK'
  BY <1>1, <1>2, <1>3, <1>4 DEF IInv, TypeOK, ClientTypeOK
<1>6. ~astray => rd' = rd /\ off' = got'
  <2> SUFFICES ASSUME ~astray
               PROVE  rd' = rd /\ off' = got'
    OBVIOUS
  <2>1. rd < Len(stream)
    BY <1>2 DEF Take
  <2>2. off = got /\ Bytes(stream[rd + 1]) = need
    BY <2>1, OnCourse
  <2>3. QED
    BY <1>2, <1>3, <2>2 DEF Take
<1>7. ClientCoherent' /\ ClientFramed' /\ InOrder' /\ NeverMisses'
  BY <1>4, <1>6, ClientKeeps DEF IInv, InOrder
<1>8. QED
  BY <1>4, <1>5, <1>7, ServerStays DEF IInv, TypeOK

LEMMA ReadFailsInv ==
  ASSUME IInv, ReadFails, UNCHANGED <<serverVars, conns>>
  PROVE  IInv'
<1> USE DEF ReadFails, ReturnNull, wireVars
<1>1. ClientTypeOK'
  BY DEF IInv, TypeOK, ClientTypeOK
<1>2. ClientCoherent' /\ ClientFramed' /\ InOrder' /\ NeverMisses'
  BY ClientKeeps DEF IInv, ClientFramed, InOrder
<1>3. QED
  BY <1>1, <1>2, ServerStays DEF IInv, TypeOK

LEMMA ClientClosesInv ==
  ASSUME IInv, ClientCloses, UNCHANGED <<serverVars, conns>>
  PROVE  IInv'
<1> USE DEF ClientCloses, Hangup
<1>1. ClientTypeOK'
  BY DEF IInv, TypeOK, ClientTypeOK
<1>2. ClientCoherent' /\ ClientFramed' /\ InOrder' /\ NeverMisses'
  BY ClientKeeps DEF IInv, ClientFramed, InOrder
<1>3. QED
  BY <1>1, <1>2, ServerStays DEF IInv, TypeOK

\* Receiving the next item keeps what was received a prefix of what was sent.
LEMMA InOrderStep ==
  ASSUME IInv, ~astray, UNCHANGED sent, Len(recvd) < Len(sent),
         recvd' = Append(recvd, sent[Len(recvd) + 1]), file' \in Seq(Data)
  PROVE  InOrder' /\ recvd' \in Seq(Item \cup {Junk}) /\ Len(recvd') = Len(recvd) + 1
<1>1. /\ recvd \in Seq(Item \cup {Junk}) /\ sent \in Seq(Item)
      /\ Len(recvd) \in Nat /\ Len(sent) \in Nat
  BY DEF IInv, TypeOK, WireTypeOK, ClientTypeOK
<1>2. sent[Len(recvd) + 1] \in Item \cup {Junk}
  BY <1>1
<1>3. /\ recvd' \in Seq(Item \cup {Junk}) /\ Len(recvd') = Len(recvd) + 1
      /\ \A i \in 1 .. Len(recvd) : recvd'[i] = recvd[i]
      /\ recvd'[Len(recvd) + 1] = sent[Len(recvd) + 1]
  BY <1>1, <1>2, AppendKeeps
<1>4. \A k \in 1 .. Len(recvd) + 1 : k \in 1 .. Len(recvd) \/ k = Len(recvd) + 1
  BY <1>1
<1>5. QED
  BY <1>1, <1>3, <1>4 DEF IInv, InOrder

\* After a header the table still is what was read.
LEMMA CoherentAfterHeader ==
  ASSUME IInv, ~astray, cpc = "header", rd < Len(stream),
         rd' = rd + 1, UNCHANGED <<cache, stream>>
  PROVE  ClientCoherent'
<1>1. /\ stream \in Seq(Message) /\ rd \in Nat /\ ~IsBlock(stream[rd + 1])
  BY NextHeader, MessageFields DEF IInv, TypeOK, WireTypeOK, ClientTypeOK
<1>2. QED
  BY <1>1, ShowsStep DEF IInv, ClientCoherent

\* The read that completes what is read leaves the client at a place in the stream.
LEMMA ReadLastType ==
  ASSUME IInv, cpc \in {"header", "data"},
         ReadLast(IF cpc = "header" THEN HdrSize ELSE desc.size)
  PROVE  /\ rd' \in 0 .. Len(stream')
         /\ off' \in Nat
         /\ (off # 0 => rd < Len(stream) /\ off < Bytes(stream[rd + 1]))'
         /\ got' = 0
         /\ rd < Len(stream)
         /\ UNCHANGED <<astray, stream, sent>>
<1> DEFINE need == IF cpc = "header" THEN HdrSize ELSE desc.size
<1>1. got \in Nat /\ need \in Nat /\ got < need
  BY SizeAssumption, MessageFields DEF IInv, TypeOK, ClientTypeOK, IsDesc
<1>2. need - got \in Nat /\ need - got > 0
  BY <1>1
<1> HIDE DEF need
<1>3. Take(need - got) /\ got' = 0
  BY DEF ReadLast, need
<1>4. rd < Len(stream)
  BY <1>3 DEF Take
<1>5. QED
  BY <1>2, <1>3, <1>4, TakeType

\* On its course a client completes what it reads at the end of a message.
LEMMA ReadLastOnCourse ==
  ASSUME IInv, ~astray, cpc \in {"header", "data"},
         ReadLast(IF cpc = "header" THEN HdrSize ELSE desc.size)
  PROVE  /\ rd' = rd + 1 /\ off' = 0
         /\ cpc = "header" => Headers = {stream[rd + 1]}
         /\ cpc = "data" => Contents = {stream[rd + 1].data}
<1> DEFINE need == IF cpc = "header" THEN HdrSize ELSE desc.size
<1>1. rd < Len(stream)
  BY ReadLastType
<1>2. /\ off = got /\ off < Bytes(stream[rd + 1]) /\ Bytes(stream[rd + 1]) = need
      /\ stream[rd + 1].kind = IF cpc = "header" THEN "desc" ELSE "data"
  BY <1>1, OnCourse
<1>3. got \in Nat /\ need \in Nat
  BY SizeAssumption, MessageFields DEF IInv, TypeOK, ClientTypeOK, IsDesc
<1>4. off + (need - got) = Bytes(stream[rd + 1])
  BY <1>2, <1>3
<1>5. rd' = rd + 1 /\ off' = 0
  BY <1>4 DEF ReadLast, Take
<1>6. QED
  BY <1>2, <1>5 DEF Headers, Contents, Complete

\* Whatever the bytes say, a header is a descriptor, and what is taken for data is
\* the content of a block, or was one to no one.
LEMMA WhatIsRead ==
  ASSUME IInv, cpc \in {"header", "data"},
         ReadLast(IF cpc = "header" THEN HdrSize ELSE desc.size)
  PROVE  /\ \A d \in Headers : d \in Message /\ IsDesc(d)
         /\ \A b \in Contents : b \in Data \cup {Junk}
<1>1. stream[rd + 1] \in Message
  BY ReadLastType DEF IInv, TypeOK, WireTypeOK, ClientTypeOK
<1>2. ASSUME NEW d \in Headers
      PROVE  d \in Message /\ IsDesc(d)
  <2>1. CASE Complete("desc", HdrSize)
    BY <1>1, <2>1 DEF Headers, Complete, IsDesc
  <2>2. CASE ~Complete("desc", HdrSize)
    BY <2>2 DEF Headers, IsDesc, Message
  <2>3. QED
    BY <2>1, <2>2
<1>3. ASSUME NEW b \in Contents
      PROVE  b \in Data \cup {Junk}
  <2>1. CASE Complete("data", desc.size)
    BY <1>1, <2>1, MessageFields DEF Contents, Complete, IsBlock
  <2>2. CASE ~Complete("data", desc.size)
    BY <2>2 DEF Contents
  <2>3. QED
    BY <2>1, <2>2
<1>4. QED
  BY <1>2, <1>3

\* A step of a client that is astray matters to its types only.
LEMMA AstrayStep ==
  ASSUME IInv, astray, astray', ClientTypeOK',
         UNCHANGED <<serverVars, conns, stream, sent>>,
         sock' = sock \/ (sock = "open" /\ sock' = "gone")
  PROVE  IInv'
BY ServerStays DEF IInv, TypeOK, ClientCoherent, ClientFramed, InOrder, NeverMisses

\* What a file and the items are after a block more.
LEMMA DeliverType ==
  ASSUME IInv, NEW b \in Data \cup {Junk}, Deliver(b)
  PROVE  /\ file' \in Seq(Data \cup {Junk}) /\ recvd' \in Seq(Item \cup {Junk})
         /\ nblocks' \in Nat /\ ret' \in Nat /\ cpc' = "header"
         /\ (~astray /\ b \in Data) => file' \in Seq(Data)
BY DEF Deliver, IInv, TypeOK, ClientTypeOK, InOrder, Item

\* receive_block read a header: of the end of a file, of an old block that is
\* in the table, or of a new one.
LEMMA HeaderReadType ==
  ASSUME IInv, HeaderRead
  PROVE  ClientTypeOK'
<1>1. /\ cpc = "header" /\ ReadLast(HdrSize) /\ ClientTypeOK
      /\ HdrSize > 0
  BY SizeAssumption DEF HeaderRead, IInv, TypeOK
<1>2. /\ rd' \in 0 .. Len(stream')
      /\ off' \in Nat
      /\ (off # 0 => rd < Len(stream) /\ off < Bytes(stream[rd + 1]))'
      /\ got' = 0
      /\ UNCHANGED <<astray, stream, sent>>
  BY <1>1, ReadLastType
<1>3. PICK d \in Headers :
         \/ /\ d.size = 0
            /\ ReturnNull
            /\ recvd' = Append(recvd, EOF)
            /\ UNCHANGED <<cache, desc>>
         \/ /\ d.size # 0 /\ d.old
            /\ cache[d.num] # Absent
            /\ Deliver(cache[d.num])
            /\ UNCHANGED <<cache, desc>>
         \/ /\ d.size # 0 /\ ~d.old
            /\ desc' = d
            /\ cpc' = "data"
            /\ UNCHANGED <<cache, file, nblocks, ret, recvd>>
  BY DEF HeaderRead
<1>4. d \in Message /\ d.kind = "desc" /\ d.num \in Number /\ d.size \in Nat
  <2>1. d \in Message /\ IsDesc(d)
    BY <1>1, WhatIsRead
  <2>2. QED
    BY <2>1, HashAssumption, SizeAssumption DEF Message, IsDesc
<1>5. CASE ReturnNull /\ recvd' = Append(recvd, EOF) /\ UNCHANGED <<cache, desc>>
  BY <1>1, <1>2, <1>5 DEF ClientTypeOK, ReturnNull, Item
<1>6. CASE cache[d.num] # Absent /\ Deliver(cache[d.num]) /\ UNCHANGED <<cache, desc>>
  <2>1. cache[d.num] \in Data \cup {Junk}
    BY <1>1, <1>4, <1>6 DEF ClientTypeOK
  <2>2. /\ file' \in Seq(Data \cup {Junk}) /\ recvd' \in Seq(Item \cup {Junk})
        /\ nblocks' \in Nat /\ ret' \in Nat /\ cpc' = "header"
    BY <1>6, <2>1, DeliverType
  <2>3. QED
    BY <1>1, <1>2, <1>6, <2>2 DEF ClientTypeOK
<1>7. CASE /\ d.size # 0 /\ desc' = d /\ cpc' = "data"
           /\ UNCHANGED <<cache, file, nblocks, ret, recvd>>
  BY <1>1, <1>2, <1>4, <1>7 DEF ClientTypeOK
<1>8. QED
  BY <1>3, <1>5, <1>6, <1>7

LEMMA HeaderReadInv ==
  ASSUME IInv, HeaderRead, UNCHANGED <<serverVars, conns>>
  PROVE  /\ IInv'
         /\ ~astray => \/ UNCHANGED recvd
                       \/ /\ Len(recvd) < Len(sent)
                          /\ recvd' = Append(recvd, sent[Len(recvd) + 1])
<1>1. PICK d : d = stream[rd + 1]
  OBVIOUS
<1>2. /\ cpc = "header" /\ ReadLast(HdrSize) /\ rd < Len(stream)
      /\ got' = 0 /\ UNCHANGED <<astray, stream, sent, sock>>
      /\ ClientTypeOK /\ ClientTypeOK' /\ rd \in Nat /\ Len(stream) \in Nat
      /\ stream \in Seq(Message) /\ Len(recvd) \in Nat
  <2>1. cpc = "header" /\ ReadLast(HdrSize) /\ sock' = sock
    BY DEF HeaderRead
  <2>2. rd < Len(stream) /\ got' = 0 /\ UNCHANGED <<astray, stream, sent>>
    BY <2>1, ReadLastType
  <2>3. ClientTypeOK' /\ ClientTypeOK /\ WireTypeOK
    BY HeaderReadType DEF IInv, TypeOK
  <2>4. rd \in Nat /\ Len(stream) \in Nat /\ stream \in Seq(Message)
    BY <2>3 DEF ClientTypeOK, WireTypeOK
  <2>5. Len(recvd) \in Nat
    BY <2>3 DEF ClientTypeOK
  <2>6. QED
    BY <2>1, <2>2, <2>3, <2>4, <2>5
<1>3. /\ WireTypeOK' /\ ServerTypeOK' /\ (conns \in 1 .. MaxConns)'
      /\ Framed' /\ ServerFramed' /\ ServerCoherent' /\ OldCoherent'
  BY <1>2, ServerStays
<1>4. CASE astray
  BY <1>2, <1>4, AstrayStep
<1>5. CASE ~astray
  <2>1. rd' = rd + 1 /\ off' = 0 /\ Headers = {d}
    BY <1>1, <1>2, <1>5, ReadLastOnCourse
  <2>2. /\ d \in Message /\ IsDesc(d) /\ d.seq = Len(recvd) + 1 /\ Describes(d, sent)
    BY <1>1, <1>2, <1>5, NextHeader
  <2>3. Len(recvd) < Len(sent)
    BY <1>2, <2>2 DEF Describes
  <2>4. stream'[rd'] = d /\ rd' > 0
    BY <1>1, <1>2, <2>1
  <2>5. CASE /\ d.size = 0
             /\ ReturnNull
             /\ recvd' = Append(recvd, EOF)
             /\ UNCHANGED <<cache, desc>>
    <3>1. recvd' = Append(recvd, sent[Len(recvd) + 1]) /\ file' \in Seq(Data)
      BY <1>5, <2>2, <2>5 DEF Describes, ReturnNull, IInv, InOrder
    <3>2. InOrder' /\ Len(recvd') = Len(recvd) + 1
      BY <1>2, <1>5, <2>3, <3>1, InOrderStep
    <3>3. ClientFramed'
      BY <1>2, <2>1, <2>2, <2>4, <2>5, <3>2 DEF ClientFramed, ReturnNull, IsNew
    <3>4. ClientCoherent' /\ NeverMisses'
      BY <1>2, <1>5, <2>1, <2>5, CoherentAfterHeader DEF NeverMisses, ReturnNull
    <3>5. QED
      BY <1>2, <1>3, <2>3, <3>1, <3>2, <3>3, <3>4 DEF IInv, TypeOK
  <2>6. CASE /\ d.size # 0 /\ d.old
             /\ cache[d.num] # Absent
             /\ Deliver(cache[d.num])
             /\ UNCHANGED <<cache, desc>>
    <3>1. cache[d.num] = sent[Len(recvd) + 1] /\ cache[d.num] \in Data
      BY <1>1, <1>2, <1>5, <2>2, <2>6, OldHeader DEF IsOld, IsDesc
    <3>2. recvd' = Append(recvd, sent[Len(recvd) + 1]) /\ file' \in Seq(Data)
      BY <1>5, <2>6, <3>1, DeliverType DEF Deliver
    <3>3. InOrder' /\ Len(recvd') = Len(recvd) + 1
      BY <1>2, <1>5, <2>3, <3>2, InOrderStep
    <3>4. ClientFramed'
      BY <1>2, <2>1, <2>2, <2>4, <2>6, <3>3 DEF ClientFramed, Deliver, IsNew
    <3>5. ClientCoherent' /\ NeverMisses'
      BY <1>2, <1>5, <2>1, <2>6, CoherentAfterHeader DEF NeverMisses, Deliver
    <3>6. QED
      BY <1>2, <1>3, <2>3, <3>2, <3>3, <3>4, <3>5 DEF IInv, TypeOK
  <2>7. CASE /\ d.size # 0 /\ ~d.old
             /\ desc' = d
             /\ cpc' = "data"
             /\ UNCHANGED <<cache, file, nblocks, ret, recvd>>
    <3>1. IsNew(d)
      BY <2>2, <2>7 DEF IsNew, IsDesc
    <3>2. ClientFramed'
      BY <1>2, <2>1, <2>2, <2>4, <2>7, <3>1 DEF ClientFramed
    <3>3. ClientCoherent' /\ NeverMisses' /\ InOrder'
      BY <1>2, <1>5, <2>1, <2>7, CoherentAfterHeader DEF NeverMisses, IInv, InOrder
    <3>4. QED
      BY <1>2, <1>3, <2>7, <3>2, <3>3 DEF IInv, TypeOK
  <2>8. QED
    BY <2>1, <2>5, <2>6, <2>7 DEF HeaderRead
<1>6. QED
  BY <1>4, <1>5

\* Only a client after the first, or one that is astray, can be told of an old
\* block it does not have.
LEMMA CacheMissInv ==
  ASSUME IInv, CacheMiss, UNCHANGED <<serverVars, conns>>
  PROVE  IInv' /\ (conns > 1 \/ astray)
<1>1. /\ cpc = "header" /\ ReadLast(HdrSize) /\ cpc' = "dead"
      /\ UNCHANGED <<cache, desc, file, nblocks, ret, recvd>>
      /\ ClientTypeOK
  BY DEF CacheMiss, IInv, TypeOK
<1>2. /\ rd' \in 0 .. Len(stream')
      /\ off' \in Nat
      /\ (off # 0 => rd < Len(stream) /\ off < Bytes(stream[rd + 1]))'
      /\ got' = 0
      /\ rd < Len(stream)
      /\ UNCHANGED <<astray, stream, sent>>
  BY <1>1, ReadLastType
<1>3. ClientTypeOK'
  BY <1>1, <1>2 DEF ClientTypeOK
<1>4. sock' = sock \/ (sock = "open" /\ sock' = "gone")
  BY DEF CacheMiss, Hangup
<1>5. /\ WireTypeOK' /\ ServerTypeOK' /\ (conns \in 1 .. MaxConns)'
      /\ Framed' /\ ServerFramed' /\ ServerCoherent' /\ OldCoherent'
  BY <1>2, <1>4, ServerStays
<1>6. CASE astray
  BY <1>2, <1>3, <1>4, <1>6, AstrayStep
<1>7. CASE ~astray
  <2>1. rd' = rd + 1 /\ off' = 0 /\ Headers = {stream[rd + 1]}
    BY <1>1, <1>7, ReadLastOnCourse
  <2>2. ClientCoherent' /\ ClientFramed' /\ InOrder'
    BY <1>1, <1>2, <1>7, <2>1, CoherentAfterHeader DEF IInv, ClientFramed, InOrder
  <2>3. conns > 1
    <3>1. IsOld(stream[rd + 1]) /\ cache[stream[rd + 1].num] = Absent
      BY <1>1, <1>2, <1>7, <2>1, NextHeader DEF CacheMiss, IsOld, IsDesc
    <3>2. QED
      BY <1>1, <1>2, <1>7, <3>1, OldHeader, MarkAssumption
  <2>4. NeverMisses'
    BY <1>5, <2>3 DEF NeverMisses
  <2>5. QED
    BY <1>3, <1>5, <2>2, <2>3, <2>4 DEF IInv, TypeOK
<1>8. QED
  BY <1>6, <1>7

\* receive_block read the data of a block and puts it into the table.
LEMMA DataReadInv ==
  ASSUME IInv, DataRead, UNCHANGED <<serverVars, conns>>
  PROVE  /\ IInv'
         /\ ~astray => /\ Len(recvd) < Len(sent)
                       /\ recvd' = Append(recvd, sent[Len(recvd) + 1])
<1>1. /\ cpc = "data" /\ ReadLast(desc.size) /\ UNCHANGED <<sock, desc>>
      /\ ClientTypeOK /\ rd \in Nat /\ Len(stream) \in Nat /\ stream \in Seq(Message)
      /\ Len(recvd) \in Nat /\ Len(sent) \in Nat
      /\ cache \in [Number -> Data \cup {Junk, Absent}]
      /\ HdrSize > 0
  BY SizeAssumption DEF DataRead, IInv, TypeOK, ClientTypeOK, WireTypeOK
<1>2. /\ rd' \in 0 .. Len(stream')
      /\ off' \in Nat
      /\ (off # 0 => rd < Len(stream) /\ off < Bytes(stream[rd + 1]))'
      /\ got' = 0
      /\ rd < Len(stream)
      /\ UNCHANGED <<astray, stream, sent>>
  BY <1>1, ReadLastType
<1>3. PICK b \in Contents : cache' = [cache EXCEPT ![desc.num] = b] /\ Deliver(b)
  BY DEF DataRead
<1>4. b \in Data \cup {Junk}
  BY <1>1, WhatIsRead
<1>5. /\ file' \in Seq(Data \cup {Junk}) /\ recvd' \in Seq(Item \cup {Junk})
      /\ nblocks' \in Nat /\ ret' \in Nat /\ cpc' = "header"
      /\ (~astray /\ b \in Data) => file' \in Seq(Data)
  BY <1>3, <1>4, DeliverType
<1>6. ClientTypeOK'
  <2>1. cache' \in [Number -> Data \cup {Junk, Absent}]
    BY <1>1, <1>3, <1>4
  <2>2. QED
    BY <1>1, <1>2, <1>5, <2>1 DEF ClientTypeOK
<1>7. /\ WireTypeOK' /\ ServerTypeOK' /\ (conns \in 1 .. MaxConns)'
      /\ Framed' /\ ServerFramed' /\ ServerCoherent' /\ OldCoherent'
  BY <1>1, <1>2, ServerStays
<1>8. CASE astray
  BY <1>1, <1>2, <1>6, <1>8, AstrayStep
<1>9. CASE ~astray
  <2>1. rd' = rd + 1 /\ off' = 0 /\ b = stream[rd + 1].data
    BY <1>1, <1>3, <1>9, ReadLastOnCourse
  <2>2. /\ IsBlock(stream[rd + 1]) /\ ~IsNew(stream[rd + 1]) /\ b \in Data
        /\ stream[rd + 1].seq = Len(recvd) + 1
        /\ b = sent[Len(recvd) + 1] /\ Len(recvd) < Len(sent)
        /\ desc.num = Hash[b] /\ desc.num \in BlockNum
    BY <1>1, <1>2, <1>9, <2>1, NextData, MessageFields DEF IsNew, IsDesc, IsBlock
  <2>3. desc.num \in Number
    BY <2>2, NumbersUsed
  <2>4. recvd' = Append(recvd, sent[Len(recvd) + 1])
    BY <1>3, <2>2 DEF Deliver
  <2>5. InOrder' /\ Len(recvd') = Len(recvd) + 1
    BY <1>2, <1>5, <1>9, <2>2, <2>4, InOrderStep
  <2>6. ClientFramed'
    BY <1>1, <1>2, <1>5, <2>1, <2>2, <2>5 DEF ClientFramed
  <2>7. ClientCoherent'
    <3> SUFFICES ASSUME NEW n \in BlockNum
                 PROVE  Shows(stream', n, rd + 1, cache'[n])
      BY <2>1 DEF ClientCoherent
    <3>1. n \in Number
      BY NumbersUsed
    <3>2. CASE n = desc.num
      <4>1. rd + 1 \in 1 .. Len(stream)
        BY <1>1, <1>2
      <4>2. Shows(stream, Hash[b], rd + 1, b)
        BY <1>1, <2>1, <2>2, <4>1, ShowsBlock
      <4>3. cache'[n] = b
        BY <1>1, <1>3, <3>1, <3>2
      <4>4. QED
        BY <1>2, <2>2, <3>2, <4>2, <4>3
    <3>3. CASE n # desc.num
      <4>1. cache'[n] = cache[n] /\ Shows(stream, n, rd, cache[n])
        BY <1>1, <1>3, <1>9, <3>1, <3>3 DEF IInv, ClientCoherent
      <4>2. QED
        BY <1>1, <1>2, <2>1, <2>2, <3>3, <4>1, ShowsStep
    <3>4. QED
      BY <3>2, <3>3
  <2>8. NeverMisses'
    BY <1>5 DEF NeverMisses
  <2>9. QED
    BY <1>6, <1>7, <2>2, <2>4, <2>5, <2>6, <2>7, <2>8 DEF IInv, TypeOK
<1>10. QED
  BY <1>8, <1>9

(***************************************************************************)
(* Theorems.                                                               *)
(***************************************************************************)

\* Every step of the system keeps the invariant.
LEMMA NextIInv ==
  ASSUME IInv, [Next]_vars
  PROVE  IInv'
<1>1. CASE ServerSends
  BY <1>1, SendFileInv DEF ServerSends
<1>2. CASE ServerWrites
  BY <1>2, SendBlockInv, SendDataInv, SendEofInv DEF ServerWrites, ServerStep
<1>3. CASE ServerEnds
  BY <1>3, ServerStopsInv DEF ServerEnds
<1>4. CASE ClientStarts
  BY <1>4, StartReceiveInv DEF ClientStarts
<1>5. CASE ClientReads
  <2>1. HdrSize \in Nat
    BY SizeAssumption
  <2>2. desc.size \in Nat
    BY MessageFields DEF IInv, TypeOK, ClientTypeOK, IsDesc
  <2>3. CASE cpc = "header" /\ ReadPart(HdrSize)
    BY <1>5, <2>1, <2>3, ReadPartInv DEF ClientReads
  <2>4. CASE cpc = "data" /\ ReadPart(desc.size)
    BY <1>5, <2>2, <2>4, ReadPartInv DEF ClientReads
  <2>5. QED
    BY <1>5, <2>3, <2>4, HeaderReadInv, CacheMissInv, DataReadInv
       DEF ClientReads, ReadStep
<1>6. CASE ReadGivesUp
  BY <1>6, ReadFailsInv DEF ReadGivesUp
<1>7. CASE ClientLeaves
  BY <1>7, ClientClosesInv DEF ClientLeaves
<1>8. CASE Reconnect
  BY <1>8, ReconnectInv
<1>9. CASE UNCHANGED vars
  <2> USE <1>9 DEF vars, wireVars, serverVars, clientVars
  <2>1. WireTypeOK' /\ ServerTypeOK' /\ ClientTypeOK' /\ (conns \in 1 .. MaxConns)'
    BY DEF IInv, TypeOK, WireTypeOK, ServerTypeOK, ClientTypeOK
  <2>2. Framed' /\ ServerFramed' /\ ServerCoherent' /\ OldCoherent'
    BY DEF IInv, Framed, ServerFramed, ServerCoherent, OldCoherent, ShowsHere
  <2>3. ClientCoherent' /\ ClientFramed' /\ InOrder' /\ NeverMisses'
    BY DEF IInv, ClientCoherent, ClientFramed, InOrder, NeverMisses
  <2>4. QED
    BY <2>1, <2>2, <2>3 DEF IInv, TypeOK
<1>10. QED
  BY <1>1, <1>2, <1>3, <1>4, <1>5, <1>6, <1>7, <1>8, <1>9 DEF Next

\* IInv holds in every reachable state.
THEOREM Invariance == Spec => []IInv
<1>1. Init => IInv
  BY InitIInv
<1>2. IInv /\ [Next]_vars => IInv'
  BY NextIInv
<1>3. QED
  BY <1>1, <1>2, PTL DEF Spec

\* Every variable of the server, the client and the connection has its type,
\* whatever bytes a client that has gone astray takes for a header or for data.
THEOREM TypeCorrect == Spec => []TypeOK
<1>1. IInv => TypeOK
  BY DEF IInv
<1>2. QED
  BY <1>1, Invariance, PTL

\* get_block never throws in the server's first client (rabinclient.cc:201) before
\* a read of it has failed inside a block, whatever the chunks and the collisions
\* of their numbers.
THEOREM FirstClientNeverMisses == Spec => []NeverMisses
<1>1. IInv => NeverMisses
  BY DEF IInv
<1>2. QED
  BY <1>1, Invariance, PTL

\* Once everything that was written is read, and no read has failed inside a block,
\* the two tables agree; a client after the first may lack numbers that were not
\* sent to it.
THEOREM TablesAgree == Spec => []CachesConverge
<1>1. IInv => CachesConverge
  <2> SUFFICES ASSUME IInv, ~astray, rd = Len(stream), sock = "open",
                      spc \in {"idle", "sending"}, NEW n \in BlockNum
               PROVE  cache[n] = blocks[n].data \/ (conns > 1 /\ cache[n] = Absent)
    BY DEF CachesConverge
  <2>1. stream \in Seq(Message) /\ rd \in 0 .. Len(stream)
    BY DEF IInv, TypeOK, WireTypeOK, ClientTypeOK
  <2>2. ShowsHere(stream, n, rd, blocks[n].data)
    BY DEF IInv, ServerCoherent
  <2>3. Shows(stream, n, rd, cache[n])
    BY DEF IInv, ClientCoherent
  <2>4. QED
    BY <2>1, <2>2, <2>3, ShowsUnique DEF ShowsHere
<1>2. QED
  BY <1>1, Invariance, PTL

\* Each step of the system is a step of FileTransfer or changes nothing it sees,
\* unless it is one of a client that has gone astray.
LEMMA StepTransfers ==
  ASSUME IInv, [Next]_vars, ~astray'
  PROVE  [Transfer!TransferNext]_<<sent, recvd>>
<1> USE DEF Transfer!TransferNext, Transfer!Send, Transfer!Receive, Transfer!Connect
<1>1. CASE ServerSends
  BY <1>1 DEF ServerSends, SendFile, wireVars, clientVars
<1>2. CASE ServerWrites
  <2>1. recvd' = recvd /\ ServerTypeOK
    BY <1>2 DEF ServerWrites, clientVars, IInv, TypeOK
  <2>2. CASE SendBlock
    <3>1. Head(todo) \in Item
      BY <2>1, <2>2, TodoHead DEF SendBlock, ServerTypeOK, Item
    <3>2. sent' = Append(sent, Head(todo)) \/ sent' = sent
      BY <2>2 DEF SendBlock
    <3>3. QED
      BY <2>1, <3>1, <3>2
  <2>3. CASE SendData
    BY <2>1, <2>3 DEF SendData
  <2>4. CASE SendEof
    <3>1. sent' = Append(sent, EOF) \/ sent' = sent
      BY <2>4 DEF SendEof
    <3>2. QED
      BY <2>1, <3>1 DEF Item
  <2>5. QED
    BY <1>2, <2>2, <2>3, <2>4 DEF ServerWrites, ServerStep
<1>3. CASE ServerEnds
  BY <1>3 DEF ServerEnds, ServerStops, wireVars, clientVars
<1>4. CASE ClientStarts
  BY <1>4 DEF ClientStarts, StartReceive, wireVars
<1>5. CASE ClientReads
  <2>1. sent' = sent /\ astray' = astray /\ UNCHANGED <<serverVars, conns>>
    BY <1>5 DEF ClientReads, ReadStep, ReadPart, HeaderRead, CacheMiss, DataRead,
                ReadLast, Take
  <2>2. CASE (\E need \in {HdrSize, desc.size} : ReadPart(need)) \/ CacheMiss
    BY <2>1, <2>2 DEF ReadPart, CacheMiss
  <2>3. CASE HeaderRead
    BY <2>1, <2>3, HeaderReadInv
  <2>4. CASE DataRead
    BY <2>1, <2>4, DataReadInv
  <2>5. QED
    BY <1>5, <2>2, <2>3, <2>4 DEF ClientReads, ReadStep
<1>6. CASE ReadGivesUp
  BY <1>6 DEF ReadGivesUp, ReadFails, wireVars
<1>7. CASE ClientLeaves
  BY <1>7 DEF ClientLeaves, ClientCloses
<1>8. CASE Reconnect
  BY <1>8 DEF Reconnect, WireConnect, ClientConnect
<1>9. CASE UNCHANGED vars
  BY <1>9 DEF vars, wireVars, clientVars
<1>10. QED
  BY <1>1, <1>2, <1>3, <1>4, <1>5, <1>6, <1>7, <1>8, <1>9 DEF Next

\* Up to the first read that fails inside a block the link implements FileTransfer:
\* with the tables, the descriptors, the partial reads, the timeouts between blocks
\* and the reconnections hidden, the client gets the items the server sent, each
\* once, unchanged and in order.
THEOREM RefinementOnCourse == Spec => ImplementsOnCourse
<1>1. Init => Transfer!TransferInit
  BY DEF Init, WireInit, ClientInit, Transfer!TransferInit
<1>2. IInv /\ [Next]_vars => [astray' \/ Transfer!TransferNext]_<<sent, recvd>>
  BY StepTransfers
<1>3. QED
  BY <1>1, <1>2, Invariance, PTL DEF Spec, ImplementsOnCourse
=============================================================================
