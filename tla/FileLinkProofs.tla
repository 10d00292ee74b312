--------------------------- MODULE FileLinkProofs ---------------------------
(***************************************************************************)
(* On a network that is not slow, the link implements FileTransfer at the  *)
(* level of whole files.  What was sent and received are sequences of      *)
(* items; the argument is where each file begins among them.               *)
(***************************************************************************)
EXTENDS FileLink, RabinLinkFileProofs

\* What send_file makes of file f: its chunks, and the end mark.
Piece(f, i) == IF i <= Len(f) THEN f[i] ELSE EOF

\* File number k of out begins, among the items of all of them, after at[k - 1].
Starts(at, out) ==
  /\ at \in [0 .. Len(out) -> Nat]
  /\ at[0] = 0
  /\ \A k \in 1 .. Len(out) : at[k] = at[k - 1] + Len(out[k]) + 1
  /\ \A j, k \in 0 .. Len(out) : j < k => at[j] < at[k]

\* The items h are those files, or the beginning of them.
Lies(at, out, h) ==
  /\ Len(h) <= at[Len(out)]
  /\ \A k \in 1 .. Len(out) : \A i \in 1 .. Len(out[k]) + 1 :
       at[k - 1] + i <= Len(h) => h[at[k - 1] + i] = Piece(out[k], i)

\* How far the server is with the last file, while someone can hear it.
ServerAt(at) ==
  sock = "open" =>
    /\ spc = "idle" => Len(sent) = at[Len(outbox)]
    /\ spc \in {"sending", "data"} =>
         /\ outbox # <<>>
         /\ Len(todo) <= Len(outbox[Len(outbox)])
         /\ \A i \in 1 .. Len(todo) :
              todo[i] = outbox[Len(outbox)][Len(outbox[Len(outbox)]) - Len(todo) + i]
    /\ spc = "sending" => Len(sent) + Len(todo) + 1 = at[Len(outbox)]
    /\ spc = "data" => Len(sent) + Len(todo) = at[Len(outbox)]

\* Nothing more will come.
Ended == spc = "down" /\ rd = Len(stream)

\* What was received is whole files and the beginning of the next, until a
\* receive_file ends with the server.
ClientAt(at) ==
  /\ Len(inbox) <= Len(outbox)
  /\ \A k \in 1 .. Len(inbox) : inbox[k] = outbox[k]
  /\ cpc \in {"header", "data"} =>
       \/ Len(recvd) = at[Len(inbox)] + Len(file) /\ Beginning(file)
       \/ Ended /\ file = <<>>
  /\ cpc = "idle" =>
       \/ /\ Len(recvd) = at[Len(inbox)]
          /\ file = <<>> \/ (inbox # <<>> /\ file = inbox[Len(inbox)])
       \/ Ended /\ Beginning(file)

Layout(at) ==
  /\ Starts(at, outbox)
  /\ Lies(at, outbox, sent)
  /\ ServerAt(at)
  /\ ClientAt(at)

Laid == \E at : Layout(at)

Counted ==
  /\ cpc \in {"header", "data"} => nblocks = Len(file)
  /\ (cpc = "idle" /\ ret # 0) => ret = Len(file) + 1

\* What was received is of what was sent; after the server's end this stays so even
\* for a client that has gone astray, for it finds nothing more to read.
Sound ==
  /\ recvd \in Seq(Item)
  /\ file \in Seq(Data)
  /\ Len(recvd) <= Len(sent)
  /\ \A k \in 1 .. Len(recvd) : recvd[k] = sent[k]

FInv ==
  /\ RInv
  /\ outbox \in Seq(Files)
  /\ inbox \in Seq(Seq(Data))
  /\ Sound
  /\ Laid

(***************************************************************************)
(* Where files begin.                                                      *)
(***************************************************************************)

\* A file more.
LEMMA StartsMore ==
  ASSUME NEW out \in Seq(Seq(Data)), NEW f \in Seq(Data), NEW h \in Seq(Item),
         NEW at, Starts(at, out), Lies(at, out, h)
  PROVE  \E a : /\ Starts(a, Append(out, f)) /\ Lies(a, Append(out, f), h)
                /\ \A k \in 0 .. Len(out) : a[k] = at[k]
                /\ a[Len(out) + 1] = at[Len(out)] + Len(f) + 1
<1> DEFINE n == Len(out)
           o == Append(out, f)
           a == [k \in 0 .. n + 1 |-> IF k <= n THEN at[k] ELSE at[n] + Len(f) + 1]
<1>1. /\ n \in Nat /\ Len(f) \in Nat /\ Len(h) \in Nat
      /\ Len(o) = n + 1 /\ o[n + 1] = f /\ \A k \in 1 .. n : o[k] = out[k]
      /\ \A k \in 1 .. n : Len(out[k]) \in Nat
  BY AppendKeeps
<1>2. \A k \in 0 .. n : at[k] \in Nat
  BY DEF Starts
<1>3. /\ a \in [0 .. n + 1 -> Nat]
      /\ \A k \in 0 .. n : a[k] = at[k]
      /\ a[n + 1] = at[n] + Len(f) + 1
  <2>1. at[n] + Len(f) + 1 \in Nat
    BY <1>1, <1>2
  <2>2. \A k \in 0 .. n + 1 : k <= n => k \in 0 .. n
    BY <1>1
  <2>3. QED
    BY <1>1, <1>2, <2>1, <2>2
<1> HIDE DEF a, o
<1>4. \A k \in 0 .. n : at[k] <= at[n]
  <2> TAKE k \in 0 .. n
  <2>1. k = n \/ at[k] < at[n]
    BY <1>1 DEF Starts
  <2>2. QED
    BY <1>1, <1>2, <2>1
<1>5. Starts(a, o)
  <2>1. a[0] = 0
    BY <1>1, <1>3 DEF Starts
  <2>2. ASSUME NEW k \in 1 .. n + 1
        PROVE  a[k] = a[k - 1] + Len(o[k]) + 1
    <3>1. CASE k \in 1 .. n
      <4>1. k - 1 \in 0 .. n /\ k \in 0 .. n
        BY <1>1, <3>1
      <4>2. at[k] = at[k - 1] + Len(out[k]) + 1
        BY <3>1 DEF Starts
      <4>3. QED
        BY <1>1, <1>3, <3>1, <4>1, <4>2
    <3>2. CASE k = n + 1
      BY <1>1, <1>3, <3>2
    <3>3. QED
      BY <1>1, <3>1, <3>2
  <2>3. ASSUME NEW j \in 0 .. n + 1, NEW k \in 0 .. n + 1, j < k
        PROVE  a[j] < a[k]
    <3>1. j \in 0 .. n
      BY <1>1, <2>3
    <3>2. CASE k \in 0 .. n
      BY <1>3, <2>3, <3>1, <3>2 DEF Starts
    <3>3. CASE k = n + 1
      <4>1. at[j] <= at[n] /\ at[j] \in Nat /\ at[n] \in Nat
        BY <1>1, <1>2, <1>4, <3>1
      <4>2. at[j] < at[n] + Len(f) + 1
        BY <1>1, <4>1
      <4>3. a[j] = at[j] /\ a[k] = at[n] + Len(f) + 1
        BY <1>3, <3>1, <3>3
      <4>4. QED
        BY <4>2, <4>3
    <3>4. QED
      BY <1>1, <3>2, <3>3
  <2>4. QED
    BY <1>1, <1>3, <2>1, <2>2, <2>3 DEF Starts
<1>6. Lies(a, o, h)
  <2>1. Len(h) <= at[n] /\ at[n] \in Nat
    BY <1>1, <1>2 DEF Lies
  <2>2. Len(h) <= a[n + 1]
    BY <1>1, <1>3, <2>1
  <2>3. ASSUME NEW k \in 1 .. n + 1, NEW i \in 1 .. Len(o[k]) + 1,
               a[k - 1] + i <= Len(h)
        PROVE  h[a[k - 1] + i] = Piece(o[k], i)
    <3>1. k - 1 \in 0 .. n /\ a[k - 1] = at[k - 1]
      <4>1. k - 1 \in 0 .. n
        BY <1>1
      <4>2. QED
        BY <1>3, <4>1
    <3>2. CASE k \in 1 .. n
      <4>1. o[k] = out[k]
        BY <1>1, <3>2
      <4>2. QED
        BY <2>3, <3>1, <3>2, <4>1 DEF Lies
    <3>3. CASE k = n + 1
      <4>1. at[n] + i <= Len(h) /\ i \in Nat /\ i >= 1
        BY <1>1, <2>3, <3>1, <3>3
      <4>2. QED
        BY <1>1, <2>1, <4>1
    <3>4. k \in 1 .. n \/ k = n + 1
      BY <1>1
    <3>5. QED
      BY <3>2, <3>3, <3>4
  <2>4. QED
    BY <1>1, <2>2, <2>3 DEF Lies
<1>7. QED
  BY <1>3, <1>5, <1>6 DEF o

\* The next item of the last file.
LEMMA LiesMore ==
  ASSUME NEW out \in Seq(Seq(Data)), out # <<>>, NEW h \in Seq(Item), NEW x \in Item,
         NEW at, Starts(at, out), Lies(at, out, h),
         NEW i \in 1 .. Len(out[Len(out)]) + 1,
         Len(h) + 1 = at[Len(out) - 1] + i, x = Piece(out[Len(out)], i)
  PROVE  Lies(at, out, Append(h, x))
<1>1. PICK n \in Nat : n = Len(out) /\ n >= 1
  OBVIOUS
<1>2. PICK l \in Nat : l = Len(h)
  OBVIOUS
<1> DEFINE g == Append(h, x)
<1>3. Len(g) = l + 1 /\ g[l + 1] = x /\ \A k \in 1 .. l : g[k] = h[k]
  BY <1>2, AppendKeeps
<1>4. \A k \in 0 .. n : at[k] \in Nat
  BY <1>1 DEF Starts
<1>5. \A k \in 1 .. n : Len(out[k]) \in Nat
  BY <1>1
<1>6. n \in 1 .. n /\ n - 1 \in 0 .. n
  BY <1>1
<1>7. PICK q \in Nat : q = at[n - 1]
  BY <1>4, <1>6
<1>8. PICK c \in Nat : c = Len(out[n])
  BY <1>5, <1>6
<1>9. i \in 1 .. c + 1 /\ l + 1 = q + i /\ at[n] = q + c + 1
  BY <1>1, <1>2, <1>6, <1>7, <1>8 DEF Starts
<1>10. Len(g) <= at[n]
  BY <1>3, <1>9
<1> HIDE DEF g
<1>11. ASSUME NEW k \in 1 .. n, NEW j \in 1 .. Len(out[k]) + 1, at[k - 1] + j <= Len(g)
       PROVE  g[at[k - 1] + j] = Piece(out[k], j)
  <2>1. k - 1 \in 0 .. n /\ k \in 0 .. n
    OBVIOUS
  <2>2. PICK p \in Nat : p = at[k - 1]
    BY <1>4, <2>1
  <2>3. PICK d \in Nat : d = Len(out[k])
    BY <1>5
  <2>4. PICK e \in Nat : e = p + j /\ e >= 1 /\ e <= p + d + 1
    BY <2>3
  <2>5. CASE e <= l
    <3>1. e \in 1 .. l
      BY <2>4, <2>5
    <3>2. h[p + j] = Piece(out[k], j)
      BY <1>1, <1>2, <2>2, <2>4, <2>5 DEF Lies
    <3>3. QED
      BY <1>3, <2>2, <2>4, <3>1, <3>2
  <2>6. CASE e = l + 1
    <3>1. ~(k < n)
      <4>1. SUFFICES ASSUME k < n
                     PROVE  FALSE
        OBVIOUS
      <4>2. k < n - 1 \/ k = n - 1
        BY <4>1
      <4>3. PICK u \in Nat : u = at[k]
        BY <1>4, <2>1
      <4>4. k < n - 1 => u < q
        BY <1>1, <1>6, <1>7, <2>1, <4>3 DEF Starts
      <4>5. k = n - 1 => u = q
        BY <1>7, <4>3
      <4>6. u <= q
        BY <4>2, <4>4, <4>5
      <4>7. u = p + d + 1
        BY <1>1, <2>2, <2>3, <4>3 DEF Starts
      <4>8. i >= 1 /\ i \in Nat
        BY <1>9
      <4>9. QED
        BY <1>9, <2>4, <2>6, <4>6, <4>7, <4>8
    <3>2. k = n
      BY <3>1
    <3>3. j = i
      <4>1. p = q
        BY <1>7, <2>2, <3>2
      <4>2. i \in Nat /\ p + j = q + i
        BY <1>9, <2>4, <2>6
      <4>3. j \in Nat
        BY <1>5
      <4>4. QED
        BY <4>1, <4>2, <4>3
    <3>4. QED
      BY <1>1, <1>3, <2>2, <2>4, <2>6, <3>2, <3>3
  <2>7. e <= l \/ e = l + 1
    <3>1. e <= l + 1
      BY <1>3, <1>11, <2>2, <2>4
    <3>2. QED
      BY <3>1
  <2>8. QED
    BY <2>5, <2>6, <2>7
<1>12. QED
  BY <1>1, <1>10, <1>11 DEF Lies, g

\* The item that follows the beginning of file number m + 1, if one does.
LEMMA NextPiece ==
  ASSUME NEW out \in Seq(Seq(Data)), NEW h \in Seq(Item), NEW at,
         Starts(at, out), Lies(at, out, h),
         NEW m \in 0 .. Len(out), NEW f \in Seq(Data),
         at[m] + Len(f) < Len(h), m < Len(out) => Len(f) <= Len(out[m + 1])
  PROVE  /\ m < Len(out)
         /\ h[at[m] + Len(f) + 1] = Piece(out[m + 1], Len(f) + 1)
<1>1. /\ at[m] \in Nat /\ Len(f) \in Nat /\ Len(h) \in Nat /\ Len(out) \in Nat
      /\ Len(h) <= at[Len(out)]
  BY DEF Starts, Lies
<1>2. m < Len(out)
  BY <1>1
<1>3. m + 1 \in 1 .. Len(out) /\ m + 1 - 1 = m
  BY <1>1, <1>2
<1>4. Len(out[m + 1]) \in Nat
  BY <1>3
<1>5. Len(f) + 1 \in 1 .. Len(out[m + 1]) + 1 /\ at[m] + (Len(f) + 1) <= Len(h)
  <2>1. \A u, v \in Nat : u <= v => u + 1 \in 1 .. v + 1
    OBVIOUS
  <2>2. \A u, v, w \in Nat : u + v < w => u + (v + 1) <= w
    OBVIOUS
  <2>3. Len(f) + 1 \in 1 .. Len(out[m + 1]) + 1
    BY <1>1, <1>2, <1>4, <2>1
  <2>4. QED
    BY <1>1, <2>2, <2>3
<1>6. h[at[m] + (Len(f) + 1)] = Piece(out[m + 1], Len(f) + 1)
  BY <1>3, <1>5 DEF Lies
<1>7. at[m] + (Len(f) + 1) = at[m] + Len(f) + 1
  <2>1. \A u, v \in Nat : u + (v + 1) = u + v + 1
    OBVIOUS
  <2>2. QED
    BY <1>1, <2>1
<1>8. QED
  BY <1>2, <1>6, <1>7

(***************************************************************************)
(* The steps of the server.                                                *)
(***************************************************************************)

LEMMA FileTypes ==
  ASSUME FInv
  PROVE  /\ outbox \in Seq(Seq(Data)) /\ inbox \in Seq(Seq(Data))
         /\ sent \in Seq(Item) /\ recvd \in Seq(Item)
         /\ file \in Seq(Data) /\ todo \in Seq(Data)
         /\ Len(recvd) <= Len(sent)
         /\ \A k \in 1 .. Len(recvd) : recvd[k] = sent[k]
BY FilesAssumption DEF FInv, Sound, RInv, IInv, TypeOK, WireTypeOK, ServerTypeOK

\* While nothing is said on the connection.
LEMMA ServerQuiet ==
  ASSUME NEW at, ServerAt(at), UNCHANGED <<spc, todo, sent, outbox>>,
         sock' = "open" => sock = "open"
  PROVE  ServerAt(at)'
BY DEF ServerAt

\* A server that runs does not disturb the client's account.
LEMMA ClientQuiet ==
  ASSUME NEW at, ClientAt(at), UNCHANGED <<clientVars, outbox, inbox>>, spc # "down"
  PROVE  ClientAt(at)'
BY DEF ClientAt, clientVars, Beginning, Ended

LEMMA FileSendsStep ==
  ASSUME FInv, FileSends, NEW at, Layout(at)
  PROVE  \E a : Layout(a)'
<1>1. PICK f \in Files : SendFile(f) /\ outbox' = Append(outbox, f)
  BY DEF FileSends
<1>2. /\ f \in Seq(Data) /\ outbox \in Seq(Seq(Data)) /\ inbox \in Seq(Seq(Data))
      /\ sent \in Seq(Item)
  BY FileTypes, FilesAssumption
<1>3. PICK a : /\ Starts(a, outbox') /\ Lies(a, outbox', sent)
               /\ \A k \in 0 .. Len(outbox) : a[k] = at[k]
               /\ a[Len(outbox) + 1] = at[Len(outbox)] + Len(f) + 1
  BY <1>1, <1>2, StartsMore DEF Layout
<1>4. /\ spc = "idle" /\ spc' = "sending" /\ todo' = f
      /\ UNCHANGED <<clientVars, inbox, stream, sent, sock>>
  BY <1>1 DEF SendFile, FileSends, wireVars
<1>5. /\ Len(outbox') = Len(outbox) + 1 /\ outbox'[Len(outbox) + 1] = f
      /\ Len(outbox) \in Nat /\ Len(f) \in Nat /\ Len(inbox) \in Nat
      /\ \A k \in 1 .. Len(outbox) : outbox'[k] = outbox[k]
  BY <1>1, <1>2, AppendKeeps
<1>6. ServerAt(a)'
  <2> SUFFICES ASSUME sock = "open"
               PROVE  ServerAt(a)'
    BY <1>4 DEF ServerAt
  <2>1. Len(sent) = at[Len(outbox)] /\ Len(sent) \in Nat
    BY <1>2, <1>4 DEF Layout, ServerAt
  <2>2. Len(sent') + Len(todo') + 1 = a[Len(outbox')]
    BY <1>3, <1>4, <1>5, <2>1
  <2>3. outbox' # <<>>
    <3>1. Len(outbox') # 0 /\ Len(<<>>) = 0
      BY <1>5
    <3>2. QED
      BY <3>1
  <2>4. \A i \in 1 .. Len(f) : f[i] = f[Len(f) - Len(f) + i]
    <3> TAKE i \in 1 .. Len(f)
    <3>1. Len(f) - Len(f) + i = i
      BY <1>5
    <3>2. QED
      BY <3>1
  <2>5. QED
    BY <1>4, <1>5, <2>2, <2>3, <2>4 DEF ServerAt
<1>7. ClientAt(a)'
  <2>1. Len(inbox) \in 0 .. Len(outbox) /\ a[Len(inbox)] = at[Len(inbox)]
    BY <1>3, <1>5 DEF Layout, ClientAt
  <2>2. ~Ended
    BY <1>4 DEF Ended
  <2>3. Beginning(file) => Beginning(file)'
    <3> SUFFICES ASSUME file # <<>>, Beginning(file)
                 PROVE  Beginning(file)'
      BY <1>4 DEF Beginning, clientVars
    <3>1. Len(inbox) + 1 \in 1 .. Len(outbox)
      BY <1>5 DEF Beginning
    <3>2. outbox'[Len(inbox) + 1] = outbox[Len(inbox) + 1] /\ Len(inbox) < Len(outbox')
      BY <1>5, <3>1
    <3>3. QED
      BY <1>4, <3>2 DEF Beginning, clientVars
  <2>4. Len(inbox) <= Len(outbox') /\ \A k \in 1 .. Len(inbox) : inbox[k] = outbox'[k]
    <3>1. \A k \in 1 .. Len(inbox) : k \in 1 .. Len(outbox) /\ inbox[k] = outbox[k]
      BY <1>5, <2>1 DEF Layout, ClientAt
    <3>2. QED
      BY <1>5, <2>1, <3>1
  <2>5. QED
    BY <1>4, <2>1, <2>2, <2>3, <2>4 DEF Layout, ClientAt, clientVars
<1>8. Layout(a)'
  BY <1>3, <1>4, <1>6, <1>7 DEF Layout
<1>9. QED
  BY <1>8

\* A step that writes nothing to someone who can hear it.
LEMMA WritesInVain ==
  ASSUME FInv, NEW at, Layout(at), spc # "down", UNCHANGED <<clientVars, outbox, inbox, sent>>,
         sock' # "open" \/ (ServerAt(at)')
  PROVE  Layout(at)'
<1>1. ServerAt(at)'
  BY DEF ServerAt
<1>2. ClientAt(at)'
  BY ClientQuiet DEF Layout
<1>3. QED
  BY <1>1, <1>2 DEF Layout

\* A step that puts the next item of the last file into the stream.
LEMMA WritesPiece ==
  ASSUME FInv, NEW at, Layout(at), spc = "sending", sock = "open",
         UNCHANGED <<clientVars, outbox, inbox>>,
         NEW x \in Item, sent' = Append(sent, x),
         x = IF todo = <<>> THEN EOF ELSE Head(todo),
         ServerAt(at)'
  PROVE  Layout(at)'
<1>1. /\ outbox \in Seq(Seq(Data)) /\ sent \in Seq(Item) /\ todo \in Seq(Data)
      /\ Starts(at, outbox) /\ Lies(at, outbox, sent)
  BY FileTypes DEF Layout
<1>2. PICK n \in Nat : n = Len(outbox)
  BY <1>1
<1>3. PICK f \in Seq(Data) : f = outbox[n] /\ outbox # <<>> /\ n \in 1 .. n
  BY <1>1, <1>2 DEF Layout, ServerAt
<1>4. /\ Len(todo) <= Len(f)
      /\ \A i \in 1 .. Len(todo) : todo[i] = f[Len(f) - Len(todo) + i]
      /\ Len(sent) + Len(todo) + 1 = at[n]
  BY <1>2, <1>3 DEF Layout, ServerAt
<1>5. PICK i \in 1 .. Len(f) + 1 : i = Len(f) - Len(todo) + 1
  <2>1. \A u, v \in Nat : v <= u => u - v + 1 \in 1 .. u + 1
    OBVIOUS
  <2>2. Len(f) \in Nat /\ Len(todo) \in Nat
    BY <1>1
  <2>3. Len(f) - Len(todo) + 1 \in 1 .. Len(f) + 1
    BY <1>4, <2>1, <2>2
  <2>4. QED
    BY <2>3
<1>6. Len(sent) + 1 = at[n - 1] + i
  <2>1. at[n] = at[n - 1] + Len(f) + 1 /\ n - 1 \in 0 .. n
    BY <1>1, <1>2, <1>3 DEF Starts
  <2>2. PICK q \in Nat : q = at[n - 1]
    BY <1>1, <1>2, <2>1 DEF Starts
  <2>3. Len(sent) \in Nat /\ Len(todo) \in Nat /\ Len(f) \in Nat
    BY <1>1
  <2>4. Len(sent) + Len(todo) + 1 = q + Len(f) + 1
    BY <1>4, <2>1, <2>2
  <2>5. Len(sent) + 1 = q + i
    BY <1>5, <2>3, <2>4
  <2>6. QED
    BY <2>2, <2>5
<1>7. x = Piece(f, i)
  <2>1. CASE todo = <<>>
    BY <1>5, <2>1 DEF Piece
  <2>2. CASE todo # <<>>
    <3>1. Len(todo) \in Nat /\ Len(todo) >= 1 /\ Head(todo) = todo[1] /\ Len(f) \in Nat
      BY <1>1, <2>2
    <3>2. todo[1] = f[Len(f) - Len(todo) + 1] /\ i <= Len(f)
      BY <1>4, <1>5, <3>1
    <3>3. QED
      BY <1>5, <2>2, <3>1, <3>2 DEF Piece
  <2>3. QED
    BY <2>1, <2>2
<1>8. Lies(at, outbox, sent')
  BY <1>1, <1>2, <1>3, <1>5, <1>6, <1>7, LiesMore
<1>9. ClientAt(at)'
  BY ClientQuiet DEF Layout
<1>10. QED
  BY <1>1, <1>8, <1>9 DEF Layout

\* What is left of file f when a chunk more was written.
LEMMA ChunkWritten ==
  ASSUME NEW f \in Seq(Data), NEW t \in Seq(Data), t # <<>>, Len(t) <= Len(f),
         \A i \in 1 .. Len(t) : t[i] = f[Len(f) - Len(t) + i]
  PROVE  /\ Len(Tail(t)) = Len(t) - 1
         /\ Len(Tail(t)) <= Len(f)
         /\ \A i \in 1 .. Len(Tail(t)) : Tail(t)[i] = f[Len(f) - Len(Tail(t)) + i]
<1>1. /\ Len(Tail(t)) = Len(t) - 1 /\ Len(t) \in Nat /\ Len(t) >= 1 /\ Len(f) \in Nat
      /\ \A i \in 1 .. Len(t) - 1 : Tail(t)[i] = t[i + 1]
  OBVIOUS
<1>2. ASSUME NEW i \in 1 .. Len(Tail(t))
      PROVE  Tail(t)[i] = f[Len(f) - Len(Tail(t)) + i]
  <2>1. i + 1 \in 1 .. Len(t) /\ i \in 1 .. Len(t) - 1
    BY <1>1
  <2>2. Len(f) - Len(t) + (i + 1) = Len(f) - Len(Tail(t)) + i
    BY <1>1
  <2>3. QED
    BY <1>1, <2>1, <2>2
<1>3. Len(Tail(t)) <= Len(f)
  BY <1>1
<1>4. QED
  BY <1>1, <1>2, <1>3

LEMMA SendBlockFile ==
  ASSUME FInv, SendBlock, UNCHANGED <<clientVars, outbox, inbox>>, NEW at, Layout(at)
  PROVE  Layout(at)'
<1>1. /\ spc = "sending" /\ todo # <<>> /\ todo \in Seq(Data) /\ sent \in Seq(Item)
      /\ outbox \in Seq(Seq(Data))
  BY FileTypes DEF SendBlock
<1>2. CASE sock' # "open"
  <2>1. sock # "open"
    BY <1>2 DEF SendBlock, WriteOK, WriteError, WriteSignal
  <2>2. sent' = sent
    BY <2>1 DEF SendBlock
  <2>3. QED
    BY <1>1, <1>2, <2>2, WritesInVain
<1>3. CASE sock' = "open"
  <2>1. /\ sock = "open" /\ sent' = Append(sent, Head(todo))
        /\ \/ todo' = Tail(todo) /\ spc' = "sending"
           \/ todo' = todo /\ spc' = "data"
    BY <1>3 DEF SendBlock, WriteOK, WriteError, WriteSignal
  <2>2. Head(todo) \in Item /\ Len(sent') = Len(sent) + 1
    BY <1>1, <2>1, TodoHead DEF Item
  <2>3. ServerAt(at)'
    <3>1. PICK f \in Seq(Data) : f = outbox[Len(outbox)] /\ outbox # <<>>
      BY <1>1, <2>1 DEF Layout, ServerAt
    <3>2. /\ Len(todo) <= Len(f)
          /\ \A i \in 1 .. Len(todo) : todo[i] = f[Len(f) - Len(todo) + i]
          /\ Len(sent) + Len(todo) + 1 = at[Len(outbox)]
      BY <1>1, <2>1, <3>1 DEF Layout, ServerAt
    <3>3. Len(sent) \in Nat /\ Len(todo) \in Nat /\ Len(f) \in Nat /\ Len(todo) >= 1
      BY <1>1
    <3>4. CASE todo' = todo /\ spc' = "data"
      BY <2>1, <2>2, <3>1, <3>2, <3>3, <3>4 DEF ServerAt
    <3>5. CASE todo' = Tail(todo) /\ spc' = "sending"
      <4>1. /\ Len(todo') = Len(todo) - 1 /\ Len(todo') <= Len(f)
            /\ \A i \in 1 .. Len(todo') : todo'[i] = f[Len(f) - Len(todo') + i]
        BY <1>1, <3>2, <3>5, ChunkWritten
      <4>2. Len(sent') + Len(todo') + 1 = at[Len(outbox)]
        BY <2>2, <3>2, <3>3, <4>1
      <4>3. QED
        BY <3>1, <3>5, <4>1, <4>2 DEF ServerAt
    <3>6. QED
      BY <2>1, <3>4, <3>5
  <2>4. QED
    BY <1>1, <2>1, <2>2, <2>3, WritesPiece
<1>4. QED
  BY <1>2, <1>3

LEMMA SendDataFile ==
  ASSUME FInv, SendData, UNCHANGED <<clientVars, outbox, inbox>>, NEW at, Layout(at)
  PROVE  Layout(at)'
<1>1. /\ spc = "data" /\ todo \in Seq(Data) /\ sent \in Seq(Item) /\ todo # <<>>
      /\ outbox \in Seq(Seq(Data)) /\ sent' = sent
  BY FileTypes DEF SendData, FInv, RInv, IInv, TypeOK, ServerTypeOK
<1>2. CASE sock' # "open"
  BY <1>1, <1>2, WritesInVain
<1>3. CASE sock' = "open"
  <2>1. sock = "open" /\ todo' = Tail(todo) /\ spc' = "sending"
    BY <1>3 DEF SendData, WriteOK, WriteError, WriteSignal
  <2>2. PICK f \in Seq(Data) : f = outbox[Len(outbox)] /\ outbox # <<>>
    BY <1>1, <2>1 DEF Layout, ServerAt
  <2>3. /\ Len(todo) <= Len(f)
        /\ \A i \in 1 .. Len(todo) : todo[i] = f[Len(f) - Len(todo) + i]
        /\ Len(sent) + Len(todo) = at[Len(outbox)]
    BY <1>1, <2>1, <2>2 DEF Layout, ServerAt
  <2>4. /\ Len(todo') = Len(todo) - 1 /\ Len(todo') <= Len(f)
        /\ \A i \in 1 .. Len(todo') : todo'[i] = f[Len(f) - Len(todo') + i]
    BY <1>1, <2>1, <2>3, ChunkWritten
  <2>5. Len(sent) \in Nat /\ Len(todo) \in Nat
    BY <1>1
  <2>6. Len(sent') + Len(todo') + 1 = at[Len(outbox)]
    BY <1>1, <2>3, <2>4, <2>5
  <2>7. ServerAt(at)'
    BY <2>1, <2>2, <2>4, <2>6 DEF ServerAt
  <2>8. QED
    BY <1>1, <2>7, WritesInVain
<1>4. QED
  BY <1>2, <1>3

LEMMA SendEofFile ==
  ASSUME FInv, SendEof, UNCHANGED <<clientVars, outbox, inbox>>, NEW at, Layout(at)
  PROVE  Layout(at)'
<1>1. spc = "sending" /\ todo = <<>> /\ sent \in Seq(Item)
  BY FileTypes DEF SendEof
<1>2. CASE sock' # "open"
  <2>1. sent' = sent
    BY <1>2 DEF SendEof, WriteOK, WriteError, WriteSignal
  <2>2. QED
    BY <1>1, <1>2, <2>1, WritesInVain
<1>3. CASE sock' = "open"
  <2>1. sock = "open" /\ sent' = Append(sent, EOF) /\ spc' = "idle"
    BY <1>3 DEF SendEof, WriteOK, WriteError, WriteSignal
  <2>2. EOF \in Item /\ Len(sent') = Len(sent) + 1 /\ Len(sent) \in Nat
    BY <1>1, <2>1 DEF Item
  <2>3. Len(sent) + 0 + 1 = at[Len(outbox)]
    BY <1>1, <2>1 DEF Layout, ServerAt
  <2>4. Len(sent') = at[Len(outbox)]
    BY <2>2, <2>3
  <2>5. ServerAt(at)'
    BY <2>1, <2>4 DEF ServerAt
  <2>6. QED
    BY <1>1, <2>1, <2>2, <2>5, WritesPiece
<1>4. QED
  BY <1>2, <1>3

LEMMA ServerStopsFile ==
  ASSUME FInv, ServerStops, UNCHANGED <<clientVars, outbox, inbox>>, NEW at, Layout(at)
  PROVE  Layout(at)'
BY WritesInVain DEF ServerStops, ServerDies, ServerAt, wireVars

(***************************************************************************)
(* The steps of the client.                                                *)
(***************************************************************************)

LEMMA ClientSteps ==
  ASSUME NEW at, Layout(at), UNCHANGED <<serverVars, stream, sent, outbox>>,
         sock' = "open" => sock = "open", ClientAt(at)'
  PROVE  Layout(at)'
BY ServerQuiet DEF Layout, serverVars

\* Nothing is received by a step that leaves recvd alone.
LEMMA NotReceived ==
  ASSUME FInv
  PROVE  recvd # Append(recvd, EOF)
<1>1. recvd \in Seq(Item) /\ EOF \in Item
  BY FileTypes DEF Item
<1>2. Len(Append(recvd, EOF)) = Len(recvd) + 1 /\ Len(recvd) \in Nat
  BY <1>1
<1>3. QED
  BY <1>2

\* The next item received is the next one of the file that is being received.
LEMMA Receives ==
  ASSUME FInv, Sound', NEW at, Layout(at), cpc \in {"header", "data"}, rd < Len(stream),
         NEW x \in Item, recvd' = Append(recvd, x), sent' = sent
  PROVE  /\ Len(recvd) = at[Len(inbox)] + Len(file)
         /\ Beginning(file)
         /\ Len(inbox) < Len(outbox)
         /\ x = Piece(outbox[Len(inbox) + 1], Len(file) + 1)
<1>1. /\ outbox \in Seq(Seq(Data)) /\ inbox \in Seq(Seq(Data)) /\ sent \in Seq(Item)
      /\ recvd \in Seq(Item) /\ file \in Seq(Data)
      /\ Starts(at, outbox) /\ Lies(at, outbox, sent)
  BY FileTypes DEF Layout
<1>2. Len(recvd) = at[Len(inbox)] + Len(file) /\ Beginning(file)
  <2>1. ~Ended
    <3>1. rd \in Nat /\ Len(stream) \in Nat
      BY DEF FInv, RInv, IInv, TypeOK, WireTypeOK, ClientTypeOK
    <3>2. QED
      BY <3>1 DEF Ended
  <2>2. QED
    BY <2>1 DEF Layout, ClientAt
<1>3. Len(inbox) \in 0 .. Len(outbox)
  BY <1>1 DEF Layout, ClientAt
<1>4. Len(inbox) < Len(outbox) => Len(file) <= Len(outbox[Len(inbox) + 1])
  <2>1. CASE file = <<>>
    <3>1. Len(inbox) < Len(outbox) => Len(inbox) + 1 \in 1 .. Len(outbox)
      BY <1>3
    <3>2. \A k \in 1 .. Len(outbox) : Len(outbox[k]) \in Nat
      BY <1>1
    <3>3. QED
      BY <2>1, <3>1, <3>2
  <2>2. CASE file # <<>>
    BY <1>2, <2>2 DEF Beginning
  <2>3. QED
    BY <2>1, <2>2
<1>5. /\ Len(recvd') = Len(recvd) + 1 /\ Len(recvd) \in Nat /\ Len(sent) \in Nat
      /\ recvd'[Len(recvd) + 1] = x
  BY <1>1, AppendKeeps
<1>6. Len(recvd) < Len(sent) /\ sent[Len(recvd) + 1] = x
  <2>1. Len(recvd') <= Len(sent) /\ \A k \in 1 .. Len(recvd') : recvd'[k] = sent[k]
    BY DEF Sound
  <2>2. Len(recvd) + 1 \in 1 .. Len(recvd')
    BY <1>5
  <2>3. QED
    BY <1>5, <2>1, <2>2
<1>7. /\ Len(inbox) < Len(outbox)
      /\ sent[at[Len(inbox)] + Len(file) + 1] = Piece(outbox[Len(inbox) + 1], Len(file) + 1)
  <2>1. at[Len(inbox)] + Len(file) < Len(sent)
    BY <1>2, <1>6
  <2>2. QED
    BY <1>1, <1>3, <1>4, <2>1, NextPiece
<1>8. QED
  BY <1>2, <1>6, <1>7

\* The next chunk of a file.
LEMMA DeliversFile ==
  ASSUME FInv, Sound', NEW at, Layout(at), cpc \in {"header", "data"}, rd < Len(stream),
         NEW b \in Data, Deliver(b), UNCHANGED <<sent, outbox, inbox>>
  PROVE  ClientAt(at)'
<1>1. /\ outbox \in Seq(Seq(Data)) /\ inbox \in Seq(Seq(Data)) /\ recvd \in Seq(Item)
      /\ file \in Seq(Data)
  BY FileTypes
<1>2. b \in Item /\ recvd' = Append(recvd, b) /\ file' = Append(file, b) /\ cpc' = "header"
  BY DEF Deliver, Item
<1>3. /\ Len(recvd) = at[Len(inbox)] + Len(file)
      /\ Beginning(file)
      /\ Len(inbox) < Len(outbox)
      /\ b = Piece(outbox[Len(inbox) + 1], Len(file) + 1)
  BY <1>2, Receives
<1>4. PICK m \in Nat : m = Len(inbox) /\ m < Len(outbox) /\ m \in 0 .. Len(outbox)
  BY <1>1, <1>3
<1>5. PICK f \in Seq(Data) : f = outbox[m + 1]
  <2>1. m + 1 \in 1 .. Len(outbox)
    BY <1>1, <1>4
  <2>2. QED
    BY <1>1, <2>1
<1>6. PICK l \in Nat : l = Len(file)
  BY <1>1
<1>7. l + 1 <= Len(f) /\ f[l + 1] = b
  BY <1>3, <1>4, <1>5, <1>6, MarkAssumption DEF Piece
<1>8. /\ Len(file') = l + 1 /\ file'[l + 1] = b
      /\ \A i \in 1 .. l : file'[i] = file[i]
      /\ Len(recvd') = Len(recvd) + 1
  BY <1>1, <1>2, <1>6, AppendKeeps
<1>9. \A i \in 1 .. l : file[i] = f[i]
  BY <1>3, <1>4, <1>5, <1>6 DEF Beginning
<1>10. \A i \in 1 .. l + 1 : file'[i] = f[i]
  <2> TAKE i \in 1 .. l + 1
  <2>1. i \in 1 .. l \/ i = l + 1
    OBVIOUS
  <2>2. QED
    BY <1>7, <1>8, <1>9, <2>1
<1>11. Beginning(file)'
  BY <1>4, <1>5, <1>7, <1>8, <1>10 DEF Beginning
<1>12. Len(recvd') = at[Len(inbox)] + Len(file')
  <2>1. PICK u \in Nat : u = at[m]
    BY <1>4 DEF Layout, Starts
  <2>2. Len(recvd) = u + l
    BY <1>3, <1>4, <1>6, <2>1
  <2>3. Len(recvd') = u + l + 1
    BY <1>8, <2>2
  <2>4. u + l + 1 = u + (l + 1)
    OBVIOUS
  <2>5. QED
    BY <1>4, <1>8, <2>1, <2>3, <2>4
<1>13. Len(inbox) <= Len(outbox) /\ \A k \in 1 .. Len(inbox) : inbox[k] = outbox[k]
  BY DEF Layout, ClientAt
<1>14. QED
  BY <1>2, <1>11, <1>12, <1>13 DEF ClientAt

\* The end of a file: all of it was received.
LEMMA FileReceived ==
  ASSUME FInv, Sound', NEW at, Layout(at), cpc \in {"header", "data"}, rd < Len(stream),
         recvd' = Append(recvd, EOF), UNCHANGED sent
  PROVE  /\ Len(inbox) < Len(outbox)
         /\ file = outbox[Len(inbox) + 1]
         /\ Len(recvd) + 1 = at[Len(inbox) + 1]
<1>1. /\ outbox \in Seq(Seq(Data)) /\ inbox \in Seq(Seq(Data)) /\ recvd \in Seq(Item)
      /\ file \in Seq(Data)
  BY FileTypes
<1>2. /\ Len(recvd) = at[Len(inbox)] + Len(file)
      /\ Beginning(file)
      /\ Len(inbox) < Len(outbox)
      /\ EOF = Piece(outbox[Len(inbox) + 1], Len(file) + 1)
  BY Receives DEF Item
<1>3. PICK m \in Nat : m = Len(inbox) /\ m < Len(outbox) /\ m + 1 \in 1 .. Len(outbox)
  BY <1>1, <1>2
<1>4. PICK f \in Seq(Data) : f = outbox[m + 1]
  BY <1>1, <1>3
<1>5. PICK l \in Nat : l = Len(file)
  BY <1>1
<1>6. Len(f) \in Nat /\ \A i \in 1 .. Len(f) : f[i] \in Data
  OBVIOUS
<1>7. ~(l + 1 <= Len(f))
  <2>1. SUFFICES ASSUME l + 1 <= Len(f)
                 PROVE  FALSE
    OBVIOUS
  <2>2. l + 1 \in 1 .. Len(f)
    BY <1>6, <2>1
  <2>3. EOF = f[l + 1]
    BY <1>2, <1>3, <1>4, <1>5, <2>1 DEF Piece
  <2>4. QED
    BY <1>6, <2>2, <2>3, MarkAssumption
<1>8. file = <<>> \/ (l <= Len(f) /\ \A i \in 1 .. l : file[i] = f[i])
  BY <1>2, <1>3, <1>4, <1>5 DEF Beginning
<1>9. l = Len(f)
  <2>1. CASE file = <<>>
    <3>1. l = 0
      BY <1>5, <2>1
    <3>2. QED
      BY <1>6, <1>7, <3>1
  <2>2. CASE l <= Len(f)
    BY <1>6, <1>7, <2>2
  <2>3. QED
    BY <1>8, <2>1, <2>2
<1>10. \A i \in 1 .. l : file[i] = f[i]
  <2>1. file = <<>> => l = 0
    BY <1>5
  <2>2. QED
    BY <1>8, <2>1
<1>11. file = f
  BY <1>1, <1>5, <1>9, <1>10, SeqEqual
<1>12. Len(recvd) + 1 = at[m + 1]
  <2>1. PICK u \in Nat : u = at[m]
    BY <1>3 DEF Layout, Starts
  <2>2. Len(recvd) = u + l
    BY <1>2, <1>3, <1>5, <2>1
  <2>3. at[m + 1] = at[m + 1 - 1] + Len(f) + 1 /\ m + 1 - 1 = m
    BY <1>3, <1>4 DEF Layout, Starts
  <2>4. QED
    BY <1>9, <2>1, <2>2, <2>3
<1>13. QED
  BY <1>2, <1>3, <1>4, <1>11, <1>12

LEMMA EndsFile ==
  ASSUME FInv, Sound', NEW at, Layout(at), cpc = "header", rd < Len(stream),
         recvd' = Append(recvd, EOF), inbox' = Append(inbox, file), cpc' = "idle",
         UNCHANGED <<sent, outbox, file>>
  PROVE  ClientAt(at)'
<1>1. /\ inbox \in Seq(Seq(Data)) /\ recvd \in Seq(Item) /\ file \in Seq(Data)
      /\ outbox \in Seq(Seq(Data))
  BY FileTypes
<1>2. /\ Len(inbox) < Len(outbox)
      /\ file = outbox[Len(inbox) + 1]
      /\ Len(recvd) + 1 = at[Len(inbox) + 1]
  BY FileReceived
<1>3. PICK m \in Nat : m = Len(inbox)
  BY <1>1
<1>4. /\ Len(inbox') = m + 1 /\ inbox'[m + 1] = file /\ inbox' # <<>>
      /\ \A k \in 1 .. m : inbox'[k] = inbox[k]
  <2>1. inbox' \in Seq(Seq(Data)) /\ Len(inbox') = m + 1
    BY <1>1, <1>3, AppendKeeps
  <2>2. inbox'[m + 1] = file /\ \A k \in 1 .. m : inbox'[k] = inbox[k]
    BY <1>1, <1>3, AppendKeeps
  <2>3. inbox' # <<>>
    BY <2>1
  <2>4. QED
    BY <2>1, <2>2, <2>3
<1>5. Len(recvd') = at[Len(inbox')]
  <2>1. Len(recvd') = Len(recvd) + 1
    BY <1>1
  <2>2. QED
    BY <1>2, <1>3, <1>4, <2>1
<1>6. Len(inbox') <= Len(outbox')
  BY <1>1, <1>2, <1>3, <1>4
<1>7. ASSUME NEW k \in 1 .. Len(inbox')
      PROVE  inbox'[k] = outbox'[k]
  <2>1. k \in 1 .. m \/ k = m + 1
    BY <1>4
  <2>2. CASE k \in 1 .. m
    BY <1>3, <1>4, <2>2 DEF Layout, ClientAt
  <2>3. CASE k = m + 1
    BY <1>2, <1>3, <1>4, <2>3
  <2>4. QED
    BY <2>1, <2>2, <2>3
<1>8. QED
  BY <1>4, <1>5, <1>6, <1>7 DEF ClientAt

\* receive_file gives up between two files, or with the server.
LEMMA GivesUpFile ==
  ASSUME FInv, ~SlowNetwork, ReadGivesUp, UNCHANGED <<outbox, inbox>>, NEW at, Layout(at)
  PROVE  ClientAt(at)'
<1>1. /\ outbox \in Seq(Seq(Data)) /\ inbox \in Seq(Seq(Data)) /\ sent \in Seq(Item)
      /\ recvd \in Seq(Item) /\ file \in Seq(Data)
  BY FileTypes
<1>2. /\ cpc \in {"header", "data"} /\ cpc' = "idle" /\ rd = Len(stream)
      /\ spc \in {"idle", "down"} /\ UNCHANGED <<file, recvd, rd, stream, spc>>
  BY DEF ReadGivesUp, NothingComes, ReadFails, ReturnNull, wireVars, serverVars
<1>3. /\ Len(inbox) <= Len(outbox)
      /\ \A k \in 1 .. Len(inbox) : inbox[k] = outbox[k]
      /\ \/ Len(recvd) = at[Len(inbox)] + Len(file) /\ Beginning(file)
         \/ Ended /\ file = <<>>
  BY <1>2 DEF Layout, ClientAt
<1>4. CASE spc = "down"
  <2>1. Beginning(file)
    BY <1>3 DEF Beginning
  <2>2. Beginning(file)' /\ Ended'
    BY <1>2, <1>4, <2>1 DEF Beginning, Ended
  <2>3. QED
    BY <1>2, <1>3, <2>2 DEF ClientAt
<1>5. CASE spc = "idle"
  <2>1. Len(recvd) = at[Len(inbox)] + Len(file) /\ Beginning(file)
    BY <1>3, <1>5 DEF Ended
  <2>2. sock = "open" /\ ~astray
    BY <1>2, <1>5 DEF FInv, RInv, BetweenFiles
  <2>3. Len(recvd) = Len(sent)
    <3>1. /\ rd \in Nat /\ stream \in Seq(Message) /\ rd = Len(stream)
          /\ cpc = "data" => IsNew(stream[rd]) /\ rd > 0
      BY <1>2, <2>2 DEF FInv, RInv, IInv, TypeOK, WireTypeOK, ClientTypeOK, ClientFramed
    <3>2. cpc = "header"
      BY <1>2, <1>5, <2>2, <3>1 DEF FInv, RInv, IInv, ServerFramed
    <3>3. QED
      BY <1>1, <2>2, <3>1, <3>2 DEF FInv, RInv, IInv, ClientFramed, Framed, Frames
  <2>4. Len(sent) = at[Len(outbox)]
    BY <1>5, <2>2 DEF Layout, ServerAt
  <2>5. PICK m \in Nat : m = Len(inbox)
    BY <1>1
  <2>6. PICK n \in Nat : n = Len(outbox) /\ m <= n
    BY <1>1, <1>3, <2>5
  <2>7. PICK u \in Nat : u = at[m]
    BY <2>6 DEF Layout, Starts
  <2>8. PICK l \in Nat : l = Len(file)
    BY <1>1
  <2>9. at[n] = u + l
    BY <2>1, <2>3, <2>4, <2>5, <2>6, <2>7, <2>8
  <2>10. ~(m < n)
    <3>1. SUFFICES ASSUME m < n
                   PROVE  FALSE
      OBVIOUS
    <3>2. m + 1 \in 1 .. n /\ m + 1 - 1 = m
      BY <3>1
    <3>3. PICK c \in Nat : c = Len(outbox[m + 1])
      BY <1>1, <2>6, <3>2
    <3>4. at[m + 1] = u + c + 1
      BY <2>6, <2>7, <3>2, <3>3 DEF Layout, Starts
    <3>5. l <= c
      <4>1. file = <<>> => l = 0
        BY <2>8
      <4>2. QED
        BY <2>1, <2>5, <2>8, <3>3, <4>1 DEF Beginning
    <3>6. PICK v \in Nat : v = at[n]
      BY <2>6 DEF Layout, Starts
    <3>7. m + 1 < n => at[m + 1] < v
      BY <2>6, <3>2, <3>6 DEF Layout, Starts
    <3>8. m + 1 = n => at[m + 1] = v
      BY <3>6
    <3>9. m + 1 < n \/ m + 1 = n
      BY <3>1
    <3>10. u + c + 1 <= v
      BY <3>4, <3>7, <3>8, <3>9
    <3>11. v = u + l
      BY <2>9, <3>6
    <3>12. QED
      BY <3>5, <3>10, <3>11
  <2>11. file = <<>>
    BY <2>1, <2>5, <2>6, <2>10 DEF Beginning
  <2>12. Len(recvd) = at[Len(inbox)]
    <3>1. l = 0 /\ m = n
      BY <2>6, <2>8, <2>10, <2>11
    <3>2. QED
      BY <2>3, <2>4, <2>5, <2>6, <3>1
  <2>13. QED
    BY <1>2, <1>3, <2>11, <2>12 DEF ClientAt
<1>6. QED
  BY <1>2, <1>4, <1>5

LEMMA FileReadsStep ==
  ASSUME FInv, Sound', FileReads, NEW at, Layout(at)
  PROVE  Layout(at)'
<1>1. /\ UNCHANGED <<serverVars, stream, sent, outbox>>
      /\ sock' = "open" => sock = "open"
      /\ rd \in Nat /\ Len(stream) \in Nat /\ rd < Len(stream)
  <2>1. UNCHANGED <<serverVars, outbox>>
    BY DEF FileReads, ClientReads
  <2>2. /\ UNCHANGED <<stream, sent>> /\ rd < Len(stream)
        /\ sock' = "open" => sock = "open"
    BY DEF FileReads, ClientReads, ReadStep, ReadPart, HeaderRead, CacheMiss, DataRead,
           ReadLast, Take, Hangup
  <2>3. rd \in Nat /\ Len(stream) \in Nat
    BY DEF FInv, RInv, IInv, TypeOK, WireTypeOK, ClientTypeOK
  <2>4. QED
    BY <2>1, <2>2, <2>3
<1> SUFFICES ClientAt(at)'
  BY <1>1, ClientSteps
<1>2. recvd' = recvd => inbox' = inbox
  BY NotReceived DEF FileReads
<1>3. CASE \E need \in {HdrSize, desc.size} : ReadPart(need) /\ cpc \in {"header", "data"}
  <2>1. UNCHANGED <<cpc, recvd, file, inbox, outbox>> /\ ~Ended
    BY <1>1, <1>2, <1>3 DEF ReadPart, Ended
  <2>2. QED
    BY <1>3, <2>1 DEF Layout, ClientAt, Beginning
<1>4. ASSUME NEW b, Deliver(b), cpc \in {"header", "data"}, rd < Len(stream)
      PROVE  ClientAt(at)'
  <2>1. b \in Data
    <3>1. file' \in Seq(Data) /\ file \in Seq(Data)
      BY FileTypes DEF Sound
    <3>2. Len(file') = Len(file) + 1 /\ file'[Len(file) + 1] = b
      BY <1>4, <3>1 DEF Deliver
    <3>3. QED
      BY <3>1, <3>2
  <2>2. inbox' = inbox
    <3>1. recvd \in Seq(Item) /\ b \in Item /\ EOF \in Item /\ b # EOF
      BY <2>1, FileTypes, MarkAssumption DEF Item
    <3>2. Append(recvd, b) # Append(recvd, EOF)
      BY <3>1, AppendKeeps
    <3>3. QED
      BY <1>4, <3>2 DEF FileReads, Deliver
  <2>3. QED
    BY <1>1, <1>4, <2>1, <2>2, DeliversFile
<1>5. CASE HeaderRead
  <2>1. cpc = "header" /\ rd < Len(stream)
    BY <1>1, <1>5 DEF HeaderRead
  <2>2. CASE ReturnNull /\ recvd' = Append(recvd, EOF)
    BY <1>1, <2>1, <2>2, EndsFile DEF FileReads, ReturnNull
  <2>3. CASE \E d \in Headers : Deliver(cache[d.num])
    BY <1>4, <2>1, <2>3
  <2>4. CASE cpc' = "data" /\ UNCHANGED <<file, recvd>>
    BY <1>1, <1>2, <2>1, <2>4 DEF Layout, ClientAt, Beginning, Ended
  <2>5. QED
    BY <1>5, <2>2, <2>3, <2>4 DEF HeaderRead
<1>6. CASE DataRead
  BY <1>1, <1>4, <1>6 DEF DataRead
<1>7. CASE CacheMiss
  BY <1>1, <1>2, <1>7 DEF CacheMiss, Layout, ClientAt
<1>8. QED
  BY <1>3, <1>5, <1>6, <1>7 DEF FileReads, ClientReads, ReadStep

LEMMA ClientStartsFile ==
  ASSUME FInv, ClientStarts, UNCHANGED <<outbox, inbox>>, NEW at, Layout(at)
  PROVE  Layout(at)'
<1>1. /\ cpc = "idle" /\ cpc' = "header" /\ file' = <<>>
      /\ UNCHANGED <<serverVars, stream, sent, sock, recvd, rd, spc>>
  BY DEF ClientStarts, StartReceive, wireVars, serverVars
<1>2. Beginning(file)'
  BY <1>1 DEF Beginning
<1>3. Len(recvd) = at[Len(inbox)] => Len(recvd) = at[Len(inbox)] + Len(<<>>)
  <2>1. Len(recvd) \in Nat /\ Len(<<>>) = 0
    BY FileTypes
  <2>2. QED
    BY <2>1
<1>4. ClientAt(at)'
  BY <1>1, <1>2, <1>3 DEF Layout, ClientAt, Ended
<1>5. QED
  BY <1>1, <1>4, ClientSteps

LEMMA ClientLeavesFile ==
  ASSUME FInv, ClientLeaves, UNCHANGED <<outbox, inbox>>, NEW at, Layout(at)
  PROVE  Layout(at)'
<1>1. /\ cpc' = "closed" /\ (sock' = "open" => sock = "open")
      /\ UNCHANGED <<serverVars, stream, sent>>
  BY DEF ClientLeaves, ClientCloses, Hangup
<1>2. ClientAt(at)'
  BY <1>1 DEF Layout, ClientAt
<1>3. QED
  BY <1>1, <1>2, ClientSteps

Fresh ==
  /\ outbox = <<>> /\ inbox = <<>>
  /\ sent = <<>> /\ recvd = <<>> /\ file = <<>>
  /\ spc = "idle"

\* A connection that has just begun.
LEMMA LayoutNew == Fresh => Laid
<1> SUFFICES ASSUME Fresh
             PROVE  Laid
  OBVIOUS
<1> USE DEF Fresh
<1> DEFINE at == [k \in {0} |-> 0]
<1>1. Len(outbox) = 0 /\ Len(inbox) = 0 /\ Len(sent) = 0 /\ Len(recvd) = 0
  OBVIOUS
<1>2. 0 .. 0 = {0} /\ 1 .. 0 = {}
  OBVIOUS
<1>3. Starts(at, outbox)
  BY <1>1, <1>2 DEF Starts
<1>4. Lies(at, outbox, sent)
  BY <1>1, <1>2 DEF Lies
<1>5. ServerAt(at)
  BY <1>1 DEF ServerAt
<1>6. ClientAt(at)
  BY <1>1, <1>2 DEF ClientAt, Beginning
<1> HIDE DEF at
<1>7. QED
  BY <1>3, <1>4, <1>5, <1>6 DEF Layout, Laid

\* Every step is one of the link.
LEMMA FileNextIsNext ==
  ASSUME [FileNext]_<<vars, fileVars>>
  PROVE  [Next]_vars
<1>1. CASE FileSends
  BY <1>1 DEF FileSends, Next, ServerSends
<1>2. CASE FileReads \/ FileReconnect \/ FileStays
  BY <1>2 DEF FileReads, FileReconnect, FileStays, Next
<1>3. QED
  BY <1>1, <1>2 DEF FileNext

LEMMA InitFInv == FileInit => FInv
<1> SUFFICES ASSUME FileInit
             PROVE  FInv
  OBVIOUS
<1>1. RInv
  BY InitRInv DEF FileInit
<1>2. Laid
  BY LayoutNew DEF Fresh, FileInit, Init, WireInit, ServerInit, ClientInit
<1>3. Sound
  BY EmptySeq DEF Sound, FileInit, Init, WireInit, ClientInit
<1>4. QED
  BY <1>1, <1>2, <1>3 DEF FInv, FileInit

\* What is received stays of what was sent: a client that is astray after the
\* server's end receives nothing.
LEMMA NextSound ==
  ASSUME FInv, RInv', ~SlowNetwork, [Next]_vars
  PROVE  Sound'
<1>1. /\ recvd \in Seq(Item) /\ file \in Seq(Data)
      /\ Len(recvd) <= Len(sent)
      /\ \A k \in 1 .. Len(recvd) : recvd[k] = sent[k]
  BY DEF FInv, Sound
<1>2. CASE ~astray'
  <2>1. recvd' \in Seq(Item)
    BY <1>2, ItemsOnlyNext DEF RInv
  <2>2. QED
    BY <1>2, <2>1 DEF Sound, RInv, IInv, InOrder
<1>3. CASE astray'
  <2>1. spc' = "down" /\ rd' = Len(stream')
    BY <1>3 DEF RInv, StaysOnCourse
  <2>2. ~ClientReads
    <3>1. ClientReads => astray' = astray /\ rd < Len(stream)
      BY DEF ClientReads, ReadStep, ReadPart, HeaderRead, CacheMiss, DataRead,
             ReadLast, Take
    <3>2. QED
      BY <1>3, <3>1, ReadsOnCourse DEF FInv
  <2>3. ~ServerWrites
    <3>1. ServerWrites => astray' = astray /\ spc # "down"
      BY DEF ServerWrites, ServerStep, SendBlock, SendData, SendEof, clientVars
    <3>2. QED
      BY <1>3, <3>1 DEF FInv, RInv, BetweenFiles
  <2>4. ~Reconnect
    BY <1>3 DEF Reconnect, ClientConnect
  <2>5. UNCHANGED <<sent, recvd>> /\ (file' = file \/ file' = <<>>)
    BY <2>2, <2>3, <2>4
       DEF Next, vars, wireVars, clientVars, ServerSends, SendFile, ServerEnds, ServerStops,
           ClientStarts, StartReceive, ReadGivesUp, ReadFails, ReturnNull, ClientLeaves,
           ClientCloses
  <2>6. QED
    BY <1>1, <2>5, EmptySeq DEF Sound
<1>4. QED
  BY <1>2, <1>3

\* The layout survives every step.
LEMMA NextLayout ==
  ASSUME FInv, Sound', ~SlowNetwork, [FileNext]_<<vars, fileVars>>
  PROVE  Laid'
<1>1. PICK at : Layout(at)
  BY DEF FInv, Laid
<1> SUFFICES \E a : Layout(a)'
  BY DEF Laid
<1>2. CASE FileSends
  BY <1>1, <1>2, FileSendsStep
<1>3. CASE FileReads
  BY <1>1, <1>3, FileReadsStep
<1>4. CASE FileReconnect
  <2>1. Fresh'
    BY <1>4 DEF Fresh, FileReconnect, Reconnect, WireConnect, ClientConnect, serverVars
  <2>2. (Fresh => Laid)'
    BY LayoutNew, PTL
  <2>3. QED
    BY <2>1, <2>2 DEF Laid
<1>5. CASE FileStays
  <2>1. UNCHANGED <<outbox, inbox>>
    BY <1>5 DEF FileStays, fileVars
  <2>2. CASE ServerWrites
    BY <1>1, <2>1, <2>2, SendBlockFile, SendDataFile, SendEofFile DEF ServerWrites, ServerStep
  <2>3. CASE ServerEnds
    BY <1>1, <2>1, <2>3, ServerStopsFile DEF ServerEnds
  <2>4. CASE ClientStarts
    BY <1>1, <2>1, <2>4, ClientStartsFile
  <2>5. CASE ReadGivesUp
    <3>1. ClientAt(at)'
      BY <1>1, <2>1, <2>5, GivesUpFile
    <3>2. UNCHANGED <<serverVars, stream, sent, sock>>
      BY <2>5 DEF ReadGivesUp, ReadFails, wireVars
    <3>3. QED
      BY <1>1, <2>1, <3>1, <3>2, ClientSteps
  <2>6. CASE ClientLeaves
    BY <1>1, <2>1, <2>6, ClientLeavesFile
  <2>7. QED
    BY <1>5, <2>2, <2>3, <2>4, <2>5, <2>6 DEF FileStays
<1>6. CASE UNCHANGED <<vars, fileVars>>
  BY <1>1, <1>6 DEF vars, fileVars, wireVars, serverVars, clientVars, Layout, ServerAt, ClientAt,
                    Beginning, Ended
<1>7. QED
  BY <1>2, <1>3, <1>4, <1>5, <1>6 DEF FileNext

LEMMA NextFInv ==
  ASSUME FInv, ~SlowNetwork, [FileNext]_<<vars, fileVars>>
  PROVE  FInv'
<1>1. RInv'
  BY FileNextIsNext, NextRInv DEF FInv
<1>2. Sound' /\ Laid'
  BY <1>1, FileNextIsNext, NextSound, NextLayout
<1>3. outbox' \in Seq(Files)
  <2>1. outbox \in Seq(Files)
    BY DEF FInv
  <2>2. \A f \in Files : Append(outbox, f) \in Seq(Files)
    BY <2>1, AppendKeeps
  <2>3. <<>> \in Seq(Files)
    OBVIOUS
  <2>4. \/ outbox' = outbox \/ outbox' = <<>>
        \/ \E f \in Files : outbox' = Append(outbox, f)
    BY DEF FileNext, FileSends, FileReads, FileReconnect, FileStays, fileVars
  <2>5. QED
    BY <2>1, <2>2, <2>3, <2>4
<1>4. inbox' \in Seq(Seq(Data))
  <2>1. file \in Seq(Data) /\ inbox \in Seq(Seq(Data))
    BY FileTypes
  <2>2. Append(inbox, file) \in Seq(Seq(Data))
    BY <2>1, AppendKeeps
  <2>3. inbox' = inbox \/ inbox' = Append(inbox, file) \/ inbox' = <<>>
    BY DEF FileNext, FileSends, FileReads, FileReconnect, FileStays, fileVars
  <2>4. <<>> \in Seq(Seq(Data))
    OBVIOUS
  <2>5. QED
    BY <2>1, <2>2, <2>3, <2>4
<1>5. QED
  BY <1>1, <1>2, <1>3, <1>4 DEF FInv

LEMMA InitCounted == FileInit => Counted
BY DEF FileInit, Init, ClientInit, Counted

LEMMA NextCounted ==
  ASSUME FInv, Counted, [FileNext]_<<vars, fileVars>>
  PROVE  Counted'
<1>1. file \in Seq(Data) /\ \A b : Len(Append(file, b)) = Len(file) + 1
  BY FileTypes
<1>2. ASSUME ReturnNull, cpc \in {"header", "data"}
      PROVE  Counted'
  BY <1>2 DEF ReturnNull, Counted
<1>3. ASSUME NEW b, Deliver(b), cpc \in {"header", "data"}
      PROVE  Counted'
  BY <1>1, <1>3 DEF Deliver, Counted
<1>4. CASE ReadGivesUp
  BY <1>2, <1>4 DEF ReadGivesUp, ReadFails
<1>5. CASE ClientReads
  <2>1. CASE HeaderRead
    <3>1. \/ ReturnNull
          \/ \E b : Deliver(b)
          \/ cpc' = "data" /\ UNCHANGED <<file, nblocks>>
      BY <2>1 DEF HeaderRead
    <3>2. QED
      BY <1>2, <1>3, <2>1, <3>1 DEF HeaderRead, Counted
  <2>2. CASE DataRead
    BY <1>3, <2>2 DEF DataRead
  <2>3. QED
    BY <1>5, <2>1, <2>2 DEF ClientReads, ReadStep, ReadPart, CacheMiss, Counted
<1>6. CASE ClientStarts
  BY <1>6 DEF ClientStarts, StartReceive, Counted
<1>7. CASE ClientLeaves
  BY <1>7 DEF ClientLeaves, ClientCloses, Counted
<1>8. CASE Reconnect
  BY <1>8 DEF Reconnect, ClientConnect, Counted
<1>9. CASE UNCHANGED clientVars
  BY <1>9 DEF clientVars, Counted
<1>10. QED
  BY <1>4, <1>5, <1>6, <1>7, <1>8, <1>9
     DEF FileNext, FileSends, FileReads, FileReconnect, FileStays, ServerWrites, ServerEnds, vars

(***************************************************************************)
(* What callers of the library see.                                        *)
(***************************************************************************)

\* For any files, chunks, hash and number of clients there is, on a network that is
\* not slow, always a place in the items where the next file to be received begins.
THEOREM FileInvariance == ~SlowNetwork => (FileSpec => [](FInv /\ Counted))
<1> SUFFICES ASSUME ~SlowNetwork
             PROVE  FileSpec => [](FInv /\ Counted)
  OBVIOUS
<1>1. FInv /\ [FileNext]_<<vars, fileVars>> => FInv'
  BY NextFInv
<1>2. QED
  BY <1>1, InitFInv, InitCounted, NextCounted, PTL DEF FileSpec

\* A receive_file that returns has written one whole file or nothing, unless the
\* server has ended; what a running one has written begins the next file.
THEOREM WholeFiles == FileSpec => []FilesWhole
<1>1. CASE SlowNetwork
  <2>1. FilesWhole
    BY <1>1 DEF FilesWhole
  <2>2. QED
    BY <2>1, PTL
<1>2. CASE ~SlowNetwork
  <2>1. ASSUME FInv, Counted
        PROVE  FilesWhole
    <3>1. PICK at : ClientAt(at)
      BY <2>1 DEF FInv, Laid, Layout
    <3>2. QED
      BY <2>1, <3>1 DEF ClientAt, Counted, FilesWhole, Beginning, Ended
  <2>2. FileSpec => [](FInv /\ Counted)
    BY <1>2, FileInvariance
  <2>3. QED
    BY <2>1, <2>2, PTL
<1>3. QED
  BY <1>1, <1>2

\* A step that ends a file is FileTransfer's Receive.
LEMMA ReadsCross ==
  ASSUME FInv, FInv', ~SlowNetwork, FileReads
  PROVE  Whole!Receive \/ UNCHANGED <<outbox, inbox>>
<1>1. CASE recvd' = Append(recvd, EOF)
  <2>1. PICK at : Layout(at)
    BY DEF FInv, Laid
  <2>2. cpc \in {"header", "data"} /\ rd < Len(stream) /\ UNCHANGED sent
    <3>1. recvd' # recvd
      BY <1>1, NotReceived
    <3>2. QED
      BY <3>1 DEF FileReads, ClientReads, ReadStep, ReadPart, HeaderRead, CacheMiss, DataRead,
                  ReadLast, Take
  <2>3. Len(inbox) < Len(outbox) /\ file = outbox[Len(inbox) + 1]
    BY <1>1, <2>1, <2>2, FileReceived DEF FInv
  <2>4. QED
    BY <1>1, <2>3 DEF FileReads, Whole!Receive
<1>2. CASE recvd' # Append(recvd, EOF)
  BY <1>2 DEF FileReads
<1>3. QED
  BY <1>1, <1>2

\* On a network that is not slow, the link implements FileTransfer once more, with
\* whole files as its items: this is what the models of the proxies assume.
THEOREM FilesRefine == ~SlowNetwork => (FileSpec => FilesCross)
<1> SUFFICES ASSUME ~SlowNetwork
             PROVE  FileSpec => FilesCross
  OBVIOUS
<1>1. FileInit => Whole!TransferInit
  BY DEF FileInit, Whole!TransferInit
<1>2. ASSUME FInv, FInv', [FileNext]_<<vars, fileVars>>
      PROVE  [Whole!TransferNext]_<<outbox, inbox>>
  <2>1. CASE FileSends
    BY <2>1 DEF FileSends, Whole!TransferNext, Whole!Send
  <2>2. CASE FileReads
    BY <1>2, <2>2, ReadsCross DEF Whole!TransferNext
  <2>3. CASE FileReconnect
    BY <2>3 DEF FileReconnect, Whole!TransferNext, Whole!Connect
  <2>4. CASE FileStays \/ UNCHANGED <<vars, fileVars>>
    BY <2>4 DEF FileStays, fileVars
  <2>5. QED
    BY <1>2, <2>1, <2>2, <2>3, <2>4 DEF FileNext
<1>3. FileSpec => [](FInv /\ Counted)
  BY FileInvariance
<1>4. QED
  BY <1>1, <1>2, <1>3, PTL DEF FileSpec, FilesCross, Whole!TransferSpec
=============================================================================
