--------------------------- MODULE ProxyPairProofs ---------------------------
(***************************************************************************)
(* Proofs about ProxyPair, for any requests, any lengths of responses and  *)
(* any number of descriptors.                                              *)
(***************************************************************************)
EXTENDS ProxyPair, FiniteSetTheorems, SequenceTheorems, TLAPS

(***************************************************************************)
(* The inductive invariant.                                                *)
(***************************************************************************)

\* A connection that psb has still to deal with.
Ahead(r) == (\E k \in 1 .. Len(backlog) : backlog[k] = r) \/ (Busy /\ pcur = r)

\* A request hrd has not yet forwarded.
Fresh(r) == resp[r] = <<>> /\ r \notin wrote /\ r \notin cut /\ ~Ahead(r)

\* hrd's browser at each place of its loop.
HrdOK ==
  /\ \A r \in Request : browser[r] \in {"away", "waiting"} => Fresh(r)
  /\ hpc \in {"read", "connect", "write", "receive", "send"} =>
       cur \in Request /\ browser[cur] = "open" /\ hfds >= 2
  /\ hpc \in {"read", "connect"} => Fresh(cur)
  /\ hpc = "write" => resp[cur] = <<>> /\ cur \notin wrote /\ cur \notin cut
  /\ hpc \in {"receive", "send"} => cur \in wrote /\ cur \notin cut
  /\ Running => shut \subseteq wrote

\* What hrd has sent to a browser.
RespOK ==
  /\ \A r \in Request : \A k \in 1 .. Len(resp[r]) :
       \/ resp[r] = <<Page(r)>>
       \/ r \in wrote /\ \E j \in 1 .. taken : resp[r][k] = link[j]
  /\ \A r \in Request : resp[r] = <<Page(r)>> => r \notin wrote
  /\ \A r \in Request : resp[r] # <<Page(r)>> => Len(resp[r]) <= taken

\* psb at each place of its loop.  A connection is accepted once, and what is
\* sent for it follows what was read on it.
PsbOK ==
  /\ Busy => pcur \in Request /\ pfds >= 2
  /\ \A j, k \in 1 .. Len(backlog) : backlog[j] = backlog[k] => j = k
  /\ Busy => \A k \in 1 .. Len(backlog) : backlog[k] # pcur
  /\ ppc \in {"connect", "write"} /\ pasked => pcur \in wrote
  /\ ppc = "relay" => pcur \in wrote
  /\ joined => hpc # "start" /\ ppc # "off"
  /\ ppc \notin {"off", "rabin", "down"} => joined

\* Every connection psb has to deal with is at one of these points in hrd.
KnownOK ==
  \A r \in Request :
    Ahead(r) => \/ r \in wrote \cup shut
                \/ hpc = "write" /\ cur = r
                \/ resp[r] = <<Page(r)>>

\* The files psb has sent: none twice, for each request parts and then the end.
LinkOK ==
  /\ \A j \in 1 .. Len(link) : link[j].of \in wrote
  /\ \A j \in 1 .. Len(link) :
       Ahead(link[j].of) => /\ ppc = "relay" /\ pcur = link[j].of
                            /\ link[j].kind = "piece" /\ link[j].nr <= pieces
  /\ \A i, j \in 1 .. Len(link) : link[i] = link[j] => i = j
  /\ \A i, j \in 1 .. Len(link) : link[i].kind = "end" /\ i < j => link[j].of # link[i].of
  /\ \A j \in 1 .. Len(link) : link[j].kind = "torn" => j = Len(link) /\ ppc = "down"

\* Each part was passed on once.
OnceOK ==
  /\ \A j \in 1 .. taken : link[j].kind # "end" =>
       \E r \in Request : \E k \in 1 .. Len(resp[r]) : resp[r][k] = link[j]
  /\ \A r, s \in Request : \A k \in 1 .. Len(resp[r]), l \in 1 .. Len(resp[s]) :
       resp[r][k] = resp[s][l] => r = s /\ k = l

\* Every request that was written has been answered, was cut off, or is waited for.
Ends(from, to) == {j \in from .. to : link[j].kind = "end"}

CountOK ==
  /\ IsFiniteSet(wrote) /\ IsFiniteSet(cut)
  /\ Running => Cardinality(wrote) = Cardinality(Ends(1, taken)) + Cardinality(cut)
                                      + (IF hpc \in {"receive", "send"} THEN 1 ELSE 0)

IInv == TypeOK /\ HrdOK /\ RespOK /\ PsbOK /\ KnownOK /\ LinkOK /\ OnceOK /\ CountOK

(***************************************************************************)
(* What holds besides, as long as no timeout has come early.               *)
(***************************************************************************)

\* psb sends nothing more: it is not connected to hrd, it has ended, or it waits
\* on a connection hrd has given up.
Halted ==
  \/ hpc # "start" /\ ~joined
  \/ ppc = "down"
  \/ ppc = "read" /\ pcur \notin wrote /\ resp[pcur] = <<Page(pcur)>>

\* What each browser has and is still to get; that nothing of another request is
\* in front of what hrd waits for; and how far psb is ahead of hrd.
OwnOK == \A r \in Request : OwnOf(r) /\ (browser[r] = "closed" => WholeOf(r))

TakenOK == \A j \in 1 .. taken : link[j].kind = "piece" => link[j].nr <= Len(resp[link[j].of])

WaitingOK ==
  \A j \in taken + 1 .. Len(link) :
    /\ hpc \in {"receive", "send"} /\ link[j].of = cur
    /\ link[j].kind # "end" => link[j].nr = Len(resp[cur]) + (j - taken)

AloneOK == Halted \/ \A r \in wrote : Ahead(r) => hpc \in {"receive", "send"} /\ r = cur

RelayOK == ppc = "relay" => pieces = Len(resp[cur]) + (Len(link) - taken)

TornOK ==
  hpc \in {"receive", "send"} =>
    \/ ppc = "down" /\ taken = Len(link)
    \/ \A k \in 1 .. Len(resp[cur]) : resp[cur][k].kind = "piece"

InStep ==
  (~early /\ Running) => OwnOK /\ TakenOK /\ WaitingOK /\ AloneOK /\ RelayOK /\ TornOK

(***************************************************************************)
(* The descriptors: the browsers hrd could not connect for, and those it   *)
(* could not write for, are finitely many, and what psb has not yet dealt  *)
(* with of them is still open.                                             *)
(***************************************************************************)

PagesClosed == {r \in Request : resp[r] = <<Page(r)>> /\ browser[r] = "closed"}
PagesOpen == {r \in Request : resp[r] = <<Page(r)>> /\ browser[r] = "open"}

AheadOpen ==
  Running => \A r \in Request : Ahead(r) /\ resp[r] = <<Page(r)>> => browser[r] = "open"

LeakOK ==
  /\ Running => IsFiniteSet(PagesClosed) /\ IsFiniteSet(PagesOpen)
  /\ AheadOpen
  /\ Leaks
-----------------------------------------------------------------------------
(***************************************************************************)
(* Files and pages.                                                        *)
(***************************************************************************)

Item == File \cup {Page(r) : r \in Request}

LEMMA Files ==
  ASSUME NEW r \in Request
  PROVE  /\ \A n \in 1 .. MaxPieces : Piece(r, n) \in File /\ Torn(r, n) \in File
         /\ End(r) \in File /\ Page(r) \in Item /\ File \subseteq Item
BY DEF File, Item

LEMMA FileFields ==
  ASSUME NEW f \in File
  PROVE  /\ f.of \in Request /\ f.kind \in {"piece", "torn", "end"} /\ f.nr \in 0 .. MaxPieces
         /\ f.kind = "piece" => f = Piece(f.of, f.nr)
         /\ f.kind = "torn" => f = Torn(f.of, f.nr)
         /\ f.kind = "end" => f = End(f.of)
         /\ \A r \in Request : f # Page(r)
BY ProxyAssumption DEF File, Piece, Torn, End, Page

LEMMA InitType == Init => TypeOK
<1> SUFFICES ASSUME Init PROVE TypeOK
  OBVIOUS
<1>1. /\ <<>> \in Seq(Item) /\ <<>> \in Seq(File) /\ <<>> \in Seq(Request) /\ Len(<<>>) = 0
      /\ 0 \in 0 .. MaxFds /\ 0 \in 0 .. MaxPieces /\ 0 \in 0 .. 0
  BY ProxyAssumption
<1>2. resp \in [Request -> Seq(Item)]
  BY <1>1 DEF Init
<1>3. QED
  BY <1>1, <1>2 DEF Init, TypeOK, Item

\* Every step keeps the types.
LEMMA StepType == TypeOK /\ HrdOK /\ PsbOK /\ [Next]_vars => TypeOK'
<1> SUFFICES ASSUME TypeOK, HrdOK, PsbOK, [Next]_vars PROVE TypeOK'
  OBVIOUS
<1> USE ProxyAssumption
<1>0. ASSUME NEW how, HrdEnds(how)
      PROVE  browser' \in [Request -> {"away", "waiting", "refused", "open", "closed"}]
  BY <1>0 DEF HrdEnds, TypeOK
<1>1. ASSUME NEW r \in Request, BrowserConnects(r) PROVE TypeOK'
  BY <1>1 DEF BrowserConnects, TypeOK, hrdVars, connVars, psbVars, linkVars
<1>2. CASE HrdStarts
  BY <1>2 DEF HrdStarts, TypeOK, connVars, psbVars
<1>3. CASE PsbStarts
  BY <1>3 DEF PsbStarts, TypeOK, hrdVars, connVars, linkVars
<1>4. CASE HrdAccept
  <2>1. browser' \in [Request -> {"away", "waiting", "refused", "open", "closed"}]
    BY <1>0, <1>4 DEF HrdAccept, TypeOK
  <2>2. hpc' \in {"read", "down"} /\ hfds' \in 0 .. MaxFds /\ cur' \in Request \cup {None}
    BY <1>4 DEF HrdAccept, HrdEnds, TypeOK
  <2>3. shut' \subseteq Request /\ asked' = asked
    BY <1>4 DEF HrdAccept, HrdEnds, TypeOK
  <2>4. UNCHANGED <<resp, backlog, wrote, ppc, pcur, pasked, pieces, pfds, joined, link, taken, cut,
                    early>>
    BY <1>4 DEF HrdAccept, psbVars, linkVars
  <2>5. QED
    BY <2>1, <2>2, <2>3, <2>4 DEF TypeOK
<1>5. CASE HrdRead
  <2>1. browser' \in [Request -> {"away", "waiting", "refused", "open", "closed"}]
    BY <1>0, <1>5 DEF HrdRead, TypeOK
  <2>2. hpc' \in {"connect", "down"} /\ hfds' \in 0 .. MaxFds /\ asked' \in BOOLEAN
    BY <1>5 DEF HrdRead, HrdEnds, TypeOK
  <2>3. shut' \subseteq Request /\ cur' = cur
    BY <1>5 DEF HrdRead, HrdEnds, TypeOK
  <2>4. UNCHANGED <<resp, backlog, wrote, ppc, pcur, pasked, pieces, pfds, joined, link, taken, cut,
                    early>>
    BY <1>5 DEF HrdRead, psbVars, linkVars
  <2>5. QED
    BY <2>1, <2>2, <2>3, <2>4 DEF TypeOK
<1>6. CASE HrdConnect
  <2>1. cur \in Request /\ hfds >= 2
    BY <1>6 DEF HrdConnect, HrdOK
  <2>2. resp' \in [Request -> Seq(Item)]
    <3>1. resp \in [Request -> Seq(Item)] /\ Page(cur) \in Item
      BY <2>1, Files DEF TypeOK, Item
    <3>2. resp' = resp \/ resp' = [resp EXCEPT ![cur] = Append(resp[cur], Page(cur))]
      BY <1>6 DEF HrdConnect
    <3>3. Append(resp[cur], Page(cur)) \in Seq(Item)
      BY <2>1, <3>1
    <3>4. QED
      BY <3>1, <3>2, <3>3
  <2>3. backlog' \in Seq(Request) /\ hfds' \in 0 .. MaxFds
    <3>1. backlog \in Seq(Request) /\ Append(backlog, cur) \in Seq(Request) /\ hfds \in 0 .. MaxFds
      BY <2>1 DEF TypeOK
    <3>2. QED
      BY <1>6, <2>1, <3>1 DEF HrdConnect
  <2>4. QED
    BY <1>6, <2>1, <2>2, <2>3 DEF HrdConnect, TypeOK, psbVars, linkVars, Item
<1>7. CASE HrdWrite
  <2>1. cur \in Request /\ hfds >= 2
    BY <1>7 DEF HrdWrite, HrdOK
  <2>2. resp' \in [Request -> Seq(Item)]
    <3>1. resp \in [Request -> Seq(Item)] /\ Page(cur) \in Item
      BY <2>1, Files DEF TypeOK, Item
    <3>2. resp' = resp \/ resp' = [resp EXCEPT ![cur] = Append(resp[cur], Page(cur))]
      BY <1>7 DEF HrdWrite
    <3>3. Append(resp[cur], Page(cur)) \in Seq(Item)
      BY <2>1, <3>1
    <3>4. QED
      BY <3>1, <3>2, <3>3
  <2>3. browser' \in [Request -> {"away", "waiting", "refused", "open", "closed"}]
    BY <1>0, <1>7 DEF HrdWrite, TypeOK
  <2>4. UNCHANGED <<cur, asked, backlog, ppc, pcur, pasked, pieces, pfds, joined, link, taken, cut,
                    early>>
    BY <1>7 DEF HrdWrite, HrdEnds, psbVars, linkVars
  <2>5. hpc' \in {"accept", "receive", "down"} /\ hfds' \in 0 .. MaxFds
    BY <1>7 DEF HrdWrite, HrdEnds, TypeOK
  <2>6. wrote' \subseteq Request /\ shut' \subseteq Request
    BY <1>7, <2>1 DEF HrdWrite, HrdEnds, TypeOK
  <2>7. QED
    BY <2>2, <2>3, <2>4, <2>5, <2>6 DEF TypeOK, Item
<1>8. CASE HrdReceives
  <2>1. cur \in Request /\ hfds >= 2 /\ hfds < MaxFds
    BY <1>8 DEF HrdReceives, HrdCloses, OpensFile, HrdOK
  <2>2. resp' \in [Request -> Seq(Item)]
    <3>1. resp \in [Request -> Seq(Item)] /\ link[taken + 1] \in Item
      <4>1. resp \in [Request -> Seq(Item)] /\ link \in Seq(File) /\ taken \in 0 .. Len(link)
        BY DEF TypeOK, Item
      <4>2. taken + 1 \in 1 .. Len(link)
        BY <1>8, <4>1 DEF HrdReceives
      <4>3. link[taken + 1] \in File
        BY <4>1, <4>2
      <4>4. QED
        BY <4>1, <4>3 DEF Item
    <3>2. resp' = resp \/ resp' = [resp EXCEPT ![cur] = Append(resp[cur], link[taken + 1])]
      BY <1>8 DEF HrdReceives, HrdCloses
    <3>3. Append(resp[cur], link[taken + 1]) \in Seq(Item)
      BY <2>1, <3>1
    <3>4. QED
      BY <3>1, <3>2, <3>3
  <2>3. taken' \in 0 .. Len(link) /\ hfds' \in 0 .. MaxFds
    <3>1. taken \in 0 .. Len(link) /\ link \in Seq(File) /\ hfds \in 0 .. MaxFds
      BY DEF TypeOK
    <3>2. taken < Len(link) /\ taken' = taken + 1 /\ (hfds' = hfds + 1 - 0 \/ hfds' = hfds + 1 - 2)
      BY <1>8 DEF HrdReceives, HrdCloses, OpensFile
    <3>3. taken' \in 0 .. Len(link)
      BY <3>1, <3>2
    <3>4. hfds' \in 0 .. MaxFds
      BY <2>1, <3>1, <3>2
    <3>5. QED
      BY <3>3, <3>4
  <2>4. QED
    BY <1>8, <2>1, <2>2, <2>3 DEF HrdReceives, HrdCloses, OpensFile, TypeOK, psbVars, Item
<1>9. CASE HrdTimesOut
  <2>1. cur \in Request /\ hfds >= 2 /\ hfds < MaxFds
    BY <1>9 DEF HrdTimesOut, HrdCloses, OpensFile, HrdOK
  <2>2. early' \in BOOLEAN
    BY <1>9 DEF HrdTimesOut, TypeOK
  <2>3. QED
    BY <1>9, <2>1, <2>2 DEF HrdTimesOut, HrdCloses, OpensFile, TypeOK, psbVars, linkVars
<1>10. CASE HrdAborts
  BY <1>10 DEF HrdAborts, HrdEnds, TypeOK, psbVars, linkVars
<1>11. CASE PsbAccept
  BY <1>11 DEF PsbAccept, TypeOK, hrdVars, linkVars
<1>12. CASE PsbRead
  BY <1>12 DEF PsbRead, TypeOK, hrdVars, connVars, linkVars
<1>13. CASE PsbConnect
  BY <1>13 DEF PsbConnect, PsbOK, Busy, TypeOK, hrdVars, connVars, linkVars
<1>14. CASE PsbWrite
  BY <1>14 DEF PsbWrite, TypeOK, hrdVars, connVars, linkVars
<1>15. ASSUME NEW f \in File, link' = Append(link, f), ppc' \in {"relay", "accept", "down"},
              pieces' \in 0 .. MaxPieces, pfds' \in 0 .. MaxFds,
              UNCHANGED <<browser, resp, hrdVars, connVars, pcur, pasked, joined, taken, cut,
              early>>
       PROVE  TypeOK'
  <2>1. link' \in Seq(File) /\ taken' \in 0 .. Len(link')
    <3>1. link \in Seq(File) /\ taken \in 0 .. Len(link) /\ taken' = taken
      BY <1>15 DEF TypeOK
    <3>2. QED
      BY <1>15, <3>1
  <2>2. UNCHANGED <<browser, resp, hpc, cur, asked, hfds, backlog, wrote, shut, pcur, pasked, joined,
                    taken, cut, early>>
    BY <1>15 DEF hrdVars, connVars
  <2>3. /\ ppc' \in {"off", "rabin", "accept", "read", "connect", "write", "relay", "down"}
        /\ link' \in Seq(File) /\ taken' \in 0 .. Len(link')
        /\ pieces' \in 0 .. MaxPieces /\ pfds' \in 0 .. MaxFds
    BY <1>15, <2>1
  <2>4. QED
    BY <2>2, <2>3 DEF TypeOK
<1>16. CASE PsbRelays
  <2>1. Piece(pcur, pieces + 1) \in File /\ pieces + 1 \in 0 .. MaxPieces
    BY <1>16, Files DEF PsbRelays, PsbOK, Busy, TypeOK
  <2>2. QED
    BY <1>15, <1>16, <2>1 DEF PsbRelays, TypeOK
<1>17. CASE PsbFinishes
  <2>1. End(pcur) \in File /\ pfds - 2 \in 0 .. MaxFds
    BY <1>17, Files DEF PsbFinishes, PsbOK, Busy, TypeOK
  <2>2. QED
    BY <1>15, <1>17, <2>1 DEF PsbFinishes, TypeOK
<1>18. CASE PsbStops
  <2>1. CASE UNCHANGED link
    BY <1>18, <2>1 DEF PsbStops, PsbEnds, TypeOK, hrdVars, connVars
  <2>2. CASE /\ ppc = "relay" /\ pieces < MaxPieces
             /\ link' = Append(link, Torn(pcur, pieces + 1))
    <3>1. Torn(pcur, pieces + 1) \in File
      BY <2>2, Files DEF PsbOK, Busy, TypeOK
    <3>2. /\ ppc' = "down" /\ pieces' = pieces /\ pfds' = 0
          /\ UNCHANGED <<browser, resp, hrdVars, connVars, pcur, pasked, joined, taken, cut, early>>
      BY <1>18 DEF PsbStops, PsbEnds
    <3>3. pieces \in 0 .. MaxPieces
      BY DEF TypeOK
    <3>4. QED
      BY <1>15, <2>2, <3>1, <3>2, <3>3
  <2>3. QED
    BY <1>18, <2>1, <2>2 DEF PsbStops
<1>19. CASE UNCHANGED vars
  <2>1. UNCHANGED <<browser, resp, hpc, cur, asked, hfds, backlog, wrote, shut, ppc, pcur, pasked,
                    pieces, pfds, joined, link, taken, cut, early>>
    BY <1>19 DEF vars, hrdVars, connVars, psbVars, linkVars
  <2>2. QED
    BY <2>1 DEF TypeOK
<1>20. CASE HrdSent
  BY <1>20 DEF HrdSent, TypeOK, connVars, psbVars, linkVars
<1>21. QED
  BY <1>1, <1>2, <1>3, <1>4, <1>5, <1>6, <1>7, <1>8, <1>9, <1>10, <1>11, <1>12, <1>13, <1>14,
     <1>16, <1>17, <1>18, <1>19, <1>20 DEF Next, HrdForwards, PsbWorks
-----------------------------------------------------------------------------
(***************************************************************************)
(* The places of hrd and psb.                                              *)
(***************************************************************************)

\* The steps of hrd and of the browsers, those of psb, and what these leave alone.
Quiet == UNCHANGED <<resp, hpc, cur, hfds, wrote, shut, taken, cut>>

HrdStep ==
  \/ HrdStarts \/ HrdAccept \/ HrdRead \/ HrdForwards \/ HrdSent
  \/ \E r \in Request : BrowserConnects(r)

PsbStep == PsbStarts \/ PsbWorks \/ PsbStops

LEMMA PsbQuiet ==
  ASSUME PsbStep
  PROVE  Quiet /\ UNCHANGED <<browser, joined, early, asked>>
BY DEF PsbStep, PsbStarts, PsbWorks, PsbAccept, PsbRead, PsbConnect, PsbWrite, PsbRelays,
   PsbFinishes,
       PsbStops, Quiet, hrdVars, connVars, linkVars

LEMMA HrdQuiet ==
  ASSUME HrdStep
  PROVE  UNCHANGED <<ppc, pcur, pasked, pieces, pfds, link>>
BY DEF HrdStep, HrdStarts, HrdAccept, HrdRead, HrdForwards, HrdSent, HrdConnect, HrdWrite,
   HrdReceives,
       HrdTimesOut, HrdAborts, BrowserConnects, psbVars, linkVars

\* psb takes connections from the queue and only from there.
LEMMA AheadPsb ==
  ASSUME TypeOK, PsbStep, NEW r \in Request, Ahead(r)'
  PROVE  Ahead(r)
<1>1. CASE PsbAccept
  <2>1. /\ backlog \in Seq(Request) /\ backlog # <<>>
        /\ pcur' = Head(backlog) /\ backlog' = Tail(backlog)
    BY <1>1 DEF PsbAccept, TypeOK
  <2>2. \A k \in 1 .. Len(backlog') : k + 1 \in 1 .. Len(backlog) /\ backlog'[k] = backlog[k + 1]
    BY <2>1
  <2>3. 1 \in 1 .. Len(backlog) /\ pcur' = backlog[1]
    BY <2>1
  <2>4. QED
    BY <2>2, <2>3 DEF Ahead
<1>2. CASE ~PsbAccept
  BY <1>2 DEF PsbStep, PsbStarts, PsbWorks, PsbRead, PsbConnect, PsbWrite, PsbRelays, PsbFinishes,
     PsbStops,
              PsbEnds, Ahead, Busy, connVars
<1>3. QED
  BY <1>1, <1>2

\* hrd adds the connection of cur.
LEMMA AheadHrd ==
  ASSUME TypeOK, HrdOK, HrdStep, NEW r \in Request
  PROVE  Ahead(r)' <=> Ahead(r) \/ (HrdConnect /\ hpc' = "write" /\ r = cur)
<1>1. UNCHANGED <<ppc, pcur>>
  BY HrdQuiet
<1>2. CASE HrdConnect /\ hpc' = "write"
  <2>1. backlog' = Append(backlog, cur) /\ backlog \in Seq(Request) /\ cur \in Request
    BY <1>2 DEF HrdConnect, HrdOK, TypeOK
  <2>2. /\ Len(backlog') = Len(backlog) + 1 /\ Len(backlog) \in Nat
        /\ \A k \in 1 .. Len(backlog) : backlog'[k] = backlog[k]
        /\ backlog'[Len(backlog) + 1] = cur
    BY <2>1
  <2>3. (\E k \in 1 .. Len(backlog') : backlog'[k] = r)
          <=> (\E k \in 1 .. Len(backlog) : backlog[k] = r) \/ r = cur
    <3>1. \A k \in 1 .. Len(backlog') : k \in 1 .. Len(backlog) \/ k = Len(backlog) + 1
      BY <2>2
    <3>2. \A k \in 1 .. Len(backlog) : k \in 1 .. Len(backlog')
      BY <2>2
    <3>3. Len(backlog) + 1 \in 1 .. Len(backlog')
      BY <2>2
    <3>4. QED
      BY <2>2, <3>1, <3>2, <3>3
  <2>4. QED
    BY <1>1, <1>2, <2>3 DEF Ahead, Busy
<1>3. CASE ~(HrdConnect /\ hpc' = "write")
  <2>1. backlog' = backlog
    BY <1>3 DEF HrdStep, HrdStarts, HrdAccept, HrdRead, HrdForwards, HrdSent, HrdConnect, HrdWrite,
       HrdReceives,
                HrdTimesOut, HrdAborts, BrowserConnects, connVars
  <2>2. QED
    BY <1>1, <1>3, <2>1 DEF Ahead, Busy
<1>4. QED
  BY <1>2, <1>3

LEMMA PsbHrdOK ==
  ASSUME TypeOK, HrdOK, PsbStep
  PROVE  HrdOK'
<1>1. Quiet /\ browser' = browser
  BY PsbQuiet
<1>2. \A r \in Request : Fresh(r) => Fresh(r)'
  <2>1. \A r \in Request : Ahead(r)' => Ahead(r)
    BY AheadPsb
  <2>2. QED
    BY <1>1, <2>1 DEF Fresh, Quiet
<1>3. QED
  BY <1>1, <1>2 DEF HrdOK, Quiet, Running

\* hrd ends: it closes the connections of all browsers and does nothing else.
LEMMA HrdHalts ==
  ASSUME HrdStep, ~Running'
  PROVE  /\ Running /\ ~HrdConnect
         /\ UNCHANGED <<resp, wrote, cut, taken, early>>
         /\ browser' = [r \in Request |-> CASE browser[r] = "open" -> "closed"
                                             [] browser[r] = "waiting" -> "refused"
                                             [] OTHER -> browser[r]]
<1>1. ASSUME NEW how, HrdEnds(how)
      PROVE  browser' = [r \in Request |-> CASE browser[r] = "open" -> "closed"
                                             [] browser[r] = "waiting" -> "refused"
                                             [] OTHER -> browser[r]]
  BY <1>1 DEF HrdEnds
<1>2. ~HrdStarts /\ ~HrdConnect /\ ~HrdReceives /\ ~HrdTimesOut /\ ~HrdSent
      /\ ~\E r \in Request : BrowserConnects(r)
  BY DEF HrdStarts, HrdConnect, HrdReceives, HrdTimesOut, HrdCloses, HrdSent, BrowserConnects,
     hrdVars,
         Running
<1>3. CASE HrdAccept
  BY <1>1, <1>2, <1>3 DEF HrdAccept, linkVars, Running
<1>4. CASE HrdRead
  BY <1>1, <1>2, <1>4 DEF HrdRead, linkVars, Running
<1>5. CASE HrdWrite
  BY <1>1, <1>2, <1>5 DEF HrdWrite, linkVars, Running
<1>6. CASE HrdAborts
  BY <1>1, <1>2, <1>6 DEF HrdAborts, linkVars, Running
<1>7. QED
  BY <1>2, <1>3, <1>4, <1>5, <1>6 DEF HrdStep, HrdForwards

\* hrd acts for one browser, and the others are where they were.
LEMMA OneAtATime ==
  ASSUME TypeOK, HrdOK, Running', HrdRead \/ HrdForwards \/ HrdSent
  PROVE  /\ cur \in Request /\ cur' = cur /\ browser[cur] = "open" /\ hfds >= 2
         /\ hpc \in {"read", "connect", "write", "receive", "send"}
         /\ browser'[cur] \in {"open", "closed"} /\ (browser'[cur] = "closed" => hpc' = "accept")
         /\ \A r \in Request : r # cur => browser'[r] = browser[r] /\ resp'[r] = resp[r]
         /\ wrote' = wrote \/ (wrote' = wrote \cup {cur} /\ hpc = "write" /\ hpc' \in {"receive", "send"})
         /\ cut' = cut \/ (cut' = cut \cup {cur} /\ hpc \in {"receive", "send"} /\ hpc' = "accept")
<1>0. /\ browser \in [Request -> {"away", "waiting", "refused", "open", "closed"}]
      /\ resp \in [Request -> Seq(Item)]
  BY DEF TypeOK, Item
<1>1. CASE HrdRead
  BY <1>0, <1>1 DEF HrdRead, HrdEnds, HrdOK, Running
<1>2. CASE HrdConnect
  BY <1>0, <1>2 DEF HrdConnect, HrdOK
<1>3. CASE HrdWrite
  BY <1>0, <1>3 DEF HrdWrite, HrdEnds, HrdOK, Running
<1>4. CASE HrdReceives
  BY <1>0, <1>4 DEF HrdReceives, HrdCloses, OpensFile, HrdOK
<1>5. CASE HrdTimesOut
  BY <1>0, <1>5 DEF HrdTimesOut, HrdCloses, OpensFile, HrdOK
<1>6. ~HrdAborts
  BY DEF HrdAborts, HrdEnds, Running
<1>7. CASE HrdSent
  BY <1>0, <1>7 DEF HrdSent, HrdOK, connVars
<1>8. QED
  BY <1>1, <1>2, <1>3, <1>4, <1>5, <1>6, <1>7 DEF HrdForwards

LEMMA HrdHrdOK ==
  ASSUME TypeOK, TypeOK', HrdOK, HrdStep
  PROVE  HrdOK'
<1>0. /\ browser \in [Request -> {"away", "waiting", "refused", "open", "closed"}]
      /\ resp \in [Request -> Seq(Item)]
  BY DEF TypeOK, Item
<1>1. ASSUME NEW r \in Request, Fresh(r), resp'[r] = resp[r], wrote' = wrote \/ r # cur,
             wrote' = wrote \/ wrote' = wrote \cup {cur}, cut' = cut,
             ~(HrdConnect /\ hpc' = "write" /\ r = cur)
      PROVE  Fresh(r)'
  BY <1>1, AheadHrd DEF Fresh
<1>2. CASE HrdStarts
  <2>1. UNCHANGED <<browser, resp, cur, hfds, wrote, shut, cut>> /\ hpc = "start" /\ hpc' = "accept"
    BY <1>2 DEF HrdStarts, connVars
  <2>2. ~HrdConnect
    BY <2>1 DEF HrdConnect
  <2>3. QED
    BY <1>1, <2>1, <2>2 DEF HrdOK, Running
<1>3. ASSUME NEW r \in Request, BrowserConnects(r) PROVE HrdOK'
  <2>1. /\ UNCHANGED <<resp, hpc, cur, hfds, wrote, shut, cut>>
        /\ browser' = [browser EXCEPT ![r] = "waiting"] /\ browser[r] = "away"
    BY <1>3 DEF BrowserConnects, hrdVars, connVars
  <2>2. hpc' # "write" \/ ~HrdConnect
    BY <2>1 DEF HrdConnect
  <2>3. QED
    BY <1>0, <1>1, <2>1, <2>2 DEF HrdOK, Running
<1>4. CASE HrdAccept /\ Running'
  <2>1. UNCHANGED <<resp, wrote, cut>> /\ ~HrdConnect
    BY <1>4 DEF HrdAccept, HrdConnect
  <2>2. \A r \in Request : Fresh(r) => Fresh(r)'
    BY <1>1, <2>1
  <2>3. hpc' = "read"
    BY <1>4 DEF HrdAccept, HrdEnds, Running
  <2>4. QED
    <3>1. PICK r \in Request :
            /\ browser[r] = "waiting" /\ browser' = [browser EXCEPT ![r] = "open"] /\ cur' = r
            /\ hfds' = hfds + 2 /\ shut' = shut /\ hpc = "accept"
      BY <1>4, <2>3 DEF HrdAccept, HrdEnds
    <3>2. hfds' >= 2
      BY <3>1 DEF TypeOK
    <3>3. \A q \in Request : browser'[q] \in {"away", "waiting"} => browser[q] \in {"away", "waiting"}
      BY <1>0, <3>1
    <3>4. browser'[cur'] = "open" /\ Fresh(r)'
      BY <1>0, <2>2, <3>1 DEF HrdOK
    <3>5. QED
      BY <2>1, <2>2, <2>3, <3>1, <3>2, <3>3, <3>4 DEF HrdOK, Running, Fresh
<1>5. CASE (HrdRead \/ HrdForwards \/ HrdSent) /\ Running'
  <2>1. /\ cur \in Request /\ cur' = cur /\ browser[cur] = "open" /\ hfds >= 2
        /\ browser'[cur] \in {"open", "closed"} /\ (browser'[cur] = "closed" => hpc' = "accept")
        /\ \A r \in Request : r # cur => browser'[r] = browser[r] /\ resp'[r] = resp[r]
        /\ wrote' = wrote \/ (wrote' = wrote \cup {cur} /\ hpc = "write" /\ hpc' \in {"receive", "send"})
        /\ cut' = cut \/ (cut' = cut \cup {cur} /\ hpc \in {"receive", "send"} /\ hpc' = "accept")
    BY <1>5, OneAtATime
  <2>2. \A r \in Request : browser'[r] \in {"away", "waiting"} => Fresh(r)'
    <3>1. SUFFICES ASSUME NEW r \in Request, browser'[r] \in {"away", "waiting"} PROVE Fresh(r)'
      OBVIOUS
    <3>2. r # cur /\ Fresh(r)
      BY <2>1, <3>1 DEF HrdOK
    <3>3. Ahead(r)' => Ahead(r)
      BY <3>2, AheadHrd
    <3>4. QED
      BY <2>1, <3>2, <3>3 DEF Fresh
  <2>3. CASE HrdRead
    <3>1. /\ UNCHANGED <<resp, wrote, cut>> /\ hpc = "read"
          /\ hpc' = "connect" /\ UNCHANGED <<hfds, shut>>
      BY <1>5, <2>3 DEF HrdRead, HrdEnds, Running
    <3>2. Fresh(cur)
      BY <3>1 DEF HrdOK
    <3>3. ~HrdConnect
      BY <3>1 DEF HrdConnect
    <3>4. Fresh(cur)'
      BY <2>1, <3>1, <3>2, <3>3, <1>1 DEF Fresh
    <3>5. QED
      BY <2>1, <2>2, <3>1, <3>4 DEF HrdOK, Running
  <2>4. CASE HrdConnect
    <3>1. Fresh(cur) /\ UNCHANGED <<wrote, shut, cut>>
          /\ \/ hpc' = "write" /\ UNCHANGED <<resp, hfds>>
             \/ hpc' = "accept"
          /\ hpc = "connect"
      BY <2>4 DEF HrdConnect, HrdOK
    <3>2. QED
      BY <2>1, <2>2, <3>1 DEF HrdOK, Running, Fresh
  <2>5. CASE HrdWrite
    <3>1. /\ hpc = "write" /\ cur \notin cut /\ cut' = cut
          /\ \/ hpc' \in {"receive", "send"} /\ wrote' = wrote \cup {cur} /\ UNCHANGED <<hfds, shut>>
             \/ hpc' = "accept" /\ UNCHANGED <<wrote, shut>>
      BY <1>5, <2>5 DEF HrdWrite, HrdEnds, HrdOK, Running
    <3>2. QED
      BY <2>1, <2>2, <3>1 DEF HrdOK, Running
  <2>6. CASE HrdReceives
    <3>1. /\ hpc \in {"receive", "send"} /\ UNCHANGED <<wrote, cut>> /\ hfds \in Nat
          /\ \/ hpc' = "send" /\ shut' = shut /\ hfds' = hfds + 1 - 0
             \/ hpc' = "accept" /\ shut' = shut \cup {cur}
      BY <2>6 DEF HrdReceives, HrdCloses, OpensFile, TypeOK
    <3>2. QED
      BY <2>1, <2>2, <3>1 DEF HrdOK, Running
  <2>7. CASE HrdTimesOut
    <3>1. hpc \in {"receive", "send"} /\ wrote' = wrote /\ hpc' = "accept" /\ shut' = shut \cup {cur}
      BY <2>7 DEF HrdTimesOut, HrdCloses, OpensFile
    <3>2. QED
      BY <2>1, <2>2, <3>1 DEF HrdOK, Running
  <2>8. ~HrdAborts
    BY <1>5 DEF HrdAborts, HrdEnds, Running
  <2>9. CASE HrdSent
    <3>1. /\ hpc = "send" /\ hpc' = "receive" /\ UNCHANGED <<wrote, shut, cut, hfds>>
      BY <2>9 DEF HrdSent, connVars
    <3>2. QED
      BY <2>1, <2>2, <3>1 DEF HrdOK, Running
  <2>10. QED
    BY <1>5, <2>3, <2>4, <2>5, <2>6, <2>7, <2>8, <2>9 DEF HrdForwards
<1>6. CASE ~Running'
  <2>1. \A r \in Request : browser'[r] \in {"away", "waiting"} => browser[r] = "away"
    BY <1>0, <1>6, HrdHalts
  <2>2. \A r \in Request : browser'[r] \in {"away", "waiting"} => Fresh(r)'
    BY <1>1, <1>6, <2>1, HrdHalts DEF HrdOK
  <2>3. hpc' \in {"down", "aborted"}
    BY <1>6 DEF Running
  <2>4. QED
    BY <1>6, <2>2, <2>3 DEF HrdOK
<1>7. QED
  BY <1>2, <1>3, <1>4, <1>5, <1>6 DEF HrdStep

LEMMA PsbPsbOK ==
  ASSUME TypeOK, TypeOK', PsbOK, PsbStep
  PROVE  PsbOK'
<1>0. UNCHANGED <<hpc, wrote, joined>>
  BY PsbQuiet DEF Quiet
<1>1. CASE PsbAccept
  <2>1. /\ backlog \in Seq(Request) /\ backlog # <<>> /\ pfds \in Nat
        /\ pcur' = Head(backlog) /\ backlog' = Tail(backlog) /\ pfds' = pfds + 2
        /\ ppc = "accept" /\ ppc' = "read"
    BY <1>1 DEF PsbAccept, TypeOK
  <2>2. \A k \in 1 .. Len(backlog') : k + 1 \in 1 .. Len(backlog) /\ backlog'[k] = backlog[k + 1]
    BY <2>1
  <2>3. 1 \in 1 .. Len(backlog) /\ pcur' = backlog[1] /\ pcur' \in Request
    BY <2>1
  <2>4. \A j, k \in 1 .. Len(backlog') : backlog'[j] = backlog'[k] => j = k
    BY <2>2 DEF PsbOK
  <2>5. \A k \in 1 .. Len(backlog') : backlog'[k] # pcur'
    BY <2>2, <2>3 DEF PsbOK
  <2>6. QED
    BY <1>0, <2>1, <2>3, <2>4, <2>5 DEF PsbOK, Busy
<1>2. CASE ~PsbAccept
  <2>1. backlog' = backlog /\ pcur' = pcur
    BY <1>2 DEF PsbStep, PsbStarts, PsbWorks, PsbRead, PsbConnect, PsbWrite, PsbRelays, PsbFinishes,
                PsbStops, PsbEnds, connVars
  <2>2. Busy' => Busy /\ pfds' = pfds
    BY <1>2 DEF PsbStep, PsbStarts, PsbWorks, PsbRead, PsbConnect, PsbWrite, PsbRelays, PsbFinishes,
                PsbStops, PsbEnds, Busy
  <2>3. ppc' \in {"connect", "write"} /\ pasked' => pcur \in wrote
    BY <1>2 DEF PsbStep, PsbStarts, PsbWorks, PsbRead, PsbConnect, PsbWrite, PsbRelays, PsbFinishes,
                PsbStops, PsbEnds, PsbOK
  <2>4. ppc' = "relay" => pcur \in wrote
    BY <1>2 DEF PsbStep, PsbStarts, PsbWorks, PsbRead, PsbConnect, PsbWrite, PsbRelays, PsbFinishes,
                PsbStops, PsbEnds, PsbOK
  <2>5. ppc' \notin {"off", "rabin", "down"} => joined
    BY <1>2 DEF PsbStep, PsbStarts, PsbWorks, PsbRead, PsbConnect, PsbWrite, PsbRelays, PsbFinishes,
                PsbStops, PsbEnds, PsbOK
  <2>6. ppc' = "off" => ppc = "off"
    BY <1>2 DEF PsbStep, PsbStarts, PsbWorks, PsbRead, PsbConnect, PsbWrite, PsbRelays, PsbFinishes,
                PsbStops, PsbEnds
  <2>7. QED
    BY <1>0, <2>1, <2>2, <2>3, <2>4, <2>5, <2>6 DEF PsbOK
<1>3. QED
  BY <1>1, <1>2

LEMMA HrdPsbOK ==
  ASSUME TypeOK, TypeOK', HrdOK, PsbOK, HrdStep
  PROVE  PsbOK'
<1>0. UNCHANGED <<ppc, pcur, pasked, pieces, pfds, link>> /\ (Busy' <=> Busy)
  BY HrdQuiet DEF Busy
<1>1. wrote \subseteq wrote'
  BY DEF HrdStep, HrdStarts, HrdAccept, HrdRead, HrdForwards, HrdSent, HrdConnect, HrdWrite,
     HrdReceives,
         HrdTimesOut, HrdAborts, BrowserConnects, connVars
<1>2. (joined' => hpc' # "start" /\ ppc # "off") /\ (ppc \notin {"off", "rabin", "down"} => joined')
  <2>1. CASE HrdStarts
    BY <2>1 DEF HrdStarts, PsbOK
  <2>2. CASE ~HrdStarts
    <3>1. joined' = joined
      BY <2>2 DEF HrdStep, HrdAccept, HrdRead, HrdForwards, HrdSent, HrdConnect, HrdWrite,
         HrdReceives,
                  HrdTimesOut, HrdAborts, BrowserConnects, linkVars
    <3>2. hpc' = "start" => hpc = "start"
      BY <2>2 DEF HrdStep, HrdAccept, HrdRead, HrdForwards, HrdSent, HrdConnect, HrdWrite,
         HrdReceives,
                  HrdTimesOut, HrdAborts, BrowserConnects, HrdCloses, HrdEnds, hrdVars
    <3>3. QED
      BY <3>1, <3>2 DEF PsbOK
  <2>3. QED
    BY <2>1, <2>2
<1>3. CASE HrdConnect /\ hpc' = "write"
  <2>1. backlog' = Append(backlog, cur) /\ backlog \in Seq(Request) /\ cur \in Request /\ ~Ahead(cur)
    BY <1>3 DEF HrdConnect, HrdOK, TypeOK, Fresh
  <2>2. /\ Len(backlog') = Len(backlog) + 1 /\ Len(backlog) \in Nat
        /\ \A k \in 1 .. Len(backlog) : backlog'[k] = backlog[k]
        /\ backlog'[Len(backlog) + 1] = cur
    BY <2>1
  <2>3. \A k \in 1 .. Len(backlog') : k \in 1 .. Len(backlog) \/ k = Len(backlog) + 1
    BY <2>2
  <2>4. \A k \in 1 .. Len(backlog) : backlog[k] # cur
    BY <2>1 DEF Ahead
  <2>5. \A j, k \in 1 .. Len(backlog') : backlog'[j] = backlog'[k] => j = k
    BY <2>2, <2>3, <2>4 DEF PsbOK
  <2>6. Busy => pcur # cur
    BY <2>1 DEF Ahead
  <2>7. Busy => \A k \in 1 .. Len(backlog') : backlog'[k] # pcur
    BY <2>2, <2>3, <2>6 DEF PsbOK
  <2>8. QED
    BY <1>0, <1>1, <1>2, <2>5, <2>7 DEF PsbOK
<1>4. CASE ~(HrdConnect /\ hpc' = "write")
  <2>1. backlog' = backlog
    BY <1>4 DEF HrdStep, HrdStarts, HrdAccept, HrdRead, HrdForwards, HrdSent, HrdConnect, HrdWrite,
                HrdReceives, HrdTimesOut, HrdAborts, BrowserConnects, connVars
  <2>2. QED
    BY <1>0, <1>1, <1>2, <2>1 DEF PsbOK
<1>5. QED
  BY <1>3, <1>4

LEMMA KnownStep ==
  ASSUME TypeOK, TypeOK', HrdOK, PsbOK, KnownOK, HrdStep \/ PsbStep
  PROVE  KnownOK'
<1>1. CASE PsbStep
  <2>1. UNCHANGED <<wrote, shut, hpc, cur, resp>>
    BY <1>1, PsbQuiet DEF Quiet
  <2>2. QED
    BY <1>1, <2>1, AheadPsb DEF KnownOK
<1>2. CASE HrdStep
  <2>1. SUFFICES ASSUME NEW r \in Request, Ahead(r)'
                 PROVE  (\/ r \in wrote \cup shut
                         \/ hpc = "write" /\ cur = r
                         \/ resp[r] = <<Page(r)>>)'
    BY DEF KnownOK
  <2>2. wrote \subseteq wrote' /\ shut \subseteq shut'
    BY <1>2 DEF HrdStep, HrdStarts, HrdAccept, HrdRead, HrdForwards, HrdSent, HrdConnect, HrdWrite,
         HrdReceives, HrdTimesOut, HrdAborts, BrowserConnects, connVars, HrdCloses, HrdEnds, TypeOK
  <2>3. CASE HrdConnect /\ hpc' = "write" /\ r = cur
    BY <2>3 DEF HrdConnect
  <2>4. CASE Ahead(r)
    <3>1. CASE r \in wrote \cup shut
      BY <2>2, <3>1
    <3>2. CASE resp[r] = <<Page(r)>> /\ r \notin wrote
      <4>0. CASE ~Running'
        BY <1>2, <3>2, <4>0, HrdHalts
      <4>1. CASE (HrdRead \/ HrdForwards \/ HrdSent) /\ Running'
        <5>1. hpc \in {"connect", "write"} => resp[cur] = <<>>
          BY DEF HrdOK, Fresh
        <5>2. hpc \in {"receive", "send"} => cur \in wrote
          BY DEF HrdOK
        <5>3. CASE r = cur
          <6>1. r = cur /\ hpc = "read"
            BY <4>1, <5>1, <5>2, <5>3, <3>2, OneAtATime
          <6>2. QED
            BY <3>2, <6>1 DEF HrdOK, Fresh
        <5>4. CASE r # cur
          BY <3>2, <4>1, <5>4, OneAtATime
        <5>5. QED
          BY <5>3, <5>4
      <4>2. CASE ~(HrdRead \/ HrdForwards \/ HrdSent)
        BY <1>2, <3>2, <4>2 DEF HrdStep, HrdStarts, HrdAccept, BrowserConnects
      <4>3. QED
        BY <4>0, <4>1, <4>2
    <3>3. CASE hpc = "write" /\ cur = r
      <4>1. CASE HrdWrite
        <5>1. resp[r] = <<>> /\ resp \in [Request -> Seq(Item)] /\ cur \in Request
          BY <3>3 DEF HrdOK, TypeOK, Item
        <5>2. \/ wrote' = wrote \cup {cur}
              \/ resp' = [resp EXCEPT ![cur] = Append(@, Page(cur))]
              \/ shut' = Request
          BY <4>1 DEF HrdWrite, HrdEnds
        <5>3. QED
          BY <3>3, <5>1, <5>2
      <4>2. CASE ~HrdWrite
        <5>1. hpc' = hpc /\ cur' = cur
          BY <1>2, <3>3, <4>2 DEF HrdStep, HrdStarts, HrdAccept, HrdRead, HrdForwards, HrdSent,
             HrdConnect,
             HrdReceives, HrdTimesOut, HrdAborts, BrowserConnects, HrdCloses, OpensFile, hrdVars
        <5>2. QED
          BY <3>3, <5>1
      <4>3. QED
        BY <4>1, <4>2
    <3>4. QED
      BY <2>4, <3>1, <3>2, <3>3 DEF KnownOK
  <2>5. QED
    BY <1>2, <2>1, <2>3, <2>4, AheadHrd
<1>3. QED
  BY <1>1, <1>2
-----------------------------------------------------------------------------
(***************************************************************************)
(* The files on the Rabin connection.                                      *)
(***************************************************************************)

LEMMA HrdLinkOK ==
  ASSUME TypeOK, HrdOK, LinkOK, HrdStep
  PROVE  LinkOK'
<1>1. UNCHANGED <<ppc, pcur, pieces, link>>
  BY HrdQuiet
<1>2. wrote \subseteq wrote'
  BY DEF HrdStep, HrdStarts, HrdAccept, HrdRead, HrdForwards, HrdSent, HrdConnect, HrdWrite,
     HrdReceives,
         HrdTimesOut, HrdAborts, BrowserConnects, connVars
<1>3. ASSUME NEW j \in 1 .. Len(link), Ahead(link[j].of)' PROVE Ahead(link[j].of)
  <2>1. link[j].of \in wrote /\ link[j].of \in Request /\ link' = link
    BY <1>1 DEF LinkOK, TypeOK
  <2>2. HrdConnect => cur \notin wrote
    BY DEF HrdConnect, HrdOK, Fresh
  <2>3. PICK r \in Request : r = link[j].of
    BY <2>1
  <2>4. Ahead(r)'
    BY <1>1, <1>3, <2>3
  <2>5. QED
    BY <2>1, <2>2, <2>3, <2>4, AheadHrd
<1>4. QED
  BY <1>1, <1>2, <1>3 DEF LinkOK

\* A file psb sends while it relays for pcur.
LEMMA AppendLinkOK ==
  ASSUME TypeOK, PsbOK, LinkOK, ppc = "relay", wrote' = wrote, pcur' = pcur, backlog' = backlog,
         NEW f \in File, link' = Append(link, f), f.of = pcur,
         f.kind = "piece" => f.nr = pieces + 1,
         f.kind = "torn" => ppc' = "down",
         \/ ppc' = "relay" /\ pieces' = pieces + 1 /\ f.kind = "piece"
         \/ ppc' \in {"accept", "down"}
  PROVE  LinkOK'
<1>1. /\ link \in Seq(File) /\ Len(link') = Len(link) + 1 /\ Len(link) \in Nat /\ pieces \in Nat
      /\ \A j \in 1 .. Len(link) : link'[j] = link[j] /\ link[j] \in File
      /\ link'[Len(link) + 1] = f
      /\ pcur \in Request /\ pcur \in wrote
  BY DEF TypeOK, PsbOK, Busy
<1>2. \A j \in 1 .. Len(link') : j \in 1 .. Len(link) \/ j = Len(link) + 1
  BY <1>1
<1>3. Ahead(pcur)
  BY DEF Ahead, Busy
<1>4. ASSUME NEW j \in 1 .. Len(link), link[j].of = pcur
      PROVE  link[j].kind = "piece" /\ link[j].nr <= pieces /\ link[j] # f
  <2>1. link[j].kind = "piece" /\ link[j].nr <= pieces
    BY <1>3, <1>4 DEF LinkOK
  <2>2. link[j].nr \in 0 .. MaxPieces
    BY <1>1, FileFields
  <2>3. QED
    BY <1>1, <2>1, <2>2, ProxyAssumption
<1>5. \A j \in 1 .. Len(link) : link[j] # f
  BY <1>4
<1>6. \A j \in 1 .. Len(link) : link[j].kind # "torn"
  BY DEF LinkOK
<1>7. \A j \in 1 .. Len(link') : link'[j].of \in wrote'
  BY <1>1, <1>2 DEF LinkOK
<1>8. \A i, j \in 1 .. Len(link') : link'[i] = link'[j] => i = j
  BY <1>1, <1>2, <1>5 DEF LinkOK
<1>9. ASSUME NEW i \in 1 .. Len(link'), NEW j \in 1 .. Len(link'), link'[i].kind = "end", i < j
      PROVE  link'[j].of # link'[i].of
  <2>1. i \in 1 .. Len(link)
    BY <1>1, <1>2, <1>9
  <2>2. CASE j \in 1 .. Len(link)
    BY <1>1, <1>9, <2>1, <2>2 DEF LinkOK
  <2>3. CASE j = Len(link) + 1
    BY <1>1, <1>4, <1>9, <2>1, <2>3
  <2>4. QED
    BY <1>2, <2>2, <2>3
<1>10. \A j \in 1 .. Len(link') : link'[j].kind = "torn" => j = Len(link') /\ ppc' = "down"
  BY <1>1, <1>2, <1>6
<1>11. ASSUME NEW j \in 1 .. Len(link'), Ahead(link[j].of)'
       PROVE  /\ ppc' = "relay" /\ pcur' = link'[j].of
              /\ link'[j].kind = "piece" /\ link'[j].nr <= pieces'
  <2>1. link'[j].of = pcur
    <3>1. CASE j \in 1 .. Len(link)
      <4>1. Ahead(link[j].of)
        BY <1>1, <1>11, <3>1 DEF Ahead, Busy
      <4>2. QED
        BY <1>1, <3>1, <4>1 DEF LinkOK
    <3>2. CASE j = Len(link) + 1
      BY <1>1, <3>2
    <3>3. QED
      BY <1>2, <3>1, <3>2
  <2>2. ppc' = "relay"
    <3>1. \A k \in 1 .. Len(backlog) : backlog[k] # pcur
      BY DEF PsbOK, Busy
    <3>2. QED
      BY <1>11, <2>1, <3>1 DEF Ahead, Busy
  <2>3. pieces' = pieces + 1 /\ f.kind = "piece"
    BY <2>2
  <2>4. CASE j \in 1 .. Len(link)
    <3>1. link[j].of = pcur
      BY <1>1, <2>1, <2>4
    <3>2. link[j].kind = "piece" /\ link[j].nr <= pieces /\ link[j].nr \in 0 .. MaxPieces
      BY <1>1, <1>4, <2>4, <3>1, FileFields
    <3>3. QED
      BY <1>1, <2>1, <2>2, <2>3, <2>4, <3>2, ProxyAssumption
  <2>5. CASE j = Len(link) + 1
    BY <1>1, <2>1, <2>2, <2>3, <2>5
  <2>6. QED
    BY <1>2, <2>4, <2>5
<1>12. QED
  BY <1>7, <1>8, <1>9, <1>10, <1>11 DEF LinkOK

LEMMA PsbLinkOK ==
  ASSUME TypeOK, PsbOK, LinkOK, PsbStep
  PROVE  LinkOK'
<1>0. wrote' = wrote /\ (ppc = "relay" => pcur \in Request)
  BY PsbQuiet DEF Quiet, PsbOK, Busy
<1>1. CASE PsbRelays
  <2>1. Piece(pcur, pieces + 1) \in File
    BY <1>0, <1>1, Files, ProxyAssumption DEF PsbRelays, TypeOK
  <2>2. QED
    BY <1>0, <1>1, <2>1, AppendLinkOK DEF PsbRelays, Piece, connVars
<1>2. CASE PsbFinishes
  <2>1. End(pcur) \in File
    BY <1>0, <1>2, Files DEF PsbFinishes
  <2>2. QED
    BY <1>0, <1>2, <2>1, AppendLinkOK DEF PsbFinishes, End, connVars
<1>3. CASE PsbStops /\ link' # link
  <2>1. ppc = "relay" /\ pieces < MaxPieces /\ link' = Append(link, Torn(pcur, pieces + 1))
    BY <1>3 DEF PsbStops
  <2>2. Torn(pcur, pieces + 1) \in File
    BY <1>0, <2>1, Files, ProxyAssumption DEF TypeOK
  <2>3. QED
    BY <1>0, <1>3, <2>1, <2>2, AppendLinkOK DEF PsbStops, PsbEnds, Torn, connVars
<1>4. CASE ~PsbRelays /\ ~PsbFinishes /\ link' = link
  <2>1. \A j \in 1 .. Len(link) : link[j].kind # "torn"
    BY <1>4 DEF LinkOK, PsbStep, PsbStarts, PsbWorks, PsbAccept, PsbRead, PsbConnect, PsbWrite,
                PsbStops
  <2>2. ASSUME NEW j \in 1 .. Len(link), Ahead(link[j].of)' PROVE FALSE
    <3>1. PICK r \in Request : r = link[j].of
      BY FileFields DEF TypeOK
    <3>2. Ahead(r)'
      BY <1>4, <2>2, <3>1
    <3>3. ppc = "relay" /\ pcur = r
      BY <3>1, <3>2, AheadPsb DEF LinkOK
    <3>4. ppc' = "down" /\ backlog' = backlog
      BY <1>4, <3>3 DEF PsbStep, PsbStarts, PsbWorks, PsbAccept, PsbRead, PsbConnect, PsbWrite,
                        PsbStops, PsbEnds, connVars
    <3>5. QED
      BY <3>2, <3>3, <3>4 DEF PsbOK, Busy, Ahead
  <2>3. QED
    BY <1>0, <1>4, <2>1, <2>2 DEF LinkOK
<1>5. QED
  BY <1>1, <1>2, <1>3, <1>4 DEF PsbStep, PsbStarts, PsbWorks, PsbAccept, PsbRead, PsbConnect,
     PsbWrite,
     PsbStops, linkVars
-----------------------------------------------------------------------------
(***************************************************************************)
(* What the browsers are sent.                                             *)
(***************************************************************************)

\* What a step of hrd does to the responses: nothing, an error page, a file.
Appends(x) == cur \in Request /\ wrote' = wrote /\ resp' = [resp EXCEPT ![cur] = Append(@, x)]

Writes ==
  /\ UNCHANGED <<resp, taken>>
  /\ \/ wrote' = wrote
     \/ cur \in Request /\ resp[cur] = <<>> /\ wrote' = wrote \cup {cur}

TakesEnd ==
  /\ UNCHANGED <<resp, wrote>>
  /\ taken < Len(link) /\ taken' = taken + 1 /\ link[taken + 1].kind = "end"

SendsPage == resp[cur] = <<>> /\ cur \notin wrote /\ taken' = taken /\ Appends(Page(cur))

PassesFile ==
  /\ cur \in wrote
  /\ taken < Len(link) /\ taken' = taken + 1 /\ link[taken + 1].kind # "end"
  /\ Appends(link[taken + 1])

LEMMA HrdChanges ==
  ASSUME TypeOK, HrdOK, HrdStep
  PROVE  Writes \/ TakesEnd \/ SendsPage \/ PassesFile
<1>1. CASE HrdStarts \/ HrdAccept \/ HrdRead \/ HrdSent \/ HrdTimesOut \/ HrdAborts
  BY <1>1 DEF HrdStarts, HrdAccept, HrdRead, HrdSent, HrdTimesOut, HrdAborts, HrdCloses, connVars,
     linkVars, Writes
<1>2. CASE \E r \in Request : BrowserConnects(r)
  BY <1>2 DEF BrowserConnects, connVars, linkVars, Writes
<1>3. CASE HrdConnect
  BY <1>3 DEF HrdConnect, HrdOK, Fresh, linkVars, Writes, SendsPage, Appends
<1>4. CASE HrdWrite
  BY <1>4 DEF HrdWrite, HrdOK, linkVars, Writes, SendsPage, Appends
<1>5. CASE HrdReceives
  <2>1. cur \in Request /\ cur \in wrote /\ taken < Len(link) /\ taken' = taken + 1 /\ wrote' = wrote
    BY <1>5 DEF HrdReceives, HrdCloses, OpensFile, HrdOK
  <2>2. \/ resp' = resp /\ link[taken + 1].kind = "end"
        \/ /\ resp' = [resp EXCEPT ![cur] = Append(@, link[taken + 1])]
           /\ link[taken + 1].kind # "end"
    BY <1>5 DEF HrdReceives, HrdCloses
  <2>3. QED
    BY <2>1, <2>2 DEF TakesEnd, PassesFile, Appends
<1>6. QED
  BY <1>1, <1>2, <1>3, <1>4, <1>5 DEF HrdStep, HrdForwards

LEMMA Appended ==
  ASSUME TypeOK, NEW x \in Item, Appends(x)
  PROVE  /\ \A r \in Request : \A k \in 1 .. Len(resp[r]) :
              k \in 1 .. Len(resp'[r]) /\ resp'[r][k] = resp[r][k]
         /\ \A r \in Request : \A k \in 1 .. Len(resp'[r]) :
              k \in 1 .. Len(resp[r]) \/ (r = cur /\ k = Len(resp[cur]) + 1)
         /\ \A r \in Request : r # cur => resp'[r] = resp[r]
         /\ Len(resp[cur]) \in Nat /\ Len(resp'[cur]) = Len(resp[cur]) + 1
         /\ resp'[cur] = Append(resp[cur], x) /\ resp'[cur][Len(resp[cur]) + 1] = x
<1>1. resp \in [Request -> Seq(Item)] /\ cur \in Request
  BY DEF TypeOK, Item, Appends
<1>2. \A r \in Request : resp'[r] = IF r = cur THEN Append(resp[cur], x) ELSE resp[r]
  BY <1>1 DEF Appends
<1>3. resp[cur] \in Seq(Item)
  BY <1>1
<1>4. /\ Len(Append(resp[cur], x)) = Len(resp[cur]) + 1 /\ Len(resp[cur]) \in Nat
      /\ \A k \in 1 .. Len(resp[cur]) : Append(resp[cur], x)[k] = resp[cur][k]
      /\ Append(resp[cur], x)[Len(resp[cur]) + 1] = x
  BY <1>3
<1>5. \A r \in Request : r # cur => resp'[r] = resp[r] /\ Len(resp[r]) \in Nat
  BY <1>1, <1>2
<1>6. resp'[cur] = Append(resp[cur], x)
  BY <1>1, <1>2
<1>7. \A r \in Request : \A k \in 1 .. Len(resp[r]) :
        k \in 1 .. Len(resp'[r]) /\ resp'[r][k] = resp[r][k]
  BY <1>4, <1>5, <1>6
<1>8. \A k \in 1 .. Len(resp[cur]) + 1 : k \in 1 .. Len(resp[cur]) \/ k = Len(resp[cur]) + 1
  BY <1>4
<1>9. QED
  BY <1>4, <1>5, <1>6, <1>7, <1>8

\* The files psb has sent stay as they are.
LEMMA LinkGrows ==
  ASSUME TypeOK, HrdStep \/ PsbStep
  PROVE  /\ Len(link) \in Nat /\ Len(link') \in Nat /\ Len(link) <= Len(link')
         /\ \A j \in 1 .. Len(link) : link'[j] = link[j]
<1>1. link \in Seq(File)
  BY DEF TypeOK
<1>2. \/ link' = link
      \/ \E f \in {Piece(pcur, pieces + 1), Torn(pcur, pieces + 1), End(pcur)} :
           link' = Append(link, f)
  <2>1. CASE HrdStep
    BY <2>1, HrdQuiet
  <2>2. CASE PsbStep
    BY <2>2 DEF PsbStep, PsbStarts, PsbWorks, PsbAccept, PsbRead, PsbConnect, PsbWrite, PsbRelays,
       PsbFinishes, PsbStops, linkVars
  <2>3. QED
    BY <2>1, <2>2
<1>3. QED
  BY <1>1, <1>2

LEMMA RespStep ==
  ASSUME TypeOK, HrdOK, RespOK, HrdStep \/ PsbStep
  PROVE  RespOK'
<1>0. resp \in [Request -> Seq(Item)] /\ taken \in 0 .. Len(link) /\ Len(link) \in Nat
  <2>1. link \in Seq(File) /\ taken \in 0 .. Len(link) /\ resp \in [Request -> Seq(Item)]
    BY DEF TypeOK, Item
  <2>2. QED
    BY <2>1
<1>1. \A j \in 1 .. taken : j \in 1 .. Len(link) /\ link'[j] = link[j]
  BY <1>0, LinkGrows
<1>2. CASE resp' = resp /\ wrote' = wrote /\ (taken' = taken \/ taken' = taken + 1)
  <2>1. taken <= taken' /\ \A j \in 1 .. taken : j \in 1 .. taken'
    BY <1>0, <1>2
  <2>2. \A r \in Request : Len(resp[r]) \in Nat /\ (Len(resp[r]) <= taken => Len(resp[r]) <= taken')
    BY <1>0, <1>2
  <2>3. ASSUME NEW r \in Request, NEW k \in 1 .. Len(resp'[r])
        PROVE  \/ resp'[r] = <<Page(r)>>
               \/ r \in wrote' /\ \E j \in 1 .. taken' : resp'[r][k] = link'[j]
    BY <1>1, <1>2, <2>1 DEF RespOK
  <2>4. QED
    BY <1>2, <2>2, <2>3 DEF RespOK
<1>3. CASE PsbStep
  BY <1>2, <1>3, PsbQuiet DEF Quiet
<1>4. CASE Writes
  <2>1. ASSUME NEW r \in Request, resp[r] = <<Page(r)>> PROVE r \notin wrote'
    BY <1>4, <2>1 DEF Writes, RespOK
  <2>2. wrote \subseteq wrote' /\ resp' = resp /\ taken' = taken
    BY <1>4 DEF Writes
  <2>3. QED
    BY <1>1, <2>1, <2>2 DEF RespOK
<1>5. CASE TakesEnd
  BY <1>2, <1>5 DEF TakesEnd
<1>6. CASE SendsPage
  <2>1. cur \in Request /\ resp'[cur] = <<Page(cur)>> /\ wrote' = wrote /\ taken' = taken
    BY <1>0, <1>6 DEF SendsPage, Appends
  <2>2. \A r \in Request : r # cur => resp'[r] = resp[r]
    BY <1>0, <1>6 DEF SendsPage, Appends
  <2>3. QED
    BY <1>1, <1>6, <2>1, <2>2 DEF RespOK, SendsPage
<1>7. CASE PassesFile
  <2>0. PICK f : f = link[taken + 1]
    OBVIOUS
  <2>1. /\ f \in File /\ f \in Item /\ Appends(f) /\ cur \in Request /\ cur \in wrote
        /\ wrote' = wrote /\ taken' = taken + 1 /\ taken + 1 \in 1 .. Len(link)
    BY <1>0, <1>7, <2>0 DEF PassesFile, Appends, TypeOK, Item
  <2>2. link'[taken + 1] = f
    BY <2>0, <2>1, LinkGrows
  <2>3. resp[cur] # <<Page(cur)>> /\ Len(resp[cur]) <= taken
    BY <2>1 DEF RespOK
  <2>4. resp'[cur] # <<Page(cur)>>
    <3>1. SUFFICES ASSUME resp'[cur] = <<Page(cur)>> PROVE FALSE
      OBVIOUS
    <3>2. Len(resp'[cur]) = 1 /\ resp'[cur][1] = Page(cur)
      BY <3>1
    <3>3. f = Page(cur)
      BY <2>1, <3>2, Appended
    <3>4. QED
      BY <2>1, <3>3, FileFields
  <2>5. Len(resp'[cur]) <= taken'
    BY <1>0, <2>1, <2>3, Appended
  <2>6. ASSUME NEW r \in Request, NEW k \in 1 .. Len(resp'[r])
        PROVE  \/ resp'[r] = <<Page(r)>>
               \/ r \in wrote' /\ \E j \in 1 .. taken' : resp'[r][k] = link'[j]
    <3>1. CASE k \in 1 .. Len(resp[r])
      <4>1. resp'[r][k] = resp[r][k]
        BY <2>1, <3>1, Appended
      <4>2. \A j \in 1 .. taken : j \in 1 .. taken'
        BY <1>0, <2>1
      <4>3. r # cur => resp'[r] = resp[r]
        BY <2>1, Appended
      <4>4. QED
        BY <1>1, <2>1, <2>3, <3>1, <4>1, <4>2, <4>3 DEF RespOK
    <3>2. CASE r = cur /\ k = Len(resp[cur]) + 1
      <4>1. resp'[r][k] = f
        BY <2>1, <3>2, Appended
      <4>2. taken + 1 \in 1 .. taken'
        BY <1>0, <2>1
      <4>3. QED
        BY <2>1, <2>2, <3>2, <4>1, <4>2
    <3>3. QED
      BY <2>1, <3>1, <3>2, Appended
  <2>7. ASSUME NEW r \in Request
        PROVE  /\ resp'[r] = <<Page(r)>> => r \notin wrote'
               /\ resp'[r] # <<Page(r)>> => Len(resp'[r]) <= taken'
    <3>1. CASE r = cur
      BY <2>4, <2>5, <3>1
    <3>2. CASE r # cur
      <4>1. resp'[r] = resp[r] /\ Len(resp[r]) \in Nat
        BY <1>0, <2>1, <3>2, Appended
      <4>2. QED
        BY <1>0, <2>1, <4>1 DEF RespOK
    <3>3. QED
      BY <3>1, <3>2
  <2>8. QED
    BY <2>6, <2>7 DEF RespOK
<1>8. QED
  BY <1>3, <1>4, <1>5, <1>6, <1>7, HrdChanges

LEMMA OnceStep ==
  ASSUME TypeOK, HrdOK, RespOK, LinkOK, OnceOK, HrdStep \/ PsbStep
  PROVE  OnceOK'
<1>0. /\ resp \in [Request -> Seq(Item)] /\ taken \in 0 .. Len(link) /\ Len(link) \in Nat
      /\ link \in Seq(File) /\ \A j \in 1 .. Len(link) : link[j] \in File
  BY DEF TypeOK, Item
<1>1. \A j \in 1 .. taken : j \in 1 .. Len(link) /\ link'[j] = link[j]
  BY <1>0, LinkGrows
<1>2. CASE resp' = resp /\ taken' = taken
  BY <1>1, <1>2 DEF OnceOK
<1>3. CASE PsbStep
  BY <1>2, <1>3, PsbQuiet DEF Quiet
<1>4. CASE Writes
  BY <1>2, <1>4 DEF Writes
<1>5. CASE TakesEnd
  <2>1. link'[taken + 1] = link[taken + 1] /\ link[taken + 1].kind = "end"
    BY <1>0, <1>5, LinkGrows DEF TakesEnd
  <2>2. \A j \in 1 .. taken' : j \in 1 .. taken \/ j = taken + 1
    BY <1>0, <1>5 DEF TakesEnd
  <2>3. QED
    BY <1>1, <1>5, <2>1, <2>2 DEF OnceOK, TakesEnd
<1>6. ASSUME NEW x \in Item, Appends(x),
             \A r \in Request : \A k \in 1 .. Len(resp[r]) : resp[r][k] # x
      PROVE  /\ \A r, s \in Request : \A k \in 1 .. Len(resp'[r]), l \in 1 .. Len(resp'[s]) :
                  resp'[r][k] = resp'[s][l] => r = s /\ k = l
             /\ \A r \in Request : \A k \in 1 .. Len(resp[r]) :
                  k \in 1 .. Len(resp'[r]) /\ resp'[r][k] = resp[r][k]
  <2>1. SUFFICES ASSUME NEW r \in Request, NEW s \in Request, NEW k \in 1 .. Len(resp'[r]),
                        NEW l \in 1 .. Len(resp'[s]), resp'[r][k] = resp'[s][l]
                 PROVE  r = s /\ k = l
    BY <1>6, Appended
  <2>2. /\ \/ k \in 1 .. Len(resp[r]) /\ resp'[r][k] = resp[r][k]
           \/ r = cur /\ k = Len(resp[cur]) + 1 /\ resp'[r][k] = x
        /\ \/ l \in 1 .. Len(resp[s]) /\ resp'[s][l] = resp[s][l]
           \/ s = cur /\ l = Len(resp[cur]) + 1 /\ resp'[s][l] = x
    BY <1>6, Appended
  <2>3. k \in 1 .. Len(resp[r]) => resp[r][k] # x
    BY <1>6
  <2>4. l \in 1 .. Len(resp[s]) => resp[s][l] # x
    BY <1>6
  <2>5. CASE k \in 1 .. Len(resp[r]) /\ resp'[r][k] = resp[r][k]
    <3>1. l \in 1 .. Len(resp[s]) /\ resp[r][k] = resp[s][l]
      BY <2>1, <2>2, <2>3, <2>5
    <3>2. QED
      BY <2>5, <3>1 DEF OnceOK
  <2>6. CASE r = cur /\ k = Len(resp[cur]) + 1 /\ resp'[r][k] = x
    BY <2>1, <2>2, <2>4, <2>6
  <2>7. QED
    BY <2>2, <2>5, <2>6
<1>7. CASE SendsPage
  <2>1. Page(cur) \in Item /\ Appends(Page(cur)) /\ taken' = taken /\ cur \in Request
    BY <1>7, Files DEF SendsPage, Appends
  <2>2. ASSUME NEW r \in Request, NEW k \in 1 .. Len(resp[r]), resp[r][k] = Page(cur) PROVE FALSE
    <3>1. CASE resp[r] = <<Page(r)>>
      <4>1. r # cur /\ k = 1
        BY <1>7, <3>1 DEF SendsPage
      <4>2. QED
        BY <2>2, <3>1, <4>1 DEF Page
    <3>2. CASE \E j \in 1 .. taken : resp[r][k] = link[j]
      BY <1>0, <1>1, <2>1, <2>2, <3>2, FileFields
    <3>3. QED
      BY <3>1, <3>2 DEF RespOK
  <2>3. QED
    BY <1>1, <1>6, <2>1, <2>2 DEF OnceOK
<1>8. CASE PassesFile
  <2>0. PICK f : f = link[taken + 1]
    OBVIOUS
  <2>1. /\ f \in File /\ f \in Item /\ Appends(f) /\ cur \in Request
        /\ taken' = taken + 1 /\ taken + 1 \in 1 .. Len(link)
    BY <1>0, <1>8, <2>0 DEF PassesFile, Appends, Item
  <2>2. link'[taken + 1] = f
    BY <2>0, <2>1, LinkGrows
  <2>3. ASSUME NEW r \in Request, NEW k \in 1 .. Len(resp[r]), resp[r][k] = f PROVE FALSE
    <3>1. CASE resp[r] = <<Page(r)>>
      <4>1. f = Page(r)
        BY <2>3, <3>1
      <4>2. QED
        BY <2>1, <4>1, FileFields
    <3>2. CASE \E j \in 1 .. taken : resp[r][k] = link[j]
      <4>1. PICK j \in 1 .. taken : link[j] = link[taken + 1]
        BY <2>0, <2>3, <3>2
      <4>2. j \in 1 .. Len(link) /\ j # taken + 1
        BY <1>0, <4>1
      <4>3. QED
        BY <2>1, <4>1, <4>2 DEF LinkOK
    <3>3. QED
      BY <3>1, <3>2 DEF RespOK
  <2>4. ASSUME NEW j \in 1 .. taken', link'[j].kind # "end"
        PROVE  \E r \in Request : \E k \in 1 .. Len(resp'[r]) : resp'[r][k] = link'[j]
    <3>1. CASE j \in 1 .. taken
      <4>0. PICK r \in Request : \E k \in 1 .. Len(resp[r]) : resp[r][k] = link[j]
        BY <1>1, <2>4, <3>1 DEF OnceOK
      <4>1. PICK k \in 1 .. Len(resp[r]) : resp[r][k] = link[j]
        BY <4>0
      <4>2. QED
        BY <1>1, <1>6, <2>1, <2>3, <3>1, <4>1
    <3>2. CASE j = taken + 1
      <4>1. Len(resp[cur]) + 1 \in 1 .. Len(resp'[cur]) /\ resp'[cur][Len(resp[cur]) + 1] = f
        BY <2>1, Appended
      <4>2. QED
        BY <2>1, <2>2, <3>2, <4>1
    <3>3. QED
      BY <1>0, <2>1, <3>1, <3>2
  <2>5. \A r \in Request : \A k \in 1 .. Len(resp[r]) : resp[r][k] # f
    BY <2>3
  <2>6. \A r, s \in Request : \A k \in 1 .. Len(resp'[r]), l \in 1 .. Len(resp'[s]) :
          resp'[r][k] = resp'[s][l] => r = s /\ k = l
    BY <1>6, <2>1, <2>5
  <2>7. QED
    BY <2>4, <2>6 DEF OnceOK
<1>9. QED
  BY <1>3, <1>4, <1>5, <1>7, <1>8, HrdChanges
-----------------------------------------------------------------------------
(***************************************************************************)
(* How far hrd is behind.                                                  *)
(***************************************************************************)

LEMMA EndsFinite ==
  ASSUME NEW m \in Nat, NEW n \in Nat
  PROVE  IsFiniteSet(Ends(m, n)) /\ Cardinality(Ends(m, n)) \in Nat
<1>1. IsFiniteSet(m .. n)
  BY FS_Interval
<1>2. Ends(m, n) \in SUBSET (m .. n)
  BY DEF Ends
<1>3. IsFiniteSet(Ends(m, n))
  BY <1>1, <1>2, FS_Subset
<1>4. QED
  BY <1>3, FS_CardinalityType

LEMMA CountStep ==
  ASSUME TypeOK, HrdOK, CountOK, HrdStep \/ PsbStep
  PROVE  CountOK'
<1>0. /\ taken \in 0 .. Len(link) /\ Len(link) \in Nat /\ taken \in Nat
      /\ Cardinality(wrote) \in Nat /\ Cardinality(cut) \in Nat
      /\ IsFiniteSet(Ends(1, taken)) /\ Cardinality(Ends(1, taken)) \in Nat
  <2>1. taken \in 0 .. Len(link) /\ Len(link) \in Nat /\ taken \in Nat
    <3>1. taken \in 0 .. Len(link) /\ link \in Seq(File)
      BY DEF TypeOK
    <3>2. QED
      BY <3>1
  <2>2. QED
    BY <2>1, EndsFinite, FS_CardinalityType DEF CountOK
<1>1. \A j \in 1 .. taken : j \in 1 .. Len(link) /\ link'[j] = link[j]
  BY <1>0, LinkGrows
<1>2. taken' = taken => Ends(1, taken)' = Ends(1, taken)
  BY <1>1 DEF Ends
<1>3. CASE /\ wrote' = wrote /\ cut' = cut /\ taken' = taken
           /\ Running' => Running /\ (hpc' \in {"receive", "send"} <=> hpc \in {"receive", "send"})
  BY <1>2, <1>3 DEF CountOK
<1>4. CASE PsbStep
  BY <1>3, <1>4, PsbQuiet DEF Quiet, Running
<1>5. CASE \E r \in Request : BrowserConnects(r)
  BY <1>3, <1>5 DEF BrowserConnects, hrdVars, connVars, linkVars, Running
<1>6. CASE HrdStarts \/ HrdAccept \/ HrdRead \/ HrdSent \/ HrdConnect \/ HrdAborts
  BY <1>3, <1>6 DEF HrdStarts, HrdAccept, HrdRead, HrdSent, HrdConnect, HrdAborts, HrdEnds,
     connVars, linkVars, Running
<1>7. CASE HrdWrite
  <2>1. CASE wrote' = wrote \cup {cur} /\ hpc' \in {"receive", "send"}
    <3>1. hpc = "write" /\ cur \notin wrote /\ cut' = cut /\ taken' = taken
      BY <1>7 DEF HrdWrite, HrdOK, linkVars
    <3>2. IsFiniteSet(wrote') /\ Cardinality(wrote') = Cardinality(wrote) + 1
      BY <2>1, <3>1, FS_AddElement DEF CountOK
    <3>3. QED
      BY <1>0, <1>2, <2>1, <3>1, <3>2 DEF CountOK, Running
  <2>2. CASE ~(wrote' = wrote \cup {cur} /\ hpc' \in {"receive", "send"})
    <3>1. /\ wrote' = wrote /\ cut' = cut /\ taken' = taken
          /\ hpc = "write" /\ hpc' \in {"accept", "down"}
      BY <1>7, <2>2 DEF HrdWrite, HrdEnds, linkVars
    <3>2. QED
      BY <1>3, <3>1 DEF Running
  <2>3. QED
    BY <2>1, <2>2
<1>8. CASE HrdReceives
  <2>1. /\ hpc \in {"receive", "send"} /\ wrote' = wrote /\ cut' = cut
        /\ taken' = taken + 1 /\ taken + 1 \in 1 .. Len(link)
    BY <1>0, <1>8 DEF HrdReceives, HrdCloses, OpensFile
  <2>2. link'[taken + 1] = link[taken + 1]
    BY <2>1, LinkGrows
  <2>3. \A j \in 1 .. taken' : j \in 1 .. taken \/ j = taken + 1
    BY <1>0, <2>1
  <2>4. /\ taken + 1 \in 1 .. taken' /\ taken + 1 \notin 1 .. taken
        /\ \A j \in 1 .. taken : j \in 1 .. taken'
    BY <1>0, <2>1
  <2>5. CASE link[taken + 1].kind = "end"
    <3>1. hpc' = "accept"
      BY <1>8, <2>5 DEF HrdReceives, HrdCloses
    <3>2. Ends(1, taken)' = Ends(1, taken) \cup {taken + 1} /\ taken + 1 \notin Ends(1, taken)
      BY <1>1, <2>2, <2>3, <2>4, <2>5 DEF Ends
    <3>3. Cardinality(Ends(1, taken)') = Cardinality(Ends(1, taken)) + 1
      BY <1>0, <3>2, FS_AddElement
    <3>4. QED
      BY <1>0, <2>1, <3>1, <3>3 DEF CountOK, Running
  <2>6. CASE link[taken + 1].kind # "end"
    <3>1. hpc' \in {"receive", "send"}
      BY <1>8, <2>1, <2>6 DEF HrdReceives
    <3>2. Ends(1, taken)' = Ends(1, taken)
      BY <1>1, <2>2, <2>3, <2>4, <2>6 DEF Ends
    <3>3. QED
      BY <1>0, <2>1, <3>1, <3>2 DEF CountOK, Running
  <2>7. QED
    BY <2>5, <2>6
<1>9. CASE HrdTimesOut
  <2>1. /\ hpc \in {"receive", "send"} /\ hpc' = "accept" /\ cut' = cut \cup {cur} /\ cur \notin cut
        /\ wrote' = wrote /\ taken' = taken
    BY <1>9 DEF HrdTimesOut, HrdCloses, OpensFile, HrdOK, linkVars
  <2>2. IsFiniteSet(cut') /\ Cardinality(cut') = Cardinality(cut) + 1
    BY <2>1, FS_AddElement DEF CountOK
  <2>3. QED
    BY <1>0, <1>2, <2>1, <2>2 DEF CountOK, Running
<1>10. QED
  BY <1>4, <1>5, <1>6, <1>7, <1>8, <1>9 DEF HrdStep, HrdForwards

\* Each end answers one request that was written.
LEMMA EndsOfWrote ==
  ASSUME TypeOK, LinkOK, CountOK
  PROVE  Cardinality(Ends(1, taken)) + Cardinality(Ends(taken + 1, Len(link)))
           <= Cardinality(wrote)
<1>1. taken \in 0 .. Len(link) /\ Len(link) \in Nat /\ taken \in Nat /\ taken + 1 \in Nat
  <2>1. taken \in 0 .. Len(link) /\ link \in Seq(File)
    BY DEF TypeOK
  <2>2. QED
    BY <2>1
<1>2. PICK S, T, E : S = Ends(1, taken) /\ T = Ends(taken + 1, Len(link)) /\ E = S \cup T
  OBVIOUS
<1>3. /\ IsFiniteSet(S) /\ IsFiniteSet(T) /\ Cardinality(S) \in Nat /\ Cardinality(T) \in Nat
      /\ Cardinality(wrote) \in Nat /\ IsFiniteSet(wrote)
  BY <1>1, <1>2, EndsFinite, FS_CardinalityType DEF CountOK
<1>4. S \cap T = {}
  BY <1>1, <1>2 DEF Ends
<1>5. IsFiniteSet(E) /\ Cardinality(E) = Cardinality(S) + Cardinality(T)
  <2>1. Cardinality(S \cap T) = 0
    BY <1>4, FS_EmptySet
  <2>2. IsFiniteSet(S \cup T)
        /\ Cardinality(S \cup T) = Cardinality(S) + Cardinality(T) - Cardinality(S \cap T)
    BY <1>3, FS_Union
  <2>3. QED
    BY <1>2, <1>3, <2>1, <2>2
<1>6. \A j \in E : j \in 1 .. Len(link) /\ link[j].kind = "end"
  BY <1>1, <1>2 DEF Ends
<1>7. PICK f : f = [j \in E |-> link[j].of]
  OBVIOUS
<1>8. f \in [E -> wrote]
  BY <1>6, <1>7 DEF LinkOK
<1>9. \A i, j \in E : i # j => f[i] # f[j]
  <2>1. SUFFICES ASSUME NEW i \in E, NEW j \in E, i # j PROVE f[i] # f[j]
    OBVIOUS
  <2>2. i \in Nat /\ j \in Nat
    BY <1>6
  <2>3. i < j \/ j < i
    BY <2>1, <2>2
  <2>4. QED
    BY <1>6, <1>7, <2>3 DEF LinkOK
<1>10. ~(Cardinality(wrote) < Cardinality(E))
  BY <1>3, <1>5, <1>8, <1>9, FS_PigeonHole
<1>11. QED
  BY <1>2, <1>3, <1>5, <1>10
-----------------------------------------------------------------------------
(***************************************************************************)
(* Responses in step with requests.                                        *)
(***************************************************************************)

\* hrd does not start again.
LEMMA RunsOn ==
  ASSUME HrdStep \/ PsbStep, Running'
  PROVE  Running
<1>1. CASE PsbStep
  BY <1>1, PsbQuiet DEF Quiet, Running
<1>2. CASE HrdStep
  <2>1. hpc' = hpc \/ hpc \notin {"down", "aborted"}
    BY <1>2 DEF HrdStep, HrdStarts, HrdAccept, HrdRead, HrdForwards, HrdSent, HrdConnect, HrdWrite,
       HrdReceives, HrdTimesOut, HrdAborts, BrowserConnects, HrdCloses, OpensFile, hrdVars
  <2>2. QED
    BY <2>1 DEF Running
<1>3. QED
  BY <1>1, <1>2

\* Until a timeout comes early hrd runs; nothing undoes either.
LEMMA StillRunning ==
  ASSUME HrdStep \/ PsbStep, ~early', Running'
  PROVE  ~early /\ Running
<1>1. CASE PsbStep
  BY <1>1, PsbQuiet DEF Quiet, Running
<1>2. CASE HrdTimesOut
  BY <1>2, RunsOn DEF HrdTimesOut
<1>3. CASE HrdStep /\ ~HrdTimesOut
  <2>1. early' = early
    BY <1>3 DEF HrdStep, HrdStarts, HrdAccept, HrdRead, HrdForwards, HrdSent, HrdConnect, HrdWrite,
       HrdReceives, HrdAborts, BrowserConnects
  <2>2. QED
    BY <2>1, RunsOn
<1>4. QED
  BY <1>1, <1>2, <1>3 DEF HrdStep

LEMMA HaltedStays ==
  ASSUME TypeOK, HrdOK, PsbOK, RespOK, Halted, Running, HrdStep \/ PsbStep
  PROVE  Halted'
<1>1. CASE PsbStep
  <2>1. Quiet /\ joined' = joined
    BY <1>1, PsbQuiet
  <2>2. shut \subseteq wrote
    BY DEF HrdOK
  <2>3. CASE hpc # "start" /\ ~joined
    BY <2>1, <2>3 DEF Halted, Quiet
  <2>4. CASE ppc = "down"
    BY <1>1, <2>4 DEF Halted, PsbStep, PsbStarts, PsbWorks, PsbAccept, PsbRead, PsbConnect,
       PsbWrite,
       PsbRelays, PsbFinishes, PsbStops
  <2>5. CASE ppc = "read" /\ pcur \notin wrote /\ resp[pcur] = <<Page(pcur)>>
    <3>1. ppc' = "down"
      BY <1>1, <2>2, <2>5 DEF PsbStep, PsbStarts, PsbWorks, PsbAccept, PsbRead, PsbConnect,
         PsbWrite,
         PsbRelays, PsbFinishes, PsbStops, PsbEnds
    <3>2. QED
      BY <3>1 DEF Halted
  <2>6. QED
    BY <2>3, <2>4, <2>5 DEF Halted
<1>2. CASE HrdStep
  <2>1. UNCHANGED <<ppc, pcur>>
    BY <1>2, HrdQuiet
  <2>2. CASE hpc # "start" /\ ~joined
    <3>1. ~HrdStarts
      BY <2>2 DEF HrdStarts
    <3>2. joined' = joined
      BY <1>2, <3>1 DEF HrdStep, HrdAccept, HrdRead, HrdForwards, HrdSent, HrdConnect, HrdWrite,
         HrdReceives,
         HrdTimesOut, HrdAborts, BrowserConnects, linkVars
    <3>3. hpc' # "start"
      BY <1>2, <2>2, <3>1 DEF HrdStep, HrdAccept, HrdRead, HrdForwards, HrdSent, HrdConnect,
         HrdWrite,
         HrdReceives, HrdTimesOut, HrdAborts, BrowserConnects, HrdCloses, OpensFile, HrdEnds,
         hrdVars
    <3>4. QED
      BY <2>2, <3>2, <3>3 DEF Halted
  <2>3. CASE ppc = "down"
    BY <2>1, <2>3 DEF Halted
  <2>4. CASE ppc = "read" /\ pcur \notin wrote /\ resp[pcur] = <<Page(pcur)>>
    <3>1. pcur \in Request /\ resp \in [Request -> Seq(Item)]
      BY <2>4 DEF PsbOK, Busy, TypeOK, Item
    <3>2. resp[pcur] # <<>>
      BY <2>4
    <3>3. resp'[pcur] = resp[pcur] /\ pcur \notin wrote'
      BY <1>2, <2>4, <3>1, <3>2, HrdChanges DEF Writes, TakesEnd, SendsPage, PassesFile, Appends
    <3>4. QED
      BY <2>1, <2>4, <3>3 DEF Halted
  <2>5. QED
    BY <2>2, <2>3, <2>4 DEF Halted
<1>3. QED
  BY <1>1, <1>2

\* Once psb has read a request, it is the one hrd waits for.
LEMMA PsbServesCur ==
  ASSUME PsbOK, AloneOK, ppc \in {"connect", "write", "relay"}, pcur \in wrote
  PROVE  hpc \in {"receive", "send"} /\ pcur = cur /\ pcur \in Request
<1>1. Busy /\ Ahead(pcur) /\ pcur \in Request
  BY DEF Busy, Ahead, PsbOK
<1>2. joined
  BY DEF PsbOK
<1>3. ~Halted
  BY <1>2 DEF Halted
<1>4. QED
  BY <1>1, <1>3 DEF AloneOK

LEMMA AloneStep ==
  ASSUME TypeOK, HrdOK, PsbOK, RespOK, KnownOK, LinkOK, WaitingOK, AloneOK, ~early', Running,
  Running',
         HrdStep \/ PsbStep
  PROVE  AloneOK'
<1>1. CASE Halted
  BY <1>1, HaltedStays DEF AloneOK
<1>2. CASE ~Halted /\ PsbStep
  <2>1. Quiet
    BY <1>2, PsbQuiet
  <2>2. \A r \in Request : Ahead(r)' => Ahead(r)
    BY <1>2, AheadPsb
  <2>3. QED
    BY <1>2, <2>1, <2>2 DEF AloneOK, Quiet, TypeOK
<1>3. CASE ~Halted /\ HrdStep
  <2>0. \A r \in wrote : r \in Request /\ (Ahead(r) => hpc \in {"receive", "send"} /\ r = cur)
    BY <1>3 DEF AloneOK, TypeOK
  <2>1. \A r \in wrote : Ahead(r)' => Ahead(r)
    <3>1. HrdConnect => cur \notin wrote
      BY DEF HrdConnect, HrdOK, Fresh
    <3>2. QED
      BY <1>3, <2>0, <3>1, AheadHrd
  <2>2. CASE HrdWrite
    <3>1. hpc = "write" /\ cur' = cur
      BY <2>2 DEF HrdWrite, HrdEnds
    <3>2. \/ wrote' = wrote \cup {cur} /\ hpc' \in {"receive", "send"}
          \/ wrote' = wrote
      BY <2>2 DEF HrdWrite
    <3>3. QED
      BY <2>0, <2>1, <3>1, <3>2 DEF AloneOK
  <2>3. CASE HrdReceives
    <3>1. hpc \in {"receive", "send"} /\ wrote' = wrote /\ cur' = cur /\ taken < Len(link)
      BY <2>3 DEF HrdReceives, HrdCloses, OpensFile
    <3>2. CASE hpc' \in {"receive", "send"}
      BY <2>0, <2>1, <3>1, <3>2 DEF AloneOK
    <3>3. CASE hpc' \notin {"receive", "send"}
      <4>1. link[taken + 1].kind = "end"
        BY <2>3, <3>3 DEF HrdReceives
      <4>2. taken + 1 \in taken + 1 .. Len(link) /\ taken + 1 \in 1 .. Len(link)
        <5>1. taken \in 0 .. Len(link) /\ link \in Seq(File)
          BY DEF TypeOK
        <5>2. QED
          BY <3>1, <5>1
      <4>3. link[taken + 1].of = cur
        BY <4>2 DEF WaitingOK
      <4>4. ~Ahead(cur)
        <5>1. Ahead(link[taken + 1].of) => link[taken + 1].kind = "piece"
          BY <4>2 DEF LinkOK
        <5>2. QED
          BY <4>1, <4>3, <5>1
      <4>5. QED
        BY <2>0, <2>1, <3>1, <4>4 DEF AloneOK
    <3>4. QED
      BY <3>2, <3>3
  <2>4. CASE HrdTimesOut
    <3>1. hpc \in {"receive", "send"} /\ wrote' = wrote /\ cur \in wrote /\ ~UnderWay
      BY <2>4 DEF HrdTimesOut, HrdCloses, OpensFile, HrdOK
    <3>2. joined /\ ppc # "down"
      BY <1>3, <3>1 DEF Halted
    <3>3. ~Ahead(cur)
      <4>1. SUFFICES ASSUME Ahead(cur) PROVE FALSE
        OBVIOUS
      <4>2. CASE ppc \in {"rabin", "accept"}
        <5>1. backlog = <<>>
          BY <3>1, <3>2, <4>2 DEF UnderWay
        <5>2. QED
          BY <4>1, <4>2, <5>1 DEF Ahead, Busy
      <4>3. CASE ppc = "read"
        <5>1. pcur \notin wrote \cup shut /\ pcur \in Request /\ Ahead(pcur)
          BY <3>1, <4>3 DEF UnderWay, PsbOK, Busy, Ahead
        <5>2. resp[pcur] = <<Page(pcur)>>
          BY <3>1, <5>1 DEF KnownOK
        <5>3. QED
          BY <1>3, <4>3, <5>1, <5>2 DEF Halted
      <4>4. ppc \in {"off", "rabin", "accept", "read", "connect", "write", "relay", "down"}
        BY DEF TypeOK
      <4>5. QED
        BY <3>1, <3>2, <4>2, <4>3, <4>4 DEF UnderWay, PsbOK
    <3>4. QED
      BY <2>0, <2>1, <3>1, <3>3 DEF AloneOK
  <2>5. CASE \E r \in Request : BrowserConnects(r)
    <3>1. UNCHANGED <<wrote, hpc, cur>>
      BY <2>5 DEF BrowserConnects, hrdVars, connVars
    <3>2. QED
      BY <2>0, <2>1, <3>1 DEF AloneOK
  <2>6. CASE HrdSent
    <3>1. hpc' = "receive" /\ wrote' = wrote /\ cur' = cur
      BY <2>6 DEF HrdSent, connVars
    <3>2. QED
      BY <2>0, <2>1, <3>1 DEF AloneOK
  <2>7. CASE HrdStarts \/ HrdAccept \/ HrdRead \/ HrdConnect \/ HrdAborts
    <3>1. hpc \notin {"receive", "send"} /\ wrote' = wrote
      BY <2>7 DEF HrdStarts, HrdAccept, HrdRead, HrdConnect, HrdAborts, HrdEnds, connVars, Running
    <3>2. QED
      BY <2>0, <2>1, <3>1 DEF AloneOK
  <2>8. QED
    BY <1>3, <2>2, <2>3, <2>4, <2>5, <2>6, <2>7 DEF HrdStep, HrdForwards
<1>4. QED
  BY <1>1, <1>2, <1>3

LEMMA Lengths ==
  ASSUME TypeOK
  PROVE  /\ taken \in Nat /\ Len(link) \in Nat /\ taken <= Len(link)
         /\ \A j \in 1 .. Len(link) : link[j] \in File
         /\ \A r \in Request : Len(resp[r]) \in Nat
<1>1. taken \in 0 .. Len(link) /\ link \in Seq(File) /\ resp \in [Request -> Seq(Item)]
  BY DEF TypeOK, Item
<1>2. QED
  BY <1>1

\* What hrd receives next is of the response it waits for.
LEMMA NextFile ==
  ASSUME TypeOK, HrdOK, WaitingOK, hpc \in {"receive", "send"}, taken < Len(link)
  PROVE  /\ cur \in Request /\ taken + 1 \in 1 .. Len(link) /\ link[taken + 1] \in File
         /\ link[taken + 1].of = cur
         /\ link[taken + 1].kind # "end" => link[taken + 1].nr = Len(resp[cur]) + 1
         /\ link[taken + 1].kind = "piece" => link[taken + 1] = Piece(cur, Len(resp[cur]) + 1)
         /\ link[taken + 1].kind = "torn" => link[taken + 1] = Torn(cur, Len(resp[cur]) + 1)
<1>1. cur \in Request /\ taken + 1 \in 1 .. Len(link) /\ taken + 1 \in taken + 1 .. Len(link)
      /\ (taken + 1) - taken = 1
  BY Lengths DEF HrdOK
<1>2. link[taken + 1] \in File /\ link[taken + 1].of = cur
  BY <1>1, Lengths DEF WaitingOK
<1>3. link[taken + 1].kind # "end" => link[taken + 1].nr = Len(resp[cur]) + 1
  BY <1>1 DEF WaitingOK
<1>4. QED
  BY <1>1, <1>2, <1>3, FileFields

\* What psb sends is of the response hrd waits for.
LEMMA PsbSends ==
  ASSUME TypeOK, PsbOK, AloneOK, RelayOK, PsbStep, link' # link
  PROVE  /\ ppc = "relay" /\ hpc \in {"receive", "send"} /\ cur \in Request /\ pcur = cur
         /\ \E f \in File : /\ link' = Append(link, f) /\ f.of = cur
                            /\ f.kind # "end" => f.nr = Len(resp[cur]) + (Len(link) - taken) + 1
<1>1. ppc = "relay"
  BY DEF PsbStep, PsbStarts, PsbWorks, PsbAccept, PsbRead, PsbConnect, PsbWrite, PsbRelays,
         PsbFinishes, PsbStops, linkVars
<1>2. hpc \in {"receive", "send"} /\ pcur = cur /\ cur \in Request
  BY <1>1, PsbServesCur DEF PsbOK
<1>3. pieces = Len(resp[cur]) + (Len(link) - taken) /\ pieces \in 0 .. MaxPieces
  BY <1>1 DEF RelayOK, TypeOK
<1>4. CASE link' = Append(link, End(pcur))
  <2>1. End(cur) \in File /\ End(cur).of = cur /\ End(cur).kind = "end"
    BY <1>2, Files DEF End
  <2>2. QED
    BY <1>1, <1>2, <1>4, <2>1
<1>5. ASSUME pieces < MaxPieces
      PROVE  /\ Piece(cur, pieces + 1) \in File /\ Torn(cur, pieces + 1) \in File
             /\ Piece(cur, pieces + 1).of = cur /\ Torn(cur, pieces + 1).of = cur
             /\ Piece(cur, pieces + 1).nr = pieces + 1 /\ Torn(cur, pieces + 1).nr = pieces + 1
  <2>1. pieces + 1 \in 1 .. MaxPieces
    BY <1>3, <1>5, ProxyAssumption
  <2>2. QED
    BY <1>2, <2>1, Files DEF Piece, Torn
<1>6. CASE pieces < MaxPieces /\ link' = Append(link, Piece(pcur, pieces + 1))
  BY <1>1, <1>2, <1>3, <1>5, <1>6
<1>7. CASE pieces < MaxPieces /\ link' = Append(link, Torn(pcur, pieces + 1))
  BY <1>1, <1>2, <1>3, <1>5, <1>7
<1>8. QED
  BY <1>4, <1>6, <1>7 DEF PsbStep, PsbStarts, PsbWorks, PsbAccept, PsbRead, PsbConnect, PsbWrite,
     PsbRelays, PsbFinishes, PsbStops, linkVars

LEMMA WaitingStep ==
  ASSUME TypeOK, HrdOK, PsbOK, LinkOK, WaitingOK, AloneOK, RelayOK, Running, Running',
         HrdStep \/ PsbStep
  PROVE  WaitingOK'
<1>0. taken \in Nat /\ Len(link) \in Nat /\ taken <= Len(link)
  BY Lengths
<1>1. CASE UNCHANGED <<link, taken, hpc, cur, resp>>
  BY <1>1 DEF WaitingOK
<1>2. CASE taken' = taken /\ link' = link /\ taken = Len(link)
  <2>1. \A j \in taken + 1 .. Len(link) : FALSE
    BY <1>0, <1>2
  <2>2. QED
    BY <1>2, <2>1 DEF WaitingOK
<1>3. CASE PsbStep /\ link' # link
  <2>1. UNCHANGED <<taken, hpc, cur, resp>> /\ hpc \in {"receive", "send"}
    BY <1>3, PsbQuiet, PsbSends DEF Quiet
  <2>2. PICK f \in File : /\ link' = Append(link, f) /\ f.of = cur
                          /\ f.kind # "end" => f.nr = Len(resp[cur]) + (Len(link) - taken) + 1
    BY <1>3, PsbSends
  <2>3. /\ Len(link') = Len(link) + 1 /\ link'[Len(link) + 1] = f
        /\ \A j \in 1 .. Len(link) : link'[j] = link[j]
    BY <2>2 DEF TypeOK
  <2>4. cur \in Request /\ Len(resp[cur]) \in Nat
    BY <2>1, Lengths DEF HrdOK
  <2>5. ASSUME NEW j \in taken' + 1 .. Len(link')
        PROVE  /\ hpc' \in {"receive", "send"} /\ link'[j].of = cur'
               /\ link'[j].kind # "end" => link'[j].nr = Len(resp'[cur']) + (j - taken')
    <3>1. CASE j \in taken + 1 .. Len(link)
      <4>1. j \in 1 .. Len(link)
        BY <1>0, <3>1
      <4>2. link'[j] = link[j]
        BY <2>3, <4>1
      <4>3. QED
        BY <2>1, <3>1, <4>2 DEF WaitingOK
    <3>2. CASE j = Len(link) + 1
      <4>1. Len(resp[cur]) + (Len(link) - taken) + 1 = Len(resp[cur]) + (j - taken)
        <5>1. \A a, b, c \in Nat : a + (b - c) + 1 = a + ((b + 1) - c)
          OBVIOUS
        <5>2. QED
          BY <1>0, <2>4, <3>2, <5>1
      <4>2. QED
        BY <2>1, <2>2, <2>3, <3>2, <4>1
    <3>3. QED
      BY <1>0, <2>1, <2>3, <3>1, <3>2
  <2>6. QED
    BY <2>5 DEF WaitingOK
<1>4. CASE PsbStep
  BY <1>1, <1>3, <1>4, PsbQuiet DEF Quiet
<1>5. CASE \E r \in Request : BrowserConnects(r)
  BY <1>1, <1>5 DEF BrowserConnects, hrdVars, linkVars
<1>6. CASE HrdReceives
  <2>0. PICK f : f = link[taken + 1]
    OBVIOUS
  <2>1. /\ hpc \in {"receive", "send"} /\ taken < Len(link) /\ taken' = taken + 1 /\ cur' = cur /\ link' = link
        /\ cur \in Request /\ taken + 1 \in 1 .. Len(link) /\ f.of = cur
    BY <1>6, <2>0, NextFile DEF HrdReceives, HrdCloses, OpensFile
  <2>2. \A j \in taken' + 1 .. Len(link) :
          j \in taken + 1 .. Len(link) /\ taken + 1 < j /\ j \in 1 .. Len(link)
    BY <1>0, <2>1
  <2>3. CASE f.kind = "end"
    <3>1. \A j \in taken' + 1 .. Len(link) : link[j].of # cur
      BY <2>0, <2>1, <2>2, <2>3 DEF LinkOK
    <3>2. \A j \in taken' + 1 .. Len(link) : FALSE
      BY <2>2, <3>1 DEF WaitingOK
    <3>3. QED
      BY <2>1, <3>2 DEF WaitingOK
  <2>4. CASE f.kind # "end"
    <3>1. hpc' \in {"receive", "send"} /\ resp' = [resp EXCEPT ![cur] = Append(@, f)]
      BY <1>6, <2>0, <2>1, <2>4 DEF HrdReceives
    <3>2. Len(resp'[cur]) = Len(resp[cur]) + 1 /\ Len(resp[cur]) \in Nat
      <4>1. f \in Item /\ Appends(f)
        BY <1>6, <2>0, <2>1, <3>1, Lengths DEF Item, Appends, HrdReceives
      <4>2. QED
        BY <4>1, Appended
    <3>3. ASSUME NEW j \in taken' + 1 .. Len(link'), link'[j].kind # "end"
          PROVE  link'[j].nr = Len(resp'[cur']) + (j - taken')
      <4>1. link[j].nr = Len(resp[cur]) + (j - taken)
        BY <2>1, <2>2, <3>3 DEF WaitingOK
      <4>2. \A a, b \in Nat : \A i \in Int : a + (i - b) = (a + 1) + (i - (b + 1))
        OBVIOUS
      <4>3. j \in Int
        BY <2>1, <2>2, <3>3
      <4>4. Len(resp[cur]) + (j - taken) = Len(resp'[cur]) + (j - taken')
        BY <1>0, <2>1, <3>2, <4>2, <4>3
      <4>5. QED
        BY <2>1, <4>1, <4>4
    <3>4. QED
      BY <2>1, <2>2, <3>1, <3>3 DEF WaitingOK
  <2>5. QED
    BY <2>3, <2>4
<1>7. CASE HrdTimesOut
  BY <1>2, <1>7 DEF HrdTimesOut, linkVars
<1>8. CASE HrdStarts \/ HrdAccept \/ HrdRead \/ HrdConnect \/ HrdWrite \/ HrdAborts
  <2>1. hpc \notin {"receive", "send"} /\ taken' = taken /\ link' = link
    BY <1>8 DEF HrdStarts, HrdAccept, HrdRead, HrdConnect, HrdWrite, HrdAborts, HrdEnds, linkVars,
       Running
  <2>2. taken = Len(link)
    <3>1. taken < Len(link) => taken + 1 \in taken + 1 .. Len(link)
      BY <1>0
    <3>2. QED
      BY <1>0, <2>1, <3>1 DEF WaitingOK
  <2>3. QED
    BY <1>2, <2>1, <2>2
<1>9. CASE HrdSent
  <2>1. UNCHANGED <<link, taken, cur, resp>> /\ hpc' = "receive"
    BY <1>9 DEF HrdSent, linkVars
  <2>2. QED
    BY <2>1 DEF WaitingOK
<1>10. QED
  BY <1>4, <1>5, <1>6, <1>7, <1>8, <1>9 DEF HrdStep, HrdForwards

LEMMA RespGrows ==
  ASSUME TypeOK, HrdOK, HrdStep \/ PsbStep
  PROVE  \A r \in Request : Len(resp'[r]) \in Nat /\ Len(resp[r]) <= Len(resp'[r])
<1>1. CASE resp' = resp
  BY <1>1, Lengths
<1>2. ASSUME NEW x \in Item, Appends(x)
      PROVE  \A r \in Request : Len(resp'[r]) \in Nat /\ Len(resp[r]) <= Len(resp'[r])
  <2>1. /\ Len(resp[cur]) \in Nat /\ Len(resp'[cur]) = Len(resp[cur]) + 1
        /\ \A r \in Request : r # cur => resp'[r] = resp[r]
    BY <1>2, Appended
  <2>2. QED
    BY <2>1, Lengths
<1>3. CASE SendsPage
  BY <1>2, <1>3, Files DEF SendsPage, Appends
<1>4. CASE PassesFile
  <2>1. taken + 1 \in 1 .. Len(link)
    BY <1>4, Lengths DEF PassesFile
  <2>2. QED
    BY <1>2, <1>4, <2>1, Lengths DEF PassesFile, Item
<1>5. QED
  BY <1>1, <1>3, <1>4, PsbQuiet, HrdChanges DEF Quiet, Writes, TakesEnd

LEMMA RelayStep ==
  ASSUME TypeOK, HrdOK, PsbOK, RespOK, LinkOK, OwnOK, WaitingOK, AloneOK, RelayOK, ~early',
  Running',
         HrdStep \/ PsbStep
  PROVE  RelayOK'
<1>0. taken \in Nat /\ Len(link) \in Nat /\ taken <= Len(link)
  BY Lengths
<1>1. CASE PsbWrite /\ ppc' = "relay"
  <2>1. /\ pieces' = 0 /\ pasked /\ ppc = "write"
        /\ UNCHANGED <<resp, cur, link, taken>>
    BY <1>1 DEF PsbWrite, hrdVars, linkVars
  <2>2. hpc \in {"receive", "send"} /\ pcur = cur /\ cur \in Request /\ cur \in wrote /\ Ahead(cur)
    BY <2>1, PsbServesCur DEF PsbOK, Ahead, Busy
  <2>3. \A j \in 1 .. Len(link) : link[j].of # cur
    BY <2>1, <2>2 DEF LinkOK
  <2>4. taken = Len(link)
    <3>1. taken < Len(link) => taken + 1 \in taken + 1 .. Len(link) /\ taken + 1 \in 1 .. Len(link)
      BY <1>0
    <3>2. QED
      BY <1>0, <2>3, <3>1 DEF WaitingOK
  <2>5. Len(resp[cur]) = 0
    <3>1. Len(resp[cur]) \in Nat
      BY <2>2, Lengths
    <3>2. ASSUME 1 \in 1 .. Len(resp[cur]) PROVE FALSE
      <4>1. PICK j \in 1 .. taken : resp[cur][1] = link[j]
        BY <2>2, <3>2 DEF RespOK
      <4>2. j \in 1 .. Len(link)
        BY <1>0
      <4>3. resp[cur][1].of = cur
        <5>1. resp[cur] # <<Page(cur)>>
          BY <2>2 DEF RespOK
        <5>2. resp[cur][1] = Piece(cur, 1) \/ resp[cur][1] = Torn(cur, 1)
          BY <2>2, <3>2, <5>1 DEF OwnOK, OwnOf
        <5>3. QED
          BY <5>2 DEF Piece, Torn
      <4>4. QED
        BY <2>3, <4>1, <4>2, <4>3
    <3>3. QED
      BY <3>1, <3>2
  <2>6. QED
    BY <1>0, <2>1, <2>4, <2>5 DEF RelayOK
<1>2. CASE PsbRelays
  <2>1. /\ ppc = "relay" /\ pieces' = pieces + 1 /\ UNCHANGED <<resp, cur, taken>>
        /\ link' = Append(link, Piece(pcur, pieces + 1))
    BY <1>2 DEF PsbRelays, hrdVars
  <2>2. Len(link') = Len(link) + 1
    BY <2>1 DEF TypeOK
  <2>3. cur \in Request /\ pieces = Len(resp[cur]) + (Len(link) - taken)
    BY <2>1, PsbServesCur DEF PsbOK, RelayOK
  <2>4. Len(resp[cur]) \in Nat
    BY <2>3, Lengths
  <2>5. \A a, b, c \in Nat : (a + (b - c)) + 1 = a + ((b + 1) - c)
    OBVIOUS
  <2>6. pieces + 1 = Len(resp[cur]) + ((Len(link) + 1) - taken)
    BY <1>0, <2>3, <2>4, <2>5
  <2>7. QED
    BY <2>1, <2>2, <2>6 DEF RelayOK
<1>3. CASE PsbStep /\ ~PsbRelays /\ ~(PsbWrite /\ ppc' = "relay")
  <2>1. ppc' # "relay"
    BY <1>3 DEF PsbStep, PsbStarts, PsbWorks, PsbAccept, PsbRead, PsbConnect, PsbWrite, PsbFinishes,
       PsbStops, PsbEnds
  <2>2. QED
    BY <2>1 DEF RelayOK
<1>4. CASE HrdStep /\ ppc = "relay"
  <2>1. UNCHANGED <<ppc, pcur, pieces, link>> /\ hpc \in {"receive", "send"} /\ pcur = cur /\ cur \in Request
        /\ Ahead(cur)
    BY <1>4, HrdQuiet, PsbServesCur DEF PsbOK, Ahead, Busy
  <2>2. CASE UNCHANGED <<resp, cur, taken>>
    BY <2>1, <2>2 DEF RelayOK
  <2>3. CASE HrdReceives
    <3>0. PICK f : f = link[taken + 1]
      OBVIOUS
    <3>1. /\ taken < Len(link) /\ taken' = taken + 1 /\ cur' = cur
          /\ taken + 1 \in 1 .. Len(link) /\ f \in File /\ f.of = cur
      BY <2>1, <2>3, <3>0, NextFile DEF HrdReceives
    <3>2. f.kind = "piece"
      BY <2>1, <3>0, <3>1 DEF LinkOK
    <3>3. f \in Item /\ Appends(f)
      BY <2>1, <2>3, <3>0, <3>1, <3>2 DEF HrdReceives, Appends, Item
    <3>4. Len(resp'[cur]) = Len(resp[cur]) + 1 /\ Len(resp[cur]) \in Nat
      BY <3>3, Appended
    <3>5. \A a, b, c \in Nat : a + (b - c) = (a + 1) + (b - (c + 1))
      OBVIOUS
    <3>6. Len(resp[cur]) + (Len(link) - taken) = (Len(resp[cur]) + 1) + (Len(link) - (taken + 1))
      BY <1>0, <3>4, <3>5
    <3>7. QED
      BY <1>4, <2>1, <3>1, <3>4, <3>6 DEF RelayOK
  <2>4. ~HrdTimesOut
    <3>1. HrdTimesOut => early'
      BY <1>4 DEF HrdTimesOut, UnderWay
    <3>2. QED
      BY <3>1
  <2>5. QED
    BY <1>4, <2>1, <2>2, <2>3, <2>4 DEF HrdStep, HrdForwards, HrdSent, HrdStarts, HrdAccept,
       HrdRead,
       HrdConnect,
       HrdWrite, HrdAborts, HrdEnds, BrowserConnects, hrdVars, linkVars, Running
<1>5. CASE HrdStep /\ ppc # "relay"
  BY <1>5, HrdQuiet DEF RelayOK
<1>6. QED
  BY <1>1, <1>2, <1>3, <1>4, <1>5

LEMMA TornStep ==
  ASSUME TypeOK, HrdOK, LinkOK, WaitingOK, TornOK, Running', HrdStep \/ PsbStep
  PROVE  TornOK'
<1>1. CASE PsbStep
  <2>1. Quiet
    BY <1>1, PsbQuiet
  <2>2. ppc # "down"
    BY <1>1 DEF PsbStep, PsbStarts, PsbWorks, PsbAccept, PsbRead, PsbConnect, PsbWrite, PsbRelays,
       PsbFinishes, PsbStops
  <2>3. QED
    BY <2>1, <2>2 DEF TornOK, Quiet
<1>2. CASE \E r \in Request : BrowserConnects(r)
  BY <1>2 DEF BrowserConnects, hrdVars, psbVars, linkVars, TornOK
<1>3. CASE HrdReceives /\ hpc' \in {"receive", "send"}
  <2>0. PICK f : f = link[taken + 1]
    OBVIOUS
  <2>1. /\ hpc \in {"receive", "send"} /\ taken < Len(link) /\ taken' = taken + 1 /\ cur' = cur /\ ppc' = ppc
        /\ cur \in Request /\ taken + 1 \in 1 .. Len(link) /\ f \in File /\ link' = link
        /\ f.kind # "end" /\ resp' = [resp EXCEPT ![cur] = Append(@, f)] /\ wrote' = wrote
    <3>1. hpc \in {"receive", "send"} /\ taken < Len(link)
      BY <1>3 DEF HrdReceives, HrdCloses, OpensFile
    <3>2. QED
      BY <1>3, <2>0, <3>1, NextFile DEF HrdReceives, HrdCloses, psbVars
  <2>2. f \in Item /\ Appends(f)
    BY <2>1 DEF Appends, Item
  <2>3. CASE f.kind = "torn"
    BY <2>0, <2>1, <2>3 DEF LinkOK, TornOK
  <2>4. CASE f.kind = "piece"
    <3>1. \A k \in 1 .. Len(resp[cur]) : resp[cur][k].kind = "piece"
      BY <2>1, Lengths DEF TornOK
    <3>2. \A k \in 1 .. Len(resp'[cur]) :
            \/ k \in 1 .. Len(resp[cur]) /\ resp'[cur][k] = resp[cur][k]
            \/ resp'[cur][k] = f
      BY <2>1, <2>2, Appended
    <3>3. QED
      BY <2>1, <2>4, <3>1, <3>2 DEF TornOK
  <2>5. QED
    BY <2>1, <2>3, <2>4, FileFields
<1>4. CASE HrdWrite /\ hpc' \in {"receive", "send"}
  <2>0. hpc = "write" /\ resp' = resp /\ cur' = cur
    BY <1>4 DEF HrdWrite, HrdEnds
  <2>1. resp'[cur'] = <<>>
    BY <2>0 DEF HrdOK
  <2>2. QED
    BY <2>1 DEF TornOK
<1>5. CASE hpc' \notin {"receive", "send"}
  BY <1>5 DEF TornOK
<1>6. CASE HrdSent
  BY <1>6 DEF HrdSent, psbVars, linkVars, TornOK
<1>7. QED
  BY <1>1, <1>2, <1>3, <1>4, <1>5, <1>6 DEF HrdStep, HrdForwards, HrdStarts, HrdAccept, HrdRead,
     HrdConnect, HrdTimesOut, HrdCloses, HrdAborts, HrdEnds

LEMMA TakenStep ==
  ASSUME TypeOK, HrdOK, WaitingOK, TakenOK, HrdStep \/ PsbStep
  PROVE  TakenOK'
<1>0. /\ taken \in Nat /\ Len(link) \in Nat /\ taken <= Len(link)
      /\ \A j \in 1 .. taken : j \in 1 .. Len(link) /\ link[j].of \in Request /\ link'[j] = link[j]
                               /\ link[j].nr \in Nat
  BY Lengths, FileFields, LinkGrows, ProxyAssumption
<1>1. \A j \in 1 .. taken : link'[j].kind = "piece" => link'[j].nr <= Len(resp'[link'[j].of])
  <2>1. SUFFICES ASSUME NEW j \in 1 .. taken, link[j].kind = "piece"
                 PROVE  link[j].nr <= Len(resp'[link[j].of])
    BY <1>0
  <2>2. link[j].nr <= Len(resp[link[j].of])
    BY <2>1 DEF TakenOK
  <2>3. /\ Len(resp[link[j].of]) \in Nat /\ Len(resp'[link[j].of]) \in Nat
        /\ Len(resp[link[j].of]) <= Len(resp'[link[j].of])
    BY <1>0, Lengths, RespGrows
  <2>4. QED
    BY <1>0, <2>2, <2>3
<1>2. CASE taken' = taken
  BY <1>1, <1>2 DEF TakenOK
<1>3. CASE HrdReceives
  <2>0. PICK f : f = link[taken + 1]
    OBVIOUS
  <2>1. /\ taken' = taken + 1 /\ link'[taken + 1] = f /\ cur \in Request /\ f.of = cur
        /\ f.kind = "piece" => f.nr = Len(resp[cur]) + 1 /\ Appends(f) /\ f \in Item
    <3>1. hpc \in {"receive", "send"} /\ taken < Len(link)
      BY <1>3 DEF HrdReceives, HrdCloses, OpensFile
    <3>2. QED
      BY <1>3, <2>0, <3>1, NextFile, LinkGrows DEF HrdReceives, HrdCloses, Appends, Item
  <2>2. f.kind = "piece" => f.nr <= Len(resp'[cur])
    BY <2>1, Appended
  <2>3. \A j \in 1 .. taken' : j \in 1 .. taken \/ j = taken + 1
    BY <1>0, <2>1
  <2>4. QED
    BY <1>1, <2>1, <2>2, <2>3 DEF TakenOK
<1>4. HrdReceives \/ taken' = taken
  BY PsbQuiet DEF Quiet, HrdStep, HrdForwards, HrdSent, HrdStarts, HrdAccept, HrdRead,
     HrdConnect, HrdWrite,
     HrdTimesOut, HrdAborts, BrowserConnects, linkVars
<1>5. QED
  BY <1>2, <1>3, <1>4

LEMMA OwnOfStep ==
  ASSUME TypeOK, HrdOK, RespOK, WaitingOK, TornOK, OwnOK, HrdStep \/ PsbStep, NEW r \in Request
  PROVE  OwnOf(r)'
<1>1. CASE resp'[r] = resp[r]
  BY <1>1 DEF OwnOK, OwnOf
<1>2. CASE SendsPage /\ r = cur
  <2>1. resp'[cur] = <<Page(cur)>>
    BY <1>2 DEF SendsPage, Appends, TypeOK
  <2>2. QED
    BY <1>2, <2>1 DEF OwnOf
<1>3. CASE PassesFile /\ r = cur /\ HrdReceives
  <2>0. PICK f : f = link[taken + 1]
    OBVIOUS
  <2>1. /\ hpc \in {"receive", "send"} /\ taken < Len(link) /\ f \in File /\ f.kind # "end"
        /\ f.kind = "piece" => f = Piece(cur, Len(resp[cur]) + 1)
        /\ f.kind = "torn" => f = Torn(cur, Len(resp[cur]) + 1)
        /\ Appends(f) /\ f \in Item /\ cur \in wrote
    <3>1. hpc \in {"receive", "send"} /\ taken < Len(link)
      BY <1>3 DEF HrdReceives, HrdCloses, OpensFile
    <3>2. QED
      BY <1>3, <2>0, <3>1, NextFile DEF PassesFile, Item
  <2>2. f = Piece(cur, Len(resp[cur]) + 1) \/ f = Torn(cur, Len(resp[cur]) + 1)
    BY <2>1, FileFields
  <2>3. resp[cur] # <<Page(cur)>>
    BY <1>3, <2>1 DEF RespOK
  <2>4. \A k \in 1 .. Len(resp[cur]) : resp[cur][k] = Piece(cur, k)
    <3>1. taken # Len(link)
      BY <2>1, Lengths
    <3>2. \A k \in 1 .. Len(resp[cur]) : resp[cur][k].kind = "piece"
      BY <2>1, <3>1 DEF TornOK
    <3>3. \A k \in 1 .. Len(resp[cur]) : resp[cur][k] = Piece(cur, k) \/ resp[cur][k] = Torn(cur, k)
      BY <1>3, <2>3 DEF OwnOK, OwnOf
    <3>4. \A k : Torn(cur, k).kind # "piece"
      BY DEF Torn
    <3>5. QED
      BY <3>2, <3>3, <3>4
  <2>5. Len(resp'[cur]) = Len(resp[cur]) + 1
    BY <2>1, Appended
  <2>6. \A k \in 1 .. Len(resp'[cur]) :
          \/ k \in 1 .. Len(resp[cur]) /\ resp'[cur][k] = resp[cur][k]
          \/ k = Len(resp[cur]) + 1 /\ resp'[cur][k] = f
    <3>1. \A k \in 1 .. Len(resp'[cur]) : k \in 1 .. Len(resp[cur]) \/ k = Len(resp[cur]) + 1
      BY <1>3, <2>1, Appended
    <3>2. QED
      BY <1>3, <2>1, <3>1, Appended
  <2>7. \A k \in 1 .. Len(resp'[cur]) :
          \/ resp'[cur][k] = Piece(cur, k)
          \/ k = Len(resp'[cur]) /\ resp'[cur][k] = Torn(cur, k)
    BY <2>2, <2>4, <2>5, <2>6
  <2>8. QED
    BY <1>3, <2>7 DEF OwnOf
<1>4. PassesFile => HrdReceives
  <2>1. taken \in Nat
    BY Lengths
  <2>2. PassesFile => taken' # taken
    BY <2>1 DEF PassesFile
  <2>3. QED
    BY <2>2, PsbQuiet DEF Quiet, HrdStep, HrdForwards, HrdSent, HrdStarts, HrdAccept, HrdRead,
       HrdConnect,
       HrdWrite, HrdTimesOut, HrdAborts, BrowserConnects, linkVars
<1>5. CASE PsbStep
  BY <1>1, <1>5, PsbQuiet DEF Quiet
<1>6. CASE HrdStep
  <2>1. (SendsPage \/ PassesFile) /\ r # cur => resp'[r] = resp[r]
    BY DEF SendsPage, PassesFile, Appends, TypeOK
  <2>2. QED
    BY <1>1, <1>2, <1>3, <1>4, <1>6, <2>1, HrdChanges DEF Writes, TakesEnd
<1>7. QED
  BY <1>5, <1>6

LEMMA WholeOfStep ==
  ASSUME TypeOK, HrdOK, PsbOK, LinkOK, OwnOK, TakenOK, WaitingOK, AloneOK, RelayOK, Running',
         HrdStep \/ PsbStep, NEW r \in Request, browser'[r] = "closed"
  PROVE  WholeOf(r)'
<1>0. Len(resp[r]) \in Nat /\ Len(resp'[r]) \in Nat /\ Len(resp[r]) <= Len(resp'[r])
  BY Lengths, RespGrows
<1>1. ASSUME WholeOf(r),
             \A j \in 1 .. Len(link') : link'[j].of = r => j \in 1 .. Len(link)
      PROVE  WholeOf(r)'
  <2>1. SUFFICES ASSUME NEW j \in 1 .. Len(link'), link'[j] = Piece(r, link'[j].nr)
                 PROVE  link'[j].nr <= Len(resp'[r])
    BY DEF WholeOf
  <2>2. link'[j].of = r
    BY <2>1 DEF Piece
  <2>3. j \in 1 .. Len(link) /\ link'[j] = link[j]
    BY <1>1, <2>2, LinkGrows
  <2>4. link[j].nr <= Len(resp[r]) /\ link[j].nr \in Nat
    <3>1. link[j].nr <= Len(resp[r])
      BY <1>1, <2>1, <2>3 DEF WholeOf
    <3>2. QED
      BY <2>3, <3>1, Lengths, FileFields, ProxyAssumption
  <2>5. QED
    BY <1>0, <2>3, <2>4
<1>2. CASE PsbStep
  <2>1. Quiet /\ browser' = browser
    BY <1>2, PsbQuiet
  <2>2. WholeOf(r)
    BY <2>1 DEF OwnOK
  <2>3. CASE link' = link
    BY <1>1, <2>2, <2>3
  <2>4. CASE link' # link
    <3>1. PICK f \in File : link' = Append(link, f) /\ f.of = cur
      BY <1>2, <2>4, PsbSends
    <3>2. /\ Len(link') = Len(link) + 1 /\ link'[Len(link) + 1] = f
          /\ \A j \in 1 .. Len(link') : j \in 1 .. Len(link) \/ j = Len(link) + 1
      BY <3>1 DEF TypeOK
    <3>3. r # cur
      <4>1. hpc \in {"receive", "send"}
        BY <1>2, <2>4, PsbSends
      <4>2. QED
        BY <2>1, <4>1 DEF HrdOK
    <3>4. QED
      BY <1>1, <2>2, <3>1, <3>2, <3>3
  <2>5. QED
    BY <2>3, <2>4
<1>3. CASE HrdStep /\ browser[r] = "closed"
  <2>1. WholeOf(r) /\ link' = link
    BY <1>3, HrdQuiet DEF OwnOK
  <2>2. QED
    BY <1>1, <2>1
<1>4. CASE HrdStep /\ browser[r] # "closed"
  <2>1. link' = link
    BY <1>4, HrdQuiet
  <2>2. r = cur /\ (HrdConnect \/ HrdReceives \/ HrdTimesOut) /\ hpc' = "accept"
    <3>1. browser \in [Request -> {"away", "waiting", "refused", "open", "closed"}]
      BY DEF TypeOK
    <3>2. CASE HrdRead \/ HrdForwards \/ HrdSent
      <4>1. r = cur /\ hpc' = "accept"
        BY <1>4, <3>2, OneAtATime
      <4>2. ~HrdRead /\ ~HrdSent
        BY <4>1 DEF HrdRead, HrdEnds, HrdSent
      <4>3. ~HrdWrite /\ ~HrdAborts
        BY <1>4, <4>1 DEF HrdWrite, HrdAborts, HrdEnds
      <4>4. QED
        BY <3>2, <4>1, <4>2, <4>3 DEF HrdForwards
    <3>3. CASE HrdStarts \/ HrdAccept \/ \E q \in Request : BrowserConnects(q)
      BY <1>4, <3>1, <3>3 DEF HrdStarts, HrdAccept, HrdEnds, BrowserConnects, Running
    <3>4. QED
      BY <1>4, <3>2, <3>3 DEF HrdStep
  <2>3. SUFFICES ASSUME NEW j \in 1 .. Len(link), link[j] = Piece(r, link[j].nr)
                 PROVE  link[j].nr <= Len(resp'[r])
    BY <2>1 DEF WholeOf
  <2>4. link[j].of = r /\ link[j].kind = "piece" /\ link[j].nr \in Nat
    <3>1. link[j].of = r /\ link[j].kind = "piece"
      BY <2>3 DEF Piece
    <3>2. QED
      BY <2>3, <3>1, Lengths, FileFields, ProxyAssumption
  <2>5. taken \in Nat /\ Len(link) \in Nat /\ taken <= Len(link)
    BY Lengths
  <2>6. CASE j \in 1 .. taken
    <3>1. link[j].nr <= Len(resp[r])
      BY <2>4, <2>6 DEF TakenOK
    <3>2. QED
      BY <1>0, <2>4, <3>1
  <2>7. CASE j \in taken + 1 .. Len(link)
    <3>1. hpc \in {"receive", "send"}
      BY <2>7 DEF WaitingOK
    <3>2. HrdReceives
      <4>1. taken # Len(link)
        BY <2>5, <2>7
      <4>2. QED
        BY <2>2, <3>1, <4>1 DEF HrdConnect, HrdTimesOut
    <3>3. link[taken + 1].kind = "end" /\ taken < Len(link)
      BY <2>2, <3>1, <3>2 DEF HrdReceives
    <3>4. link[taken + 1].of = cur /\ taken + 1 \in 1 .. Len(link)
      BY <3>1, <3>3, NextFile
    <3>5. j = taken + 1 \/ taken + 1 < j
      BY <2>5, <2>7
    <3>6. QED
      BY <2>2, <2>4, <3>3, <3>4, <3>5 DEF LinkOK
  <2>8. QED
    BY <2>5, <2>6, <2>7
<1>5. QED
  BY <1>2, <1>3, <1>4

LEMMA InStepStep ==
  ASSUME IInv, InStep, HrdStep \/ PsbStep
  PROVE  InStep'
<1>1. SUFFICES ASSUME ~early', Running'
               PROVE  (OwnOK /\ TakenOK /\ WaitingOK /\ AloneOK /\ RelayOK /\ TornOK)'
  BY DEF InStep
<1>2. TypeOK /\ HrdOK /\ RespOK /\ PsbOK /\ KnownOK /\ LinkOK
  BY DEF IInv
<1>3. ~early /\ Running
  BY <1>1, StillRunning
<1>4. OwnOK /\ TakenOK /\ WaitingOK /\ AloneOK /\ RelayOK /\ TornOK
  BY <1>3 DEF InStep
<1>5. OwnOK'
  BY <1>1, <1>2, <1>4, OwnOfStep, WholeOfStep DEF OwnOK
<1>6. TakenOK' /\ WaitingOK'
  BY <1>1, <1>2, <1>3, <1>4, TakenStep, WaitingStep
<1>7. AloneOK' /\ RelayOK' /\ TornOK'
  BY <1>1, <1>2, <1>3, <1>4, AloneStep, RelayStep, TornStep
<1>8. QED
  BY <1>5, <1>6, <1>7
-----------------------------------------------------------------------------
(***************************************************************************)
(* The descriptors.                                                        *)
(***************************************************************************)

LEMMA SamePages ==
  ASSUME \A r \in Request :
           /\ resp'[r] = <<Page(r)>> <=> resp[r] = <<Page(r)>>
           /\ resp[r] = <<Page(r)>> => browser'[r] = browser[r]
  PROVE  PagesClosed' = PagesClosed /\ PagesOpen' = PagesOpen
BY DEF PagesClosed, PagesOpen

\* hrd's part of Leaks, and psb's.
HrdLeaks ==
  Running =>
    hfds = (IF hpc \in {"start", "accept"} THEN 0 ELSE 2) + taken + Cardinality(cut)
             + Cardinality(PagesClosed) + 2 * Cardinality(PagesOpen)

PsbLeaks == (Running /\ ppc # "down") => pfds <= (IF Busy THEN 2 ELSE 0) + 2 * Cardinality(GivenUp)

LEMMA LeaksParts == Leaks <=> HrdLeaks /\ PsbLeaks
BY DEF Leaks, HrdLeaks, PsbLeaks, PagesClosed, PagesOpen

\* An error page for cur.
LEMMA NewPage ==
  ASSUME TypeOK, HrdOK, SendsPage, browser[cur] = "open",
         \A r \in Request : r # cur => browser'[r] = browser[r],
         IsFiniteSet(PagesClosed), IsFiniteSet(PagesOpen)
  PROVE  /\ browser'[cur] = "open" =>
              /\ PagesClosed' = PagesClosed
              /\ IsFiniteSet(PagesOpen') /\ Cardinality(PagesOpen') = Cardinality(PagesOpen) + 1
         /\ browser'[cur] = "closed" =>
              /\ PagesOpen' = PagesOpen
              /\ IsFiniteSet(PagesClosed') /\ Cardinality(PagesClosed') = Cardinality(PagesClosed) + 1
<1>1. /\ cur \in Request /\ resp[cur] = <<>> /\ resp'[cur] = <<Page(cur)>>
      /\ \A r \in Request : r # cur => resp'[r] = resp[r]
  BY DEF SendsPage, Appends, TypeOK
<1>2. <<>> # <<Page(cur)>>
  OBVIOUS
<1>3. cur \notin PagesOpen /\ cur \notin PagesClosed
  BY <1>1, <1>2 DEF PagesOpen, PagesClosed
<1>4. CASE browser'[cur] = "open"
  <2>1. PagesOpen' = PagesOpen \cup {cur} /\ PagesClosed' = PagesClosed
    BY <1>1, <1>2, <1>4 DEF PagesOpen, PagesClosed
  <2>2. QED
    BY <1>3, <1>4, <2>1, FS_AddElement
<1>5. CASE browser'[cur] = "closed"
  <2>1. PagesClosed' = PagesClosed \cup {cur} /\ PagesOpen' = PagesOpen
    BY <1>1, <1>2, <1>5 DEF PagesOpen, PagesClosed
  <2>2. QED
    BY <1>3, <1>5, <2>1, FS_AddElement
<1>6. QED
  BY <1>4, <1>5

LEMMA HrdLeaksStep ==
  ASSUME TypeOK, HrdOK, RespOK, RespOK', CountOK, IsFiniteSet(PagesClosed), IsFiniteSet(PagesOpen),
         HrdLeaks, Running', HrdStep \/ PsbStep
  PROVE  HrdLeaks' /\ IsFiniteSet(PagesClosed)' /\ IsFiniteSet(PagesOpen)'
<1>0. /\ taken \in Nat /\ hfds \in Nat /\ Cardinality(cut) \in Nat /\ IsFiniteSet(cut)
      /\ Cardinality(PagesClosed) \in Nat /\ Cardinality(PagesOpen) \in Nat
  BY Lengths, FS_CardinalityType DEF CountOK, TypeOK
<1>1. CASE PsbStep
  <2>1. PagesClosed' = PagesClosed /\ PagesOpen' = PagesOpen
    BY <1>1, PsbQuiet, SamePages DEF Quiet
  <2>2. QED
    BY <1>1, <2>1, PsbQuiet DEF Quiet, HrdLeaks, Running
<1>2. ASSUME NEW r \in Request, BrowserConnects(r)
      PROVE  HrdLeaks' /\ IsFiniteSet(PagesClosed)' /\ IsFiniteSet(PagesOpen)'
  <2>1. /\ UNCHANGED <<resp, hpc, hfds, taken, cut>>
        /\ \A q \in Request : q # r => browser'[q] = browser[q]
    BY <1>2 DEF BrowserConnects, hrdVars, linkVars, TypeOK
  <2>2. resp[r] = <<>>
    BY <1>2 DEF BrowserConnects, HrdOK, Fresh
  <2>3. PagesClosed' = PagesClosed /\ PagesOpen' = PagesOpen
    BY <2>1, <2>2, SamePages
  <2>4. QED
    BY <2>1, <2>3 DEF HrdLeaks, Running
<1>3. CASE HrdStarts
  <2>1. /\ UNCHANGED <<browser, resp, hfds, taken, cut>> /\ hpc = "start" /\ hpc' = "accept"
    BY <1>3 DEF HrdStarts
  <2>2. PagesClosed' = PagesClosed /\ PagesOpen' = PagesOpen
    BY <2>1, SamePages
  <2>3. QED
    BY <2>1, <2>2 DEF HrdLeaks, Running
<1>4. CASE HrdAccept
  <2>1. UNCHANGED <<resp, taken, cut>> /\ hpc = "accept"
    BY <1>4 DEF HrdAccept, linkVars
  <2>2. hpc' = "read"
    BY <1>4 DEF HrdAccept, HrdEnds, Running
  <2>3. QED
    <3>1. PICK r \in Request : /\ browser[r] = "waiting" /\ browser' = [browser EXCEPT ![r] = "open"]
                               /\ hfds' = hfds + 2
      BY <1>4, <2>2 DEF HrdAccept, HrdEnds
    <3>2. resp[r] = <<>> /\ \A q \in Request : q # r => browser'[q] = browser[q]
      BY <3>1 DEF HrdOK, Fresh, TypeOK
    <3>3. PagesClosed' = PagesClosed /\ PagesOpen' = PagesOpen
      BY <2>1, <3>2, SamePages
    <3>4. QED
      BY <1>0, <2>1, <2>2, <3>1, <3>3 DEF HrdLeaks, Running
<1>5. CASE HrdRead
  <2>1. UNCHANGED <<browser, resp, taken, cut, hfds>> /\ hpc = "read" /\ hpc' = "connect"
    BY <1>5 DEF HrdRead, HrdEnds, linkVars, Running
  <2>2. PagesClosed' = PagesClosed /\ PagesOpen' = PagesOpen
    BY <2>1, SamePages
  <2>3. QED
    BY <2>1, <2>2 DEF HrdLeaks, Running
<1>6. CASE HrdConnect
  <2>1. /\ UNCHANGED <<taken, cut>> /\ hpc = "connect" /\ cur \in Request /\ browser[cur] = "open"
        /\ cur \notin wrote /\ resp[cur] = <<>>
    BY <1>6 DEF HrdConnect, linkVars, HrdOK, Fresh
  <2>2. CASE hpc' = "write"
    <3>1. UNCHANGED <<browser, resp, hfds>>
      BY <1>6, <2>2 DEF HrdConnect
    <3>2. PagesClosed' = PagesClosed /\ PagesOpen' = PagesOpen
      BY <3>1, SamePages
    <3>3. QED
      BY <2>1, <2>2, <3>1, <3>2 DEF HrdLeaks, Running
  <2>3. CASE hpc' # "write"
    <3>1. /\ SendsPage /\ browser' = [browser EXCEPT ![cur] = "closed"] /\ hpc' = "accept"
          /\ hfds' = hfds - 1
      BY <1>6, <2>1, <2>3 DEF HrdConnect, SendsPage, Appends
    <3>2. browser'[cur] = "closed" /\ \A r \in Request : r # cur => browser'[r] = browser[r]
      BY <2>1, <3>1 DEF TypeOK
    <3>3. /\ PagesOpen' = PagesOpen
          /\ IsFiniteSet(PagesClosed') /\ Cardinality(PagesClosed') = Cardinality(PagesClosed) + 1
      BY <2>1, <3>1, <3>2, NewPage
    <3>4. HrdLeaks'
      <4>1. hfds = 2 + taken + Cardinality(cut) + Cardinality(PagesClosed) + 2 * Cardinality(PagesOpen)
        BY <2>1 DEF HrdLeaks, Running
      <4>2. hfds' = taken + Cardinality(cut) + Cardinality(PagesClosed') + 2 * Cardinality(PagesOpen)
        BY <1>0, <3>1, <3>3, <4>1
      <4>3. QED
        BY <1>0, <2>1, <3>1, <3>3, <4>2 DEF HrdLeaks
    <3>5. QED
      BY <3>3, <3>4
  <2>4. QED
    BY <2>2, <2>3
<1>7. CASE HrdWrite
  <2>1. /\ UNCHANGED <<browser, taken, cut>> /\ hpc = "write" /\ cur \in Request
        /\ browser[cur] = "open" /\ cur \notin wrote /\ resp[cur] = <<>>
    BY <1>7 DEF HrdWrite, HrdEnds, linkVars, HrdOK, Running
  <2>2. CASE resp' = resp
    <3>1. PagesClosed' = PagesClosed /\ PagesOpen' = PagesOpen
      BY <2>1, <2>2, SamePages
    <3>2. hpc' = "receive" /\ hfds' = hfds
      <4>1. \/ hpc' = "receive" /\ hfds' = hfds
            \/ resp' = [resp EXCEPT ![cur] = Append(@, Page(cur))]
        BY <1>7 DEF HrdWrite, HrdEnds, Running
      <4>2. resp' # [resp EXCEPT ![cur] = Append(@, Page(cur))]
        BY <2>1, <2>2 DEF TypeOK
      <4>3. QED
        BY <4>1, <4>2
    <3>3. QED
      BY <2>1, <3>1, <3>2 DEF HrdLeaks, Running
  <2>3. CASE resp' # resp
    <3>1. SendsPage /\ hpc' = "accept" /\ hfds' = hfds
      BY <1>7, <2>1, <2>3 DEF HrdWrite, SendsPage, Appends
    <3>2. /\ PagesClosed' = PagesClosed
          /\ IsFiniteSet(PagesOpen') /\ Cardinality(PagesOpen') = Cardinality(PagesOpen) + 1
      BY <2>1, <3>1, NewPage
    <3>3. QED
      BY <1>0, <2>1, <3>1, <3>2 DEF HrdLeaks, Running
  <2>4. QED
    BY <2>2, <2>3
<1>8. ASSUME hpc \in {"receive", "send"}, wrote' = wrote, \A r \in Request : r # cur => resp'[r] = resp[r],
             \A r \in Request : r # cur => browser'[r] = browser[r]
      PROVE  PagesClosed' = PagesClosed /\ PagesOpen' = PagesOpen
  <2>1. cur \in wrote /\ cur \in Request
    BY <1>8 DEF HrdOK
  <2>2. resp[cur] # <<Page(cur)>> /\ resp'[cur] # <<Page(cur)>>
    BY <1>8, <2>1 DEF RespOK
  <2>3. QED
    BY <1>8, <2>2, SamePages
<1>9. CASE HrdReceives
  <2>1. /\ hpc = "receive" /\ wrote' = wrote /\ cut' = cut /\ taken' = taken + 1
        /\ \/ hpc' = "send" /\ hfds' = hfds + 1 - 0
           \/ hpc' = "accept" /\ hfds' = hfds + 1 - 2
    BY <1>9 DEF HrdReceives, HrdCloses, OpensFile
  <2>2. PagesClosed' = PagesClosed /\ PagesOpen' = PagesOpen
    BY <1>8, <1>9, <2>1, OneAtATime DEF HrdForwards
  <2>3. QED
    BY <1>0, <2>1, <2>2 DEF HrdLeaks, Running
<1>10. CASE HrdTimesOut
  <2>1. /\ hpc \in {"receive", "send"} /\ wrote' = wrote /\ taken' = taken
        /\ cut' = cut \cup {cur} /\ cur \notin cut
        /\ hpc' = "accept" /\ hfds' = hfds + 1 - 2
    BY <1>10 DEF HrdTimesOut, HrdCloses, OpensFile, linkVars, HrdOK
  <2>2. PagesClosed' = PagesClosed /\ PagesOpen' = PagesOpen
    BY <1>8, <1>10, <2>1, OneAtATime DEF HrdForwards
  <2>3. Cardinality(cut') = Cardinality(cut) + 1
    BY <1>0, <2>1, FS_AddElement
  <2>4. QED
    BY <1>0, <2>1, <2>2, <2>3 DEF HrdLeaks, Running
<1>11. ~HrdAborts
  BY DEF HrdAborts, HrdEnds, Running
<1>12. CASE HrdSent
  <2>1. UNCHANGED <<browser, resp, hfds, taken, cut>> /\ hpc = "send" /\ hpc' = "receive"
    BY <1>12 DEF HrdSent, linkVars
  <2>2. PagesClosed' = PagesClosed /\ PagesOpen' = PagesOpen
    BY <2>1, SamePages
  <2>3. QED
    BY <2>1, <2>2 DEF HrdLeaks, Running
<1>13. QED
  BY <1>1, <1>2, <1>3, <1>4, <1>5, <1>6, <1>7, <1>9, <1>10, <1>11, <1>12 DEF HrdStep, HrdForwards

\* hrd's browser is none that has been sent a page.
LEMMA CurHasNoPage ==
  ASSUME HrdOK, RespOK, HrdRead \/ HrdForwards \/ HrdSent
  PROVE  resp[cur] # <<Page(cur)>>
<1>1. hpc \in {"read", "connect", "write"} => resp[cur] = <<>>
  BY DEF HrdOK, Fresh
<1>2. hpc \in {"receive", "send"} => cur \in Request /\ cur \in wrote
  BY DEF HrdOK
<1>3. hpc \in {"read", "connect", "write", "receive", "send"}
  BY DEF HrdRead, HrdForwards, HrdConnect, HrdWrite, HrdReceives, HrdCloses, OpensFile, HrdTimesOut,
         HrdAborts, HrdSent
<1>4. QED
  BY <1>1, <1>2, <1>3 DEF RespOK

LEMMA AheadOpenStep ==
  ASSUME TypeOK, HrdOK, RespOK, RespOK', AheadOpen, HrdStep \/ PsbStep
  PROVE  AheadOpen'
<1>1. SUFFICES ASSUME Running', NEW r \in Request, Ahead(r)', resp'[r] = <<Page(r)>>
               PROVE  browser'[r] = "open"
  BY DEF AheadOpen
<1>0. Running
  BY <1>1, RunsOn
<1>2. CASE PsbStep
  BY <1>0, <1>1, <1>2, AheadPsb, PsbQuiet DEF AheadOpen, Quiet
<1>3. CASE HrdStarts \/ HrdAccept \/ \E q \in Request : BrowserConnects(q)
  <2>1. resp' = resp /\ ~HrdConnect
    BY <1>3 DEF HrdStarts, HrdAccept, BrowserConnects, HrdConnect, hrdVars
  <2>2. Ahead(r)
    <3>1. CASE HrdStarts \/ HrdAccept
      BY <1>1, <2>1, <3>1, AheadHrd DEF HrdStep
    <3>2. CASE \E q \in Request : BrowserConnects(q)
      BY <1>1, <3>2 DEF BrowserConnects, connVars, psbVars, Ahead, Busy
    <3>3. QED
      BY <1>3, <3>1, <3>2
  <2>3. browser[r] = "open"
    BY <1>0, <1>1, <2>1, <2>2 DEF AheadOpen
  <2>4. QED
    BY <1>1, <1>3, <2>3 DEF HrdStarts, HrdAccept, HrdEnds, BrowserConnects, TypeOK, Running
<1>4. CASE HrdRead \/ HrdForwards \/ HrdSent
  <2>1. CASE r # cur
    <3>1. resp'[r] = resp[r] /\ browser'[r] = browser[r]
      BY <1>1, <1>4, <2>1, OneAtATime
    <3>2. Ahead(r)
      BY <1>1, <1>4, <2>1, AheadHrd DEF HrdStep
    <3>3. QED
      BY <1>0, <1>1, <3>1, <3>2 DEF AheadOpen
  <2>2. CASE r = cur
    <3>1. resp[cur] # <<Page(cur)>> /\ cur' = cur /\ cur \in Request
      BY <1>1, <1>4, CurHasNoPage, OneAtATime
    <3>2. HrdConnect \/ HrdWrite
      <4>1. hpc \in {"receive", "send"} => cur \in wrote
        BY DEF HrdOK
      <4>2. HrdReceives => cur \in wrote'
        BY <4>1 DEF HrdReceives, HrdCloses, OpensFile
      <4>3. ~HrdReceives
        BY <1>1, <2>2, <4>2 DEF RespOK
      <4>4. QED
        BY <1>1, <1>4, <2>2, <3>1, <4>3 DEF HrdForwards, HrdRead, HrdTimesOut, HrdCloses, HrdAborts,
           HrdSent
    <3>3. CASE HrdWrite
      BY <1>1, <2>2, <3>3 DEF HrdWrite, HrdEnds, HrdOK, Running
    <3>4. CASE HrdConnect
      <4>1. ~(hpc' = "write")
        BY <1>1, <2>2, <3>1, <3>4 DEF HrdConnect
      <4>2. ~Ahead(cur)
        BY <3>4 DEF HrdConnect, HrdOK, Fresh
      <4>3. QED
        BY <1>1, <1>4, <2>2, <4>1, <4>2, AheadHrd DEF HrdStep
    <3>5. QED
      BY <3>2, <3>3, <3>4
  <2>3. QED
    BY <2>1, <2>2
<1>5. QED
  BY <1>2, <1>3, <1>4 DEF HrdStep

\* A connection psb no longer deals with never comes back to it.
LEMMA GivenUpGrows ==
  ASSUME TypeOK, HrdOK, RespOK, RespOK', PsbOK, Running, Running', HrdStep \/ PsbStep
  PROVE  GivenUp \subseteq GivenUp'
<1>1. SUFFICES ASSUME NEW r \in GivenUp PROVE r \in GivenUp'
  OBVIOUS
<1>2. /\ r \in Request /\ Connected(r) /\ ~Ahead(r)
      /\ \A j \in 1 .. Len(link) : link[j] # End(r)
  BY DEF GivenUp, Ahead
<1>3. SUFFICES Connected(r)' /\ ~Ahead(r)' /\ \A j \in 1 .. Len(link') : link'[j] # End(r)
  BY <1>2 DEF GivenUp, Ahead
<1>4. CASE PsbStep
  <2>1. Quiet /\ browser' = browser
    BY <1>4, PsbQuiet
  <2>2. Connected(r)' /\ ~Ahead(r)'
    BY <1>2, <1>4, <2>1, AheadPsb DEF Connected, Quiet
  <2>3. CASE link' = link
    BY <1>2, <2>2, <2>3
  <2>4. CASE link' # link
    <3>1. PICK f : f = link'[Len(link')] /\ link' = Append(link, f) /\ ppc = "relay" /\ f.of = pcur
      <4>1. ppc = "relay"
        BY <1>4, <2>4 DEF PsbStep, PsbStarts, PsbWorks, PsbAccept, PsbRead, PsbConnect, PsbWrite,
           PsbRelays, PsbFinishes, PsbStops, linkVars
      <4>2. PICK f : f \in {Piece(pcur, pieces + 1), Torn(pcur, pieces + 1), End(pcur)}
                     /\ link' = Append(link, f)
        BY <1>4, <2>4 DEF PsbStep, PsbStarts, PsbWorks, PsbAccept, PsbRead, PsbConnect, PsbWrite,
           PsbRelays, PsbFinishes, PsbStops, linkVars
      <4>3. f.of = pcur
        BY <4>2 DEF Piece, Torn, End
      <4>4. link'[Len(link')] = f
        BY <4>2 DEF TypeOK
      <4>5. QED
        BY <4>1, <4>2, <4>3, <4>4
    <3>2. r # pcur
      BY <1>2, <3>1 DEF Ahead, Busy
    <3>3. f # End(r)
      BY <3>1, <3>2 DEF End
    <3>4. \A j \in 1 .. Len(link') : link'[j] = f \/ (j \in 1 .. Len(link) /\ link'[j] = link[j])
      BY <3>1 DEF TypeOK
    <3>5. QED
      BY <1>2, <2>2, <3>3, <3>4
  <2>5. QED
    BY <2>3, <2>4
<1>5. CASE HrdStep
  <2>1. link' = link /\ wrote \subseteq wrote'
    <3>1. wrote \subseteq wrote'
      BY <1>5 DEF HrdStep, HrdStarts, HrdAccept, HrdRead, HrdForwards, HrdSent, HrdConnect,
         HrdWrite,
         HrdReceives, HrdTimesOut, HrdAborts, BrowserConnects, connVars
    <3>2. QED
      BY <1>5, <3>1, HrdQuiet
  <2>2. ~Ahead(r)'
    <3>1. HrdConnect => ~Connected(cur)
      <4>1. HrdConnect => resp[cur] = <<>> /\ cur \notin wrote /\ hpc = "connect"
        BY DEF HrdConnect, HrdOK, Fresh
      <4>2. <<>> # <<Page(cur)>>
        OBVIOUS
      <4>3. QED
        BY <4>1, <4>2 DEF Connected
    <3>2. QED
      BY <1>2, <1>5, <3>1, AheadHrd
  <2>3. Connected(r)'
    <3>1. CASE r \in wrote
      BY <2>1, <3>1 DEF Connected
    <3>2. CASE resp[r] = <<Page(r)>> /\ browser[r] = "open"
      <4>1. CASE HrdRead \/ HrdForwards \/ HrdSent
        <5>1. r # cur
          BY <3>2, <4>1, CurHasNoPage
        <5>2. resp'[r] = resp[r] /\ browser'[r] = browser[r]
          BY <1>2, <4>1, <5>1, OneAtATime
        <5>3. QED
          BY <3>2, <5>2 DEF Connected
      <4>2. CASE HrdStarts \/ HrdAccept \/ \E q \in Request : BrowserConnects(q)
        <5>1. resp'[r] = resp[r] /\ browser'[r] = browser[r]
          BY <1>2, <3>2, <4>2 DEF HrdStarts, HrdAccept, HrdEnds, BrowserConnects, TypeOK, Running
        <5>2. QED
          BY <3>2, <5>1 DEF Connected
      <4>3. QED
        BY <1>5, <4>1, <4>2 DEF HrdStep
    <3>3. CASE hpc = "write" /\ cur = r
      <4>1. CASE HrdWrite
        <5>1. /\ cur \in Request /\ browser[cur] = "open" /\ browser' = browser /\ resp[cur] = <<>>
              /\ resp \in [Request -> Seq(Item)]
          BY <3>3, <4>1 DEF HrdWrite, HrdEnds, HrdOK, TypeOK, Item, Running
        <5>2. \/ wrote' = wrote \cup {cur}
              \/ resp' = [resp EXCEPT ![cur] = Append(@, Page(cur))]
              \/ hpc' = "down"
          BY <4>1 DEF HrdWrite, HrdEnds
        <5>3. QED
          BY <3>3, <5>1, <5>2 DEF Connected, Running
      <4>2. CASE \E q \in Request : BrowserConnects(q)
        BY <3>3, <4>2 DEF BrowserConnects, hrdVars, Connected
      <4>3. QED
        BY <1>5, <3>3, <4>1, <4>2 DEF HrdStep, HrdForwards, HrdSent, HrdStarts, HrdAccept, HrdRead,
           HrdConnect, HrdReceives, HrdCloses, OpensFile, HrdTimesOut, HrdAborts
    <3>4. QED
      BY <1>2, <3>1, <3>2, <3>3 DEF Connected
  <2>4. QED
    BY <1>2, <2>1, <2>2, <2>3
<1>6. QED
  BY <1>4, <1>5

LEMMA GivenUpFinite ==
  ASSUME IsFiniteSet(wrote), IsFiniteSet(PagesOpen)
  PROVE  IsFiniteSet(GivenUp) /\ Cardinality(GivenUp) \in Nat
<1>1. GivenUp \in SUBSET ((wrote \cup PagesOpen) \cup {cur})
  BY DEF GivenUp, Connected, PagesOpen
<1>2. IsFiniteSet((wrote \cup PagesOpen) \cup {cur})
  <2>1. IsFiniteSet(wrote \cup PagesOpen)
    BY FS_Union
  <2>2. QED
    BY <2>1, FS_AddElement
<1>3. IsFiniteSet(GivenUp)
  BY <1>1, <1>2, FS_Subset
<1>4. QED
  BY <1>3, FS_CardinalityType

\* What psb stops dealing with before its end is given up.
LEMMA GivesUp ==
  ASSUME HrdOK, PsbOK, KnownOK, LinkOK, LinkOK', AheadOpen, Running, PsbStep, Busy, ~Busy',
         UNCHANGED <<backlog, link, pcur>>, ppc # "relay"
  PROVE  pcur \in GivenUp' /\ pcur \notin GivenUp
<1>1. pcur \in Request /\ Ahead(pcur) /\ \A k \in 1 .. Len(backlog) : backlog[k] # pcur
  BY DEF PsbOK, Ahead, Busy
<1>2. shut \subseteq wrote
  BY DEF HrdOK
<1>3. Connected(pcur)
  BY <1>1, <1>2 DEF KnownOK, AheadOpen, Connected
<1>4. \A j \in 1 .. Len(link) : link[j] # End(pcur)
  <2>1. SUFFICES ASSUME NEW j \in 1 .. Len(link), link[j] = End(pcur) PROVE FALSE
    OBVIOUS
  <2>2. link[j].of = pcur
    BY <2>1 DEF End
  <2>3. QED
    BY <1>1, <2>2 DEF LinkOK
<1>5. Quiet /\ browser' = browser
  BY PsbQuiet
<1>6. PICK r : r = pcur
  OBVIOUS
<1>7. Connected(r)'
  BY <1>3, <1>5, <1>6 DEF Connected, Quiet
<1>8. r \in GivenUp'
  BY <1>1, <1>4, <1>6, <1>7 DEF GivenUp
<1>9. QED
  BY <1>6, <1>8 DEF GivenUp

LEMMA PsbLeaksStep ==
  ASSUME TypeOK, HrdOK, RespOK, RespOK', PsbOK, KnownOK, LinkOK, LinkOK', AheadOpen, PsbLeaks,
         IsFiniteSet(wrote), IsFiniteSet(PagesOpen), IsFiniteSet(wrote'), IsFiniteSet(PagesOpen'),
         HrdStep \/ PsbStep
  PROVE  PsbLeaks'
<1>1. SUFFICES ASSUME Running', ppc' # "down"
               PROVE  pfds' <= (IF Busy' THEN 2 ELSE 0) + 2 * Cardinality(GivenUp')
  BY DEF PsbLeaks
<1>2. Running
  BY <1>1, RunsOn
<1>3. ppc # "down"
  BY <1>1, HrdQuiet DEF PsbStep, PsbStarts, PsbWorks, PsbAccept, PsbRead, PsbConnect, PsbWrite,
     PsbRelays, PsbFinishes, PsbStops
<1>4. PICK g, h : g = Cardinality(GivenUp) /\ h = Cardinality(GivenUp')
  OBVIOUS
<1>5. /\ GivenUp \subseteq GivenUp' /\ IsFiniteSet(GivenUp) /\ IsFiniteSet(GivenUp')
      /\ g \in Nat /\ h \in Nat
  <2>1. IsFiniteSet(GivenUp') /\ Cardinality(GivenUp') \in Nat
    <3>1. IsFiniteSet(wrote)' /\ IsFiniteSet(PagesOpen)'
            => IsFiniteSet(GivenUp)' /\ (Cardinality(GivenUp) \in Nat)'
      BY GivenUpFinite, PTL
    <3>2. QED
      BY <3>1
  <2>2. QED
    BY <1>1, <1>2, <1>4, <2>1, GivenUpGrows, GivenUpFinite
<1>6. g <= h
  BY <1>4, <1>5, FS_Subset
<1>7. pfds <= (IF Busy THEN 2 ELSE 0) + 2 * g /\ pfds \in Nat
  BY <1>2, <1>3, <1>4 DEF PsbLeaks, TypeOK
<1>8. CASE pfds' = pfds /\ (Busy' <=> Busy)
  BY <1>4, <1>5, <1>6, <1>7, <1>8
<1>9. CASE HrdStep
  BY <1>8, <1>9, HrdQuiet DEF Busy
<1>10. CASE PsbAccept
  <2>1. ~Busy /\ Busy' /\ pfds' = pfds + 2
    BY <1>10 DEF PsbAccept, Busy
  <2>2. QED
    BY <1>4, <1>5, <1>6, <1>7, <2>1
<1>11. CASE (PsbConnect \/ PsbWrite) /\ ~Busy'
  <2>1. /\ Busy /\ UNCHANGED <<backlog, link, pcur>> /\ ppc # "relay"
        /\ pfds' = pfds \/ pfds' = pfds - 1
    BY <1>11 DEF PsbConnect, PsbWrite, Busy, connVars, linkVars
  <2>2. pcur \in GivenUp' /\ pcur \notin GivenUp
    BY <1>2, <1>11, <2>1, GivesUp DEF PsbStep, PsbWorks
  <2>3. GivenUp \in SUBSET GivenUp' /\ GivenUp # GivenUp'
    BY <1>5, <2>2
  <2>4. g # h
    BY <1>4, <1>5, <2>3, FS_Subset
  <2>5. QED
    BY <1>4, <1>5, <1>6, <1>7, <1>11, <2>1, <2>4
<1>12. CASE PsbFinishes
  <2>1. Busy /\ ~Busy' /\ pfds' = pfds - 2
    BY <1>12 DEF PsbFinishes, Busy
  <2>2. QED
    BY <1>4, <1>5, <1>6, <1>7, <2>1
<1>13. CASE PsbStep /\ ~PsbAccept /\ ~((PsbConnect \/ PsbWrite) /\ ~Busy') /\ ~PsbFinishes
  <2>1. pfds' = pfds /\ (Busy' <=> Busy)
    BY <1>1, <1>13 DEF PsbStep, PsbStarts, PsbWorks, PsbRead, PsbConnect, PsbWrite, PsbRelays,
       PsbStops,
       PsbEnds, Busy
  <2>2. QED
    BY <1>8, <2>1
<1>14. QED
  BY <1>9, <1>10, <1>11, <1>12, <1>13
-----------------------------------------------------------------------------
(***************************************************************************)
(* The theorems.                                                           *)
(***************************************************************************)

LEMMA InitIInv == Init => IInv
<1> SUFFICES ASSUME Init PROVE IInv
  OBVIOUS
<1>1. TypeOK
  BY InitType
<1>2. HrdOK /\ PsbOK /\ KnownOK
  BY DEF Init, HrdOK, PsbOK, KnownOK, Fresh, Ahead, Busy, Running
<1>3. /\ \A r \in Request : resp[r] = <<>> /\ Len(resp[r]) = 0 /\ resp[r] # <<Page(r)>>
      /\ Len(link) = 0 /\ taken = 0 /\ \A n \in 1 .. 0 : FALSE
  BY DEF Init
<1>4. RespOK /\ LinkOK /\ OnceOK
  BY <1>3 DEF RespOK, LinkOK, OnceOK
<1>5. Ends(1, taken) = {}
  BY <1>3 DEF Ends
<1>6. CountOK
  BY <1>5, FS_EmptySet DEF Init, CountOK
<1>7. QED
  BY <1>1, <1>2, <1>4, <1>6 DEF IInv

LEMMA NextStep == ASSUME Next PROVE HrdStep \/ PsbStep
BY DEF Next, HrdStep, PsbStep

LEMMA StutterIInv == ASSUME IInv, UNCHANGED vars PROVE IInv'
<1>1. UNCHANGED <<browser, resp, hpc, cur, asked, hfds, backlog, wrote, shut, ppc, pcur, pasked,
                  pieces, pfds, joined, link, taken, cut, early>>
  BY DEF vars, hrdVars, connVars, psbVars, linkVars
<1>2. TypeOK' /\ HrdOK' /\ PsbOK'
  BY <1>1 DEF IInv, TypeOK, HrdOK, PsbOK, Fresh, Ahead, Busy, Running
<1>3. RespOK' /\ KnownOK'
  BY <1>1 DEF IInv, RespOK, KnownOK, Ahead, Busy
<1>4. LinkOK' /\ OnceOK'
  BY <1>1 DEF IInv, LinkOK, OnceOK, Ahead, Busy
<1>5. CountOK'
  BY <1>1 DEF IInv, CountOK, Ends, Running
<1>6. QED
  BY <1>2, <1>3, <1>4, <1>5 DEF IInv

LEMMA IInvStep == IInv /\ [Next]_vars => IInv'
<1> SUFFICES ASSUME IInv, [Next]_vars PROVE IInv'
  OBVIOUS
<1>1. TypeOK /\ HrdOK /\ RespOK /\ PsbOK /\ KnownOK /\ LinkOK /\ OnceOK /\ CountOK
  BY DEF IInv
<1>2. TypeOK'
  BY <1>1, StepType
<1>3. CASE Next
  <2>1. HrdStep \/ PsbStep
    BY <1>3, NextStep
  <2>2. HrdOK' /\ PsbOK' /\ LinkOK'
    BY <1>1, <1>2, <2>1, HrdHrdOK, PsbHrdOK, HrdPsbOK, PsbPsbOK, HrdLinkOK, PsbLinkOK
  <2>3. RespOK' /\ KnownOK' /\ OnceOK' /\ CountOK'
    BY <1>1, <1>2, <2>1, RespStep, KnownStep, OnceStep, CountStep
  <2>4. QED
    BY <1>2, <2>2, <2>3 DEF IInv
<1>4. CASE UNCHANGED vars
  BY <1>4, StutterIInv
<1>5. QED
  BY <1>3, <1>4

\* The inductive invariant holds.
THEOREM Invariance == Spec => []IInv
<1>1. Init => IInv
  BY InitIInv
<1>2. IInv /\ [Next]_vars => IInv'
  BY IInvStep
<1>3. QED
  BY <1>1, <1>2, PTL DEF Spec

\* Every variable keeps its type.  Each process closes only descriptors it has
\* opened, and hrd takes no more files than psb has sent.
THEOREM TypeCorrect == Spec => []TypeOK
<1>1. IInv => TypeOK
  BY DEF IInv
<1>2. QED
  BY <1>1, Invariance, PTL

\* While hrd waits for a response, psb waits for a request only on a connection
\* that hrd has left open behind an error page.
THEOREM AbandonedHolds == Spec => []HeldByAbandoned
<1>1. IInv => HeldByAbandoned
  <2>1. SUFFICES ASSUME IInv, hpc \in {"receive", "send"}, ppc = "read", pcur \notin wrote \cup shut
                 PROVE  resp[pcur] = <<Page(pcur)>>
    BY DEF HeldByAbandoned
  <2>2. pcur \in Request /\ Ahead(pcur)
    BY <2>1 DEF IInv, PsbOK, Busy, Ahead
  <2>3. QED
    BY <2>1, <2>2 DEF IInv, KnownOK
<1>2. QED
  BY <1>1, Invariance, PTL

\* Each part psb has sent and hrd has received went to one browser, and once.
THEOREM PartsOnce == Spec => []PassedOnOnce
<1>1. IInv => PassedOnOnce
  <2>1. SUFFICES ASSUME IInv, NEW j \in 1 .. taken, link[j].kind # "end"
                 PROVE  Cardinality({rk \in Request \X (1 .. Len(link)) :
                          rk[2] <= Len(resp[rk[1]]) /\ resp[rk[1]][rk[2]] = link[j]}) = 1
    BY DEF PassedOnOnce
  <2>2. /\ resp \in [Request -> Seq(Item)] /\ taken \in 0 .. Len(link) /\ Len(link) \in Nat
        /\ j \in 1 .. Len(link) /\ link[j] \in File
    <3>1. TypeOK
      BY <2>1 DEF IInv
    <3>2. /\ resp \in [Request -> Seq(Item)] /\ taken \in 0 .. Len(link) /\ link \in Seq(File)
      BY <3>1 DEF TypeOK, Item
    <3>3. QED
      BY <3>2
  <2>3. PICK r \in Request : \E k \in 1 .. Len(resp[r]) : resp[r][k] = link[j]
    BY <2>1 DEF IInv, OnceOK
  <2>4. PICK k \in 1 .. Len(resp[r]) : resp[r][k] = link[j]
    BY <2>3
  <2>5. Len(resp[r]) \in Nat /\ Len(resp[r]) <= taken
    <3>1. resp[r] # <<Page(r)>>
      <4>1. SUFFICES ASSUME resp[r] = <<Page(r)>> PROVE FALSE
        OBVIOUS
      <4>2. link[j] = Page(r)
        BY <2>4, <4>1
      <4>3. QED
        BY <2>2, <4>2, FileFields
    <3>2. QED
      BY <2>1, <2>2, <3>1 DEF IInv, RespOK
  <2>6. k \in 1 .. Len(link) /\ k <= Len(resp[r])
    BY <2>2, <2>4, <2>5
  <2>7. ASSUME NEW s \in Request, NEW l \in 1 .. Len(link), l <= Len(resp[s]), resp[s][l] = link[j]
        PROVE  s = r /\ l = k
    <3>1. l \in 1 .. Len(resp[s])
      BY <2>2, <2>7
    <3>2. QED
      BY <2>1, <2>4, <2>7, <3>1 DEF IInv, OnceOK
  <2>8. {rk \in Request \X (1 .. Len(link)) :
           rk[2] <= Len(resp[rk[1]]) /\ resp[rk[1]][rk[2]] = link[j]} = {<<r, k>>}
    BY <2>4, <2>6, <2>7
  <2>9. QED
    BY <2>8, FS_Singleton
<1>2. QED
  BY <1>1, Invariance, PTL

\* hrd is behind psb by no more responses than it has given up, and the one it
\* is receiving.
THEOREM NotFurtherBehind == Spec => []Lag
<1>1. IInv => Lag
  <2>1. SUFFICES ASSUME IInv, Running
                 PROVE  Cardinality(Ends(taken + 1, Len(link)))
                          <= Cardinality(cut) + (IF hpc \in {"receive", "send"} THEN 1 ELSE 0)
    BY DEF Lag, Ends
  <2>2. TypeOK /\ LinkOK /\ CountOK
    BY <2>1 DEF IInv
  <2>3. Cardinality(cut) \in Nat /\ Cardinality(wrote) \in Nat
    BY <2>2, FS_CardinalityType DEF CountOK
  <2>4. taken + 1 \in Nat /\ Len(link) \in Nat /\ taken \in Nat
    <3>1. taken \in 0 .. Len(link) /\ link \in Seq(File)
      BY <2>2 DEF TypeOK
    <3>2. QED
      BY <3>1
  <2>5. /\ Cardinality(Ends(1, taken)) \in Nat
        /\ Cardinality(Ends(taken + 1, Len(link))) \in Nat
    BY <2>4, EndsFinite
  <2>6. QED
    BY <2>1, <2>2, <2>3, <2>5, EndsOfWrote DEF CountOK
<1>2. QED
  BY <1>1, Invariance, PTL

LEMMA InitInStep == Init => InStep
<1> SUFFICES ASSUME Init PROVE OwnOK /\ TakenOK /\ WaitingOK /\ AloneOK /\ RelayOK /\ TornOK
  BY DEF InStep
<1>1. /\ \A r \in Request : resp[r] = <<>> /\ browser[r] # "closed"
      /\ Len(<<>>) = 0 /\ link = <<>> /\ taken = 0 /\ wrote = {} /\ hpc = "start" /\ ppc = "off"
  BY DEF Init
<1>2. (\A n \in 1 .. 0 : FALSE) /\ \A n \in 0 + 1 .. 0 : FALSE
  OBVIOUS
<1>3. QED
  BY <1>1, <1>2 DEF OwnOK, OwnOf, TakenOK, WaitingOK, AloneOK, RelayOK, TornOK

LEMMA StutterInStep == ASSUME InStep, UNCHANGED vars PROVE InStep'
<1>1. UNCHANGED <<browser, resp, hpc, cur, backlog, wrote, ppc, pcur, pieces, joined, link, taken,
                  early>>
  BY DEF vars, hrdVars, connVars, psbVars, linkVars
<1>2. /\ (OwnOK /\ TakenOK /\ WaitingOK)' = (OwnOK /\ TakenOK /\ WaitingOK)
      /\ (AloneOK /\ RelayOK /\ TornOK)' = (AloneOK /\ RelayOK /\ TornOK)
      /\ Running' = Running
  BY <1>1 DEF OwnOK, OwnOf, WholeOf, TakenOK, WaitingOK, AloneOK, Halted, Ahead, Busy, RelayOK,
              TornOK, Running
<1>3. QED
  BY <1>1, <1>2 DEF InStep

\* As long as no timeout comes while a response is under way, hrd and psb work on
\* one request at a time, and nothing of another is between them.
THEOREM StaysInStep == Spec => []InStep
<1>1. Init => InStep
  BY InitInStep
<1>2. IInv /\ InStep /\ [Next]_vars => InStep'
  BY NextStep, InStepStep, StutterInStep
<1>3. QED
  BY <1>1, <1>2, Invariance, PTL DEF Spec

\* Each browser gets its own response, all of it, as long as no timeout comes
\* while a response is under way.
THEOREM OwnResponses == Spec => []OwnResponse
<1>1. InStep => OwnResponse
  BY DEF InStep, OwnOK, OwnResponse
<1>2. QED
  BY <1>1, StaysInStep, PTL

\* The descriptors of hrd and psb that are lost are accounted for.
THEOREM LeaksBounded == Spec => []Leaks
<1>1. Init => LeakOK
  <2>1. SUFFICES ASSUME Init PROVE LeakOK
    OBVIOUS
  <2>2. \A r \in Request : resp[r] = <<>> /\ <<>> # <<Page(r)>>
    BY <2>1 DEF Init
  <2>3. PagesClosed = {} /\ PagesOpen = {}
    BY <2>2 DEF PagesClosed, PagesOpen
  <2>4. GivenUp = {}
    BY <2>1, <2>2 DEF Init, GivenUp, Connected
  <2>5. HrdLeaks /\ PsbLeaks
    BY <2>1, <2>3, <2>4, FS_EmptySet DEF Init, HrdLeaks, PsbLeaks, Busy
  <2>6. AheadOpen
    BY <2>2 DEF AheadOpen
  <2>7. QED
    BY <2>3, <2>5, <2>6, FS_EmptySet, LeaksParts DEF LeakOK
<1>2. IInv /\ IInv' /\ LeakOK /\ [Next]_vars => LeakOK'
  <2>1. SUFFICES ASSUME IInv, IInv', LeakOK, [Next]_vars PROVE LeakOK'
    OBVIOUS
  <2>2. /\ TypeOK /\ HrdOK /\ RespOK /\ RespOK' /\ PsbOK /\ KnownOK /\ LinkOK /\ LinkOK' /\ CountOK
        /\ IsFiniteSet(wrote) /\ IsFiniteSet(wrote')
    BY <2>1 DEF IInv, CountOK
  <2>3. /\ Running => IsFiniteSet(PagesClosed) /\ IsFiniteSet(PagesOpen)
        /\ AheadOpen /\ HrdLeaks /\ PsbLeaks
    BY <2>1, LeaksParts DEF LeakOK
  <2>4. CASE Next /\ Running'
    <3>1. (HrdStep \/ PsbStep) /\ Running /\ IsFiniteSet(PagesClosed) /\ IsFiniteSet(PagesOpen)
      BY <2>3, <2>4, NextStep, RunsOn
    <3>2. HrdLeaks' /\ IsFiniteSet(PagesClosed)' /\ IsFiniteSet(PagesOpen)'
      BY <2>2, <2>3, <2>4, <3>1, HrdLeaksStep
    <3>3. AheadOpen'
      BY <2>2, <2>3, <3>1, AheadOpenStep
    <3>4. PsbLeaks'
      BY <2>2, <2>3, <3>1, <3>2, PsbLeaksStep
    <3>5. Leaks'
      BY <3>2, <3>4 DEF Leaks, HrdLeaks, PsbLeaks, PagesClosed, PagesOpen
    <3>6. QED
      BY <3>2, <3>3, <3>5 DEF LeakOK
  <2>7. CASE ~Running'
    BY <2>7 DEF LeakOK, Leaks, AheadOpen
  <2>5. CASE UNCHANGED vars
    <3>1. UNCHANGED <<browser, resp, hpc, cur, hfds, backlog, wrote, ppc, pcur, pfds, link, taken, cut>>
      BY <2>5 DEF vars, hrdVars, connVars, psbVars, linkVars
    <3>2. /\ PagesClosed' = PagesClosed /\ PagesOpen' = PagesOpen /\ GivenUp' = GivenUp
          /\ Running' = Running /\ Busy' = Busy /\ AheadOpen' = AheadOpen
      BY <3>1 DEF PagesClosed, PagesOpen, GivenUp, Connected, Running, Busy, AheadOpen, Ahead
    <3>3. HrdLeaks' /\ PsbLeaks'
      BY <2>3, <3>1, <3>2 DEF HrdLeaks, PsbLeaks
    <3>4. Leaks'
      BY <3>3 DEF Leaks, HrdLeaks, PsbLeaks, PagesClosed, PagesOpen
    <3>5. QED
      BY <2>3, <3>2, <3>4 DEF LeakOK
  <2>6. QED
    BY <2>1, <2>4, <2>5, <2>7
<1>3. LeakOK => Leaks
  BY DEF LeakOK
<1>4. QED
  BY <1>1, <1>2, <1>3, Invariance, PTL DEF Spec
-----------------------------------------------------------------------------
(***************************************************************************)
(* What the browsers see of the pair.                                      *)
(***************************************************************************)

\* A sequence mapped item by item keeps its length.
LEMMA SeenLength ==
  ASSUME TypeOK, NEW r \in Request
  PROVE  /\ Len(SeenAnswer[r]) = Len(resp[r]) /\ Len(resp[r]) \in Nat
         /\ \A k \in 1 .. Len(resp[r]) : SeenAnswer[r][k] = Seen(resp[r][k])
<1>1. resp[r] \in Seq(Item)
  BY DEF TypeOK, Item
<1>2. Len(resp[r]) \in Nat
  BY <1>1
<1>3. SeenAnswer[r] = [k \in 1 .. Len(resp[r]) |-> Seen(resp[r][k])]
  BY DEF SeenAnswer
<1> DEFINE n == Len(resp[r])
           f == [k \in 1 .. n |-> Seen(resp[r][k])]
           S == {Seen(resp[r][k]) : k \in 1 .. n}
<1>4. f \in [1 .. n -> S]
  OBVIOUS
<1> HIDE DEF f, S
<1>5. f \in Seq(S) /\ DOMAIN f = 1 .. n /\ n \in Nat
  BY <1>2, <1>4
<1>6. Len(f) = n
  BY <1>5
<1>7. QED
  BY <1>2, <1>3, <1>6 DEF f

\* What hrd sends is added to what the browser sees.
LEMMA SeenAppend ==
  ASSUME TypeOK, NEW x \in Item, Appends(x)
  PROVE  SeenAnswer' = [SeenAnswer EXCEPT ![cur] = Append(@, Seen(x))]
<1>1. cur \in Request
  BY DEF Appends
<1>2. ASSUME NEW r \in Request
      PROVE  SeenAnswer'[r] = IF r = cur THEN Append(SeenAnswer[cur], Seen(x)) ELSE SeenAnswer[r]
  <2>1. CASE r # cur
    BY <2>1, Appended DEF SeenAnswer
  <2>2. CASE r = cur
    <3> DEFINE n == Len(resp[cur])
               a == SeenAnswer[cur]
               f == [k \in 1 .. n + 1 |-> Seen(resp'[cur][k])]
               S == {Seen(resp'[cur][k]) : k \in 1 .. n + 1}
    <3>1. /\ n \in Nat /\ Len(resp'[cur]) = n + 1
          /\ \A k \in 1 .. n : resp'[cur][k] = resp[cur][k]
          /\ resp'[cur][n + 1] = x
      BY <1>1, Appended
    <3>2. SeenAnswer'[cur] = f
      BY <1>1, <3>1 DEF SeenAnswer
    <3>3. f \in [1 .. n + 1 -> S]
      OBVIOUS
    <3>4. Len(a) = n /\ \A k \in 1 .. n : a[k] = Seen(resp[cur][k])
      BY <1>1, SeenLength
    <3>5. a \in Seq(S)
      <4>1. a = [k \in 1 .. n |-> Seen(resp[cur][k])]
        BY <1>1 DEF SeenAnswer
      <4>2. \A k \in 1 .. n : k \in 1 .. n + 1
        BY <3>1
      <4>3. \A k \in 1 .. n : Seen(resp[cur][k]) \in S
        BY <3>1, <4>2
      <4> HIDE DEF S
      <4>4. a \in [1 .. n -> S]
        BY <4>1, <4>3
      <4> HIDE DEF a
      <4>5. QED
        BY <3>1, <4>4
    <3>6. Seen(x) \in S
      BY <3>1
    <3>7. /\ \A k \in 1 .. n : f[k] = a[k]
          /\ f[n + 1] = Seen(x)
      BY <3>1, <3>4
    <3> HIDE DEF f, a, S
    <3>8. f \in Seq(S) /\ Len(f) = n + 1
      BY <3>1, <3>3
    <3>9. /\ Append(a, Seen(x)) \in Seq(S) /\ Len(Append(a, Seen(x))) = n + 1
          /\ \A k \in 1 .. n : Append(a, Seen(x))[k] = a[k]
          /\ Append(a, Seen(x))[n + 1] = Seen(x)
      BY <3>1, <3>4, <3>5, <3>6
    <3>10. \A k \in 1 .. n + 1 : f[k] = Append(a, Seen(x))[k]
      <4>1. \A k \in 1 .. n + 1 : k \in 1 .. n \/ k = n + 1
        BY <3>1
      <4>2. QED
        BY <3>7, <3>9, <4>1
    <3>11. f = Append(a, Seen(x))
      BY <3>8, <3>9, <3>10, SeqEqual
    <3>12. QED
      BY <2>2, <3>2, <3>11 DEF a
  <2>3. QED
    BY <2>1, <2>2
<1>3. QED
  BY <1>1, <1>2 DEF SeenAnswer

\* What a browser that waits for a response has got is none but parts of it.
LEMMA SeenNoRefusal ==
  ASSUME TypeOK, HrdOK, RespOK, hpc \in {"receive", "send"}
  PROVE  SeenAnswer[cur] # <<Promise!Bad(cur)>>
<1>1. cur \in Request /\ cur \in wrote
  BY DEF HrdOK
<1>2. SUFFICES ASSUME SeenAnswer[cur] = <<Promise!Bad(cur)>> PROVE FALSE
  OBVIOUS
<1>3. Len(resp[cur]) = 1 /\ 1 \in 1 .. Len(resp[cur]) /\ Seen(resp[cur][1]) = Promise!Bad(cur)
  <2>1. Len(SeenAnswer[cur]) = 1 /\ SeenAnswer[cur][1] = Promise!Bad(cur)
    BY <1>2
  <2>2. QED
    BY <1>1, <2>1, SeenLength
<1>4. resp[cur] # <<Page(cur)>>
  BY <1>1 DEF RespOK
<1>5. PICK j \in 1 .. taken : resp[cur][1] = link[j]
  BY <1>1, <1>3, <1>4 DEF RespOK
<1>6. link[j] \in File
  BY <1>5, Lengths
<1>7. QED
  BY <1>3, <1>5, <1>6, FileFields DEF Seen, Promise!Bad

\* hrd's own steps, but for those in which it sends something.
LEMMA SeenConnections ==
  ASSUME TypeOK, HrdOK, HrdStep, UNCHANGED resp
  PROVE  Promise!NextNext \/ UNCHANGED <<SeenState, SeenAnswer>>
<1>1. SeenAnswer' = SeenAnswer
  BY DEF SeenAnswer
<1>2. CASE browser' = browser
  BY <1>1, <1>2 DEF SeenState
<1>3. ASSUME NEW r \in Request, browser[r] = "away", browser' = [browser EXCEPT ![r] = "waiting"]
      PROVE  SeenState' = SeenState
  BY <1>3 DEF SeenState, TypeOK
<1>4. ASSUME NEW r \in Request, browser[r] = "waiting", browser' = [browser EXCEPT ![r] = "open"]
      PROVE  Promise!Accept(r)
  <2>1. SeenState[r] = "none" /\ SeenState' = [SeenState EXCEPT ![r] = "open"]
    BY <1>4 DEF SeenState, TypeOK
  <2>2. QED
    BY <1>1, <2>1 DEF Promise!Accept
<1>5. ASSUME cur \in Request, browser[cur] = "open", browser' = [browser EXCEPT ![cur] = "closed"]
      PROVE  Promise!NextNext
  <2>1. SeenState[cur] = "open"
        /\ SeenState' = [r \in Request |-> IF r \in {cur} THEN "closed" ELSE SeenState[r]]
    BY <1>5 DEF SeenState, TypeOK
  <2>2. Promise!Close({cur})
    BY <1>1, <2>1 DEF Promise!Close
  <2>3. QED
    BY <1>5, <2>2 DEF Promise!NextNext
<1>12. CASE ~Running'
  <2> DEFINE S == {r \in Request : browser[r] = "open"}
  <2>1. browser' = [r \in Request |-> CASE browser[r] = "open" -> "closed"
                                        [] browser[r] = "waiting" -> "refused"
                                        [] OTHER -> browser[r]]
    BY <1>12, HrdHalts
  <2>2. SeenState' = [r \in Request |-> IF r \in S THEN "closed" ELSE SeenState[r]]
    <3>1. \A r \in Request : browser[r] \in {"away", "waiting", "refused", "open", "closed"}
      BY DEF TypeOK
    <3>2. \A r \in Request : SeenState'[r] = IF r \in S THEN "closed" ELSE SeenState[r]
      BY <2>1, <3>1 DEF SeenState
    <3>3. QED
      BY <3>2 DEF SeenState
  <2>3. \A r \in S : SeenState[r] = "open"
    BY DEF SeenState
  <2>4. Promise!Close(S)
    BY <1>1, <2>2, <2>3 DEF Promise!Close
  <2>5. S \in SUBSET Request
    OBVIOUS
  <2>6. QED
    BY <2>4, <2>5 DEF Promise!NextNext
<1>6. CASE (HrdStarts \/ HrdRead \/ HrdWrite \/ HrdSent) /\ Running'
  BY <1>2, <1>6 DEF HrdStarts, HrdRead, HrdWrite, HrdSent, HrdEnds, Running
<1>7. CASE \E r \in Request : BrowserConnects(r)
  BY <1>1, <1>3, <1>7 DEF BrowserConnects
<1>8. CASE HrdAccept /\ Running'
  BY <1>2, <1>4, <1>8 DEF HrdAccept, HrdEnds, Promise!NextNext, Running
<1>9. CASE HrdConnect
  <2>1. cur \in Request /\ browser[cur] = "open"
    BY <1>9 DEF HrdConnect, HrdOK
  <2>2. browser' = browser \/ browser' = [browser EXCEPT ![cur] = "closed"]
    BY <1>9 DEF HrdConnect
  <2>3. QED
    BY <1>2, <1>5, <2>1, <2>2 DEF Promise!NextNext
<1>10. CASE HrdReceives \/ HrdTimesOut
  <2>1. cur \in Request /\ browser[cur] = "open"
    BY <1>10 DEF HrdReceives, HrdTimesOut, HrdCloses, OpensFile, HrdOK
  <2>2. browser' = browser \/ browser' = [browser EXCEPT ![cur] = "closed"]
    BY <1>10 DEF HrdReceives, HrdTimesOut, HrdCloses
  <2>3. QED
    BY <1>2, <1>5, <2>1, <2>2 DEF Promise!NextNext
<1>11. CASE HrdAborts
  BY <1>11, <1>12 DEF HrdAborts, HrdEnds, Running
<1>13. QED
  BY <1>6, <1>7, <1>8, <1>9, <1>10, <1>11, <1>12 DEF HrdStep, HrdForwards

\* An error page.
LEMMA SeenPage ==
  ASSUME TypeOK, HrdOK, HrdStep, SendsPage
  PROVE  Promise!NextNext
<1>1. cur \in Request /\ resp[cur] = <<>> /\ Appends(Page(cur))
  BY DEF SendsPage, Appends
<1>2. SeenAnswer[cur] = <<>>
  <2>1. SeenAnswer[cur] = [k \in 1 .. 0 |-> Seen(resp[cur][k])]
    BY <1>1 DEF SeenAnswer
  <2>2. QED
    BY <2>1
<1>3. SeenAnswer' = [SeenAnswer EXCEPT ![cur] = <<Promise!Bad(cur)>>]
  <2>1. SeenAnswer' = [SeenAnswer EXCEPT ![cur] = Append(@, Seen(Page(cur)))]
    BY <1>1, Files, SeenAppend
  <2>2. Seen(Page(cur)) = Promise!Bad(cur)
    BY DEF Seen, Page, Promise!Bad
  <2>3. Append(<<>>, Promise!Bad(cur)) = <<Promise!Bad(cur)>>
    OBVIOUS
  <2>4. QED
    BY <1>2, <2>1, <2>2, <2>3 DEF SeenAnswer
<1>4. browser[cur] = "open" /\ (browser' = browser \/ browser' = [browser EXCEPT ![cur] = "closed"])
  <2>1. resp' # resp
    BY <1>1, Files, Appended
  <2>2. HrdConnect \/ HrdWrite \/ HrdReceives
    BY <2>1 DEF HrdStep, HrdForwards, HrdSent, HrdStarts, HrdAccept, HrdRead, HrdTimesOut,
       HrdCloses,
                HrdAborts, BrowserConnects
  <2>3. Running'
    BY <2>1, HrdHalts
  <2>4. QED
    BY <2>2, <2>3 DEF HrdConnect, HrdWrite, HrdReceives, HrdCloses, HrdEnds, OpensFile, HrdOK,
       Running
<1>5. SeenState[cur] = "open" /\ (SeenState' = SeenState
                                  \/ SeenState' = [SeenState EXCEPT ![cur] = "closed"])
  BY <1>1, <1>4 DEF SeenState, TypeOK
<1>6. Promise!Answer(cur)
  BY <1>2, <1>3, <1>5 DEF Promise!Answer
<1>7. QED
  BY <1>1, <1>6 DEF Promise!NextNext

\* The next part of a response.
LEMMA SeenPart ==
  ASSUME TypeOK, HrdOK, RespOK, WaitingOK, HrdStep, PassesFile
  PROVE  Promise!NextNext
<1> DEFINE f == link[taken + 1]
<1>1. cur \in Request /\ Appends(f) /\ f.kind # "end" /\ taken' = taken + 1 /\ taken < Len(link)
  BY DEF PassesFile, Appends
<1>2. HrdReceives
  <2>1. taken' # taken
    BY <1>1, Lengths
  <2>2. QED
    BY <2>1 DEF HrdStep, HrdForwards, HrdSent, HrdStarts, HrdAccept, HrdRead, HrdConnect, HrdWrite,
                HrdTimesOut, HrdAborts, BrowserConnects, linkVars
<1>3. hpc \in {"receive", "send"} /\ browser' = browser /\ browser[cur] = "open"
  BY <1>1, <1>2 DEF HrdReceives, HrdCloses, OpensFile, HrdOK
<1>4. f \in File /\ f.of = cur /\ f.nr = Len(resp[cur]) + 1
  BY <1>1, <1>3, NextFile
<1>5. Seen(f) = Promise!Part(cur, Len(SeenAnswer[cur]) + 1)
  BY <1>1, <1>4, FileFields, SeenLength DEF Seen, Promise!Part
<1>6. SeenAnswer' = [SeenAnswer EXCEPT ![cur] = Append(@, Seen(f))]
  BY <1>1, <1>4, SeenAppend DEF Item
<1>7. SeenAnswer' = [SeenAnswer EXCEPT ![cur] = Append(@, Promise!Part(cur, Len(@) + 1))]
  BY <1>5, <1>6
<1>8. SeenState[cur] = "open" /\ SeenState' = SeenState
  BY <1>1, <1>3 DEF SeenState, TypeOK
<1>9. Promise!Answer(cur)
  BY <1>3, <1>7, <1>8, SeenNoRefusal DEF Promise!Answer
<1>10. QED
  BY <1>1, <1>9 DEF Promise!NextNext

LEMMA PromiseStep ==
  ASSUME IInv, InStep, [Next]_vars
  PROVE  early' \/ Promise!NextNext \/ UNCHANGED <<SeenState, SeenAnswer>>
<1>1. TypeOK /\ HrdOK /\ RespOK
  BY DEF IInv
<1>2. CASE PsbStep
  BY <1>2, PsbQuiet DEF Quiet, SeenState, SeenAnswer
<1>3. CASE HrdStep
  <2>1. CASE UNCHANGED resp
    BY <1>1, <1>3, <2>1, SeenConnections
  <2>2. CASE SendsPage
    BY <1>1, <1>3, <2>2, SeenPage
  <2>3. CASE PassesFile /\ ~early'
    <3>1. Running /\ Running'
      <4>1. taken' # taken
        BY <1>1, <2>3, Lengths DEF PassesFile
      <4>2. HrdReceives
        BY <1>3, <4>1 DEF HrdStep, HrdForwards, HrdSent, HrdStarts, HrdAccept, HrdRead, HrdConnect,
                          HrdWrite, HrdTimesOut, HrdAborts, BrowserConnects, linkVars
      <4>3. QED
        BY <4>2 DEF HrdReceives, HrdCloses, OpensFile, Running
    <3>2. WaitingOK
      BY <1>3, <2>3, <3>1, StillRunning DEF InStep
    <3>3. QED
      BY <1>1, <1>3, <2>3, <3>2, SeenPart
  <2>4. QED
    BY <1>1, <1>3, <2>1, <2>2, <2>3, HrdChanges DEF Writes, TakesEnd
<1>4. CASE UNCHANGED vars
  BY <1>4 DEF vars, SeenState, SeenAnswer
<1>5. QED
  BY <1>2, <1>3, <1>4, NextStep

\* Until a timeout comes early the pair keeps, step by step, what NextProxy
\* promises.
THEOREM FrontPromise == Spec => KeepsPromise
<1>1. Init => Promise!NextInit
  <2>1. SUFFICES ASSUME Init PROVE Promise!NextInit
    OBVIOUS
  <2>2. \A r \in Request : browser[r] = "away" /\ resp[r] = <<>> /\ Len(<<>>) = 0
    BY <2>1 DEF Init
  <2>3. SeenState = [r \in Request |-> "none"]
    BY <2>2 DEF SeenState
  <2>4. \A r \in Request : [k \in 1 .. 0 |-> Seen(resp[r][k])] = <<>>
    OBVIOUS
  <2>5. SeenAnswer = [r \in Request |-> <<>>]
    BY <2>2, <2>4 DEF SeenAnswer
  <2>6. QED
    BY <2>3, <2>5 DEF Promise!NextInit
<1>2. IInv /\ InStep /\ [Next]_vars => [early' \/ Promise!NextNext]_<<SeenState, SeenAnswer>>
  BY PromiseStep
<1>3. QED
  BY <1>1, <1>2, Invariance, StaysInStep, PTL DEF Spec, KeepsPromise
=============================================================================
