------------------------------ MODULE ProxyPair ------------------------------
(***************************************************************************)
(* The proxy pair: hrd (Integration/hrd.cc), which browsers connect to,    *)
(* and psb (Integration/psb.cc), which fetches what they ask for.  hrd     *)
(* forwards each request over a TCP connection of its own; all responses   *)
(* come back over one Rabin connection, in the order psb sends them: each  *)
(* recv() of a response as a file, and an empty file at its end.           *)
(*                                                                         *)
(* Both processes are one thread.  Between them the Rabin connection is    *)
(* what FileLink shows of it: every file that is sent is received, once    *)
(* and in order; of a file psb ended in, the blocks that were written.     *)
(* The TCP connection hrd opens for a browser is named by the browser's    *)
(* request.                                                                *)
(***************************************************************************)
EXTENDS Naturals, Sequences, FiniteSets

CONSTANTS
  Request,       \* the requests; each browser makes one
  None,          \* no request
  MaxPieces,     \* bound: how many recv() calls a response takes
  MaxFds         \* bound: how many descriptors the loop of a process may have open

ASSUME ProxyAssumption ==
  /\ None \notin Request
  /\ MaxPieces \in Nat
  /\ MaxFds \in Nat /\ MaxFds > 2

VARIABLES
  browser,   \* of each request: "away", "waiting" in the queue of hrd's listening
             \* socket, "refused" if hrd ended meanwhile, "open" once accepted, "closed"
  resp,      \* what hrd has sent to each browser
  hpc,       \* where hrd is: "start", "accept", "read", "connect", "write", "receive",
             \* "send", or "down" (exit) or "aborted" (a failed assertion)
  cur,       \* the request whose browser hrd accepted last
  asked,     \* whether hrd's buffer holds a request
  hfds,      \* how many descriptors hrd's loop has open
  backlog,   \* hrd's connections psb has not yet accepted
  wrote,     \* the connections hrd has written a request to
  shut,      \* the connections whose end in hrd is closed
  ppc,       \* where psb is: "off" before it has started, "rabin" in
             \* connect_to_client, "accept", "read", "connect", "write", "relay",
             \* "down"
  pcur,      \* the connection psb accepted last
  pasked,    \* whether psb's buffer holds a request
  pieces,    \* how many parts of the response psb has relayed
  pfds,      \* how many descriptors psb's loop has open
  joined,    \* whether hrd's connect() on the Rabin connection succeeded
  link,      \* the files psb has sent on the Rabin connection
  taken,     \* how many of them hrd has received
  cut,       \* history: the requests whose exchange a timeout has ended
  early      \* history: one of them while its response was under way

hrdVars == <<hpc, cur, asked, hfds>>
connVars == <<backlog, wrote, shut>>
psbVars == <<ppc, pcur, pasked, pieces, pfds>>
linkVars == <<joined, link, taken>>
vars == <<browser, resp, hrdVars, connVars, psbVars, linkVars, cut, early>>

\* A part of the response to r, whole or torn off by the end of psb, the empty
\* file at the end of the response, and an error page.
Piece(r, n) == [kind |-> "piece", of |-> r, nr |-> n]
Torn(r, n) == [kind |-> "torn", of |-> r, nr |-> n]
End(r) == [kind |-> "end", of |-> r, nr |-> 0]
Page(r) == [kind |-> "page", of |-> r, nr |-> 0]

Init ==
  /\ browser = [r \in Request |-> "away"]
  /\ resp = [r \in Request |-> <<>>]
  /\ hpc = "start" /\ cur = None /\ asked = FALSE /\ hfds = 0
  /\ backlog = <<>> /\ wrote = {} /\ shut = {}
  /\ ppc = "off" /\ pcur = None /\ pasked = FALSE /\ pieces = 0 /\ pfds = 0
  /\ joined = FALSE /\ link = <<>> /\ taken = 0
  /\ cut = {} /\ early = FALSE

Running == hpc \notin {"down", "aborted"}

\* A browser connects to hrd's port.
BrowserConnects(r) ==
  /\ browser[r] = "away"
  /\ Running
  /\ browser' = [browser EXCEPT ![r] = "waiting"]
  /\ UNCHANGED <<resp, hrdVars, connVars, psbVars, linkVars, cut, early>>

-----------------------------------------------------------------------------
(***************************************************************************)
(* hrd.                                                                    *)
(***************************************************************************)

\* main() up to its loop.  The result of connect_to_server is not looked at: it
\* is an error unless psb is in connect_to_client.
HrdStarts ==
  /\ hpc = "start"
  /\ hpc' = "accept"
  /\ joined' \in BOOLEAN
  /\ joined' => ppc = "rabin"
  /\ UNCHANGED <<browser, resp, cur, asked, hfds, connVars, psbVars, link, taken, cut, early>>

\* The process ends; the kernel closes its connections, to psb and to every browser,
\* and resets those in the queue of its listening socket.
HrdEnds(how) ==
  /\ hpc' = how
  /\ browser' = [r \in Request |-> CASE browser[r] = "open" -> "closed"
                                    [] browser[r] = "waiting" -> "refused"
                                    [] OTHER -> browser[r]]
  /\ shut' = Request
  /\ hfds' = 0
  /\ UNCHANGED <<cur, asked>>

\* socket(), then accept(); with no descriptor left accept() fails, and error()
\* exits.
HrdAccept ==
  /\ hpc = "accept"
  /\ \/ /\ hfds + 2 <= MaxFds
        /\ \E r \in Request :
             /\ browser[r] = "waiting"
             /\ browser' = [browser EXCEPT ![r] = "open"]
             /\ cur' = r
        /\ hpc' = "read"
        /\ hfds' = hfds + 2
        /\ UNCHANGED <<asked, shut>>
     \/ /\ hfds + 2 > MaxFds
        /\ HrdEnds("down")
  /\ UNCHANGED <<resp, backlog, wrote, psbVars, linkVars, cut, early>>

\* read(): a request; nothing, if the browser has closed; or an error, if it has
\* reset the connection, on which error() exits.
HrdRead ==
  /\ hpc = "read"
  /\ \/ /\ asked' \in BOOLEAN
        /\ hpc' = "connect"
        /\ UNCHANGED <<browser, cur, hfds, shut>>
     \/ HrdEnds("down")
  /\ UNCHANGED <<resp, backlog, wrote, psbVars, linkVars, cut, early>>

\* connect() to psb.  If it fails, the browser's connection is closed and the
\* socket for psb is not.
HrdConnect ==
  /\ hpc = "connect"
  /\ \/ /\ ppc \notin {"off", "down"}
        /\ backlog' = Append(backlog, cur)
        /\ hpc' = "write"
        /\ UNCHANGED <<browser, resp, hfds>>
     \/ /\ resp' = [resp EXCEPT ![cur] = Append(@, Page(cur))]
        /\ browser' = [browser EXCEPT ![cur] = "closed"]
        /\ hpc' = "accept"
        /\ hfds' = hfds - 1
        /\ UNCHANGED backlog
  /\ UNCHANGED <<cur, asked, wrote, shut, psbVars, linkVars, cut, early>>

\* A wrong check, of n < 0 in place of n <= 0.
HrdWriteNothing ==
  /\ hpc = "write"
  /\ wrote' = IF asked THEN wrote \cup {cur} ELSE wrote
  /\ hpc' = "receive"
  /\ UNCHANGED <<cur, hfds, asked, shut, resp, browser, backlog, psbVars, linkVars, cut, early>>

(***************************************************************************)
(* write() of strlen(buffer) bytes to psb.  It writes nothing if there was *)
(* no request, and if psb has ended it fails or raises SIGPIPE.  On        *)
(* failure neither connection is closed.                                   *)
(***************************************************************************)
HrdWrite ==
  /\ hpc = "write"
  /\ \/ /\ asked
        /\ wrote' = wrote \cup {cur}
        /\ hpc' = "receive"
        /\ UNCHANGED <<browser, cur, hfds, asked, shut, resp>>
     \/ /\ ~asked \/ ppc = "down"
        /\ resp' = [resp EXCEPT ![cur] = Append(@, Page(cur))]
        /\ hpc' = "accept"
        /\ UNCHANGED <<browser, cur, hfds, asked, wrote, shut>>
     \/ /\ asked /\ ppc = "down"
        /\ HrdEnds("down")
        /\ UNCHANGED <<resp, wrote>>
  /\ UNCHANGED <<backlog, psbVars, linkVars, cut, early>>

\* One turn of the receive loop opens "temporary.file", which nothing closes;
\* the end of the loop closes n descriptors.
OpensFile(n) ==
  /\ hpc = "receive"
  /\ hfds < MaxFds
  /\ hfds' = hfds + 1 - n

\* receive_file returned 1: both connections are closed.
HrdCloses ==
  /\ OpensFile(2)
  /\ browser' = [browser EXCEPT ![cur] = "closed"]
  /\ shut' = shut \cup {cur}
  /\ hpc' = "accept"
  /\ UNCHANGED resp

\* A wrong loop: one file is received for a request.
HrdReceivesOnce ==
  /\ taken < Len(link)
  /\ taken' = taken + 1
  /\ OpensFile(2)
  /\ LET f == link[taken + 1] IN
     resp' = IF f.kind = "piece" THEN [resp EXCEPT ![cur] = Append(@, f)] ELSE resp
  /\ browser' = [browser EXCEPT ![cur] = "closed"]
  /\ shut' = shut \cup {cur}
  /\ hpc' = "accept"
  /\ UNCHANGED <<cur, asked, backlog, wrote, psbVars, joined, link, cut, early>>

\* A wrong check, of blocks_recvd > 2: a file of one block ends the response.
HrdReceivesTwo ==
  /\ taken < Len(link)
  /\ taken' = taken + 1
  /\ HrdCloses
  /\ UNCHANGED <<cur, asked, backlog, wrote, psbVars, joined, link, cut, early>>

\* receive_file returned because a file has ended.  It returned more than 1, and hrd
\* sends the browser what it wrote, unless the file was empty.
HrdReceives ==
  /\ taken < Len(link)
  /\ taken' = taken + 1
  /\ LET f == link[taken + 1] IN
     \/ /\ f.kind \in {"piece", "torn"}
        /\ OpensFile(0)
        /\ resp' = [resp EXCEPT ![cur] = Append(@, f)]
        /\ hpc' = "send"
        /\ UNCHANGED <<browser, shut>>
     \/ /\ f.kind = "end"
        /\ HrdCloses
  /\ UNCHANGED <<cur, asked, backlog, wrote, psbVars, joined, link, cut, early>>

\* send() to the browser has returned: the browser has left, or it has read enough
\* of what it was sent for the rest to fit into the socket's buffer.
HrdSent ==
  /\ hpc = "send"
  /\ hpc' = "receive"
  /\ UNCHANGED <<browser, resp, cur, asked, hfds, connVars, psbVars, linkVars, cut, early>>

\* psb can still send a file without anything from hrd.
UnderWay ==
  \/ ppc \in {"rabin", "accept"} /\ joined /\ backlog # <<>>
  \/ ppc = "read" /\ pcur \in wrote \cup shut
  \/ ppc \in {"connect", "write", "relay"}

\* A wrong reaction to the timeout: the loop goes on.
HrdTimesOutAgain ==
  /\ hpc = "receive"
  /\ UNCHANGED vars

\* receive_file returned because nothing came for ten seconds, because psb's end
\* of the Rabin connection is closed, or because there is no connection.  It
\* returned 1, as for an empty file.
HrdTimesOut ==
  /\ taken = Len(link)
  /\ HrdCloses
  /\ cut' = cut \cup {cur}
  /\ early' = (early \/ UnderWay)
  /\ UNCHANGED <<cur, asked, backlog, wrote, psbVars, linkVars>>

\* With no descriptor left fopen() returns NULL, and receive_file's assertion
\* that file is not NULL fails.
HrdAborts ==
  /\ hpc = "receive"
  /\ hfds = MaxFds
  /\ HrdEnds("aborted")
  /\ UNCHANGED <<resp, backlog, wrote, psbVars, linkVars, cut, early>>

-----------------------------------------------------------------------------
(***************************************************************************)
(* psb.                                                                    *)
(***************************************************************************)

\* The process ends, by an error() or not: every listening socket is closed.
PsbEnds ==
  /\ ppc' = "down"
  /\ pfds' = 0
  /\ UNCHANGED <<pcur, pasked, pieces>>

\* psb is terminated, perhaps with some blocks of a part written.
PsbStops ==
  /\ ppc # "down"
  /\ PsbEnds
  /\ \/ UNCHANGED link
     \/ /\ ppc = "relay" /\ pieces < MaxPieces
        /\ link' = Append(link, Torn(pcur, pieces + 1))
  /\ UNCHANGED <<browser, resp, hrdVars, connVars, joined, taken, cut, early>>

\* main() up to connect_to_client; then hrd has connected, and the loop begins.
PsbStarts ==
  /\ \/ ppc = "off" /\ ppc' = "rabin"
     \/ ppc = "rabin" /\ joined /\ ppc' = "accept"
  /\ UNCHANGED <<browser, resp, hrdVars, connVars, pcur, pasked, pieces, pfds, linkVars, cut, early>>

PsbAccept ==
  /\ ppc = "accept"
  /\ backlog # <<>>
  /\ pfds + 2 <= MaxFds
  /\ pcur' = Head(backlog)
  /\ backlog' = Tail(backlog)
  /\ ppc' = "read"
  /\ pfds' = pfds + 2
  /\ UNCHANGED <<browser, resp, hrdVars, wrote, shut, pasked, pieces, linkVars, cut, early>>

\* read() waits until hrd has written a request or closed its end.
PsbRead ==
  /\ ppc = "read"
  /\ pcur \in wrote \cup shut
  /\ pasked' = (pcur \in wrote)
  /\ ppc' = "connect"
  /\ UNCHANGED <<browser, resp, hrdVars, connVars, pcur, pieces, pfds, linkVars, cut, early>>

\* connect() to the next proxy.  If it fails, a page is sent to hrd, which does
\* not read it, and hrd's connection is closed.
PsbConnect ==
  /\ ppc = "connect"
  /\ \/ ppc' = "write" /\ UNCHANGED pfds
     \/ ppc' = "accept" /\ pfds' = pfds - 1
  /\ UNCHANGED <<browser, resp, hrdVars, connVars, pcur, pasked, pieces, linkVars, cut, early>>

\* write() to the next proxy.  If it fails or has nothing to write, neither
\* connection is closed.
PsbWrite ==
  /\ ppc = "write"
  /\ \/ /\ pasked
        /\ ppc' = "relay"
        /\ pieces' = 0
     \/ /\ ppc' = "accept"
        /\ UNCHANGED pieces
  /\ UNCHANGED <<browser, resp, hrdVars, connVars, pcur, pasked, pfds, linkVars, cut, early>>

\* recv() returned a part of the response, which is sent as a file.
PsbRelays ==
  /\ ppc = "relay"
  /\ pieces < MaxPieces
  /\ pieces' = pieces + 1
  /\ link' = Append(link, Piece(pcur, pieces + 1))
  /\ UNCHANGED <<browser, resp, hrdVars, connVars, ppc, pcur, pasked, pfds, joined, taken, cut, early>>

\* A wrong end: the socket for the next proxy is closed twice.
PsbFinishesTwice ==
  /\ ppc = "relay"
  /\ link' = Append(link, End(pcur))
  /\ ppc' = "accept"
  /\ pfds' = pfds - 3
  /\ UNCHANGED <<browser, resp, hrdVars, connVars, pcur, pasked, pieces, joined, taken, cut, early>>

\* A wrong end: hrd's connection is not closed.
PsbFinishesKeeps ==
  /\ ppc = "relay"
  /\ link' = Append(link, End(pcur))
  /\ ppc' = "accept"
  /\ pfds' = pfds - 1
  /\ UNCHANGED <<browser, resp, hrdVars, connVars, pcur, pasked, pieces, joined, taken, cut, early>>

\* recv() returned 0 or an error: the empty file is sent.
PsbFinishes ==
  /\ ppc = "relay"
  /\ link' = Append(link, End(pcur))
  /\ ppc' = "accept"
  /\ pfds' = pfds - 2
  /\ UNCHANGED <<browser, resp, hrdVars, connVars, pcur, pasked, pieces, joined, taken, cut, early>>

-----------------------------------------------------------------------------
\* hrd on its own, from a request it has read on, but for send() to the browser, which
\* has no timeout: nothing here waits but receive_file, and that for ten seconds.
HrdForwards == HrdConnect \/ HrdWrite \/ HrdReceives \/ HrdTimesOut \/ HrdAborts

PsbWorks ==
  PsbAccept \/ PsbRead \/ PsbConnect \/ PsbWrite \/ PsbRelays \/ PsbFinishes

Next ==
  \/ \E r \in Request : BrowserConnects(r)
  \/ HrdStarts \/ PsbStarts
  \/ HrdAccept
  \/ HrdRead
  \/ HrdForwards
  \/ HrdSent
  \/ PsbWorks
  \/ PsbStops

Spec == Init /\ [][Next]_vars

\* Fairness: hrd moves on, whatever psb does, but not whatever a browser does.
FairSpec == Spec /\ WF_vars(HrdForwards)

-----------------------------------------------------------------------------
(***************************************************************************)
(* Properties.                                                             *)
(***************************************************************************)

File ==
  {Piece(r, n) : r \in Request, n \in 1 .. MaxPieces}
    \cup {Torn(r, n) : r \in Request, n \in 1 .. MaxPieces}
    \cup {End(r) : r \in Request}

TypeOK ==
  /\ browser \in [Request -> {"away", "waiting", "refused", "open", "closed"}]
  /\ resp \in [Request -> Seq(File \cup {Page(r) : r \in Request})]
  /\ hpc \in {"start", "accept", "read", "connect", "write", "receive", "send",
              "down", "aborted"}
  /\ cur \in Request \cup {None}
  /\ asked \in BOOLEAN
  /\ hfds \in 0 .. MaxFds
  /\ backlog \in Seq(Request)
  /\ wrote \subseteq Request
  /\ shut \subseteq Request
  /\ ppc \in {"off", "rabin", "accept", "read", "connect", "write", "relay", "down"}
  /\ pcur \in Request \cup {None}
  /\ pasked \in BOOLEAN
  /\ pieces \in 0 .. MaxPieces
  /\ pfds \in 0 .. MaxFds
  /\ joined \in BOOLEAN
  /\ link \in Seq(File)
  /\ taken \in 0 .. Len(link)
  /\ cut \subseteq Request
  /\ early \in BOOLEAN

\* What browser r was sent is the beginning of its own response, which ends
\* within a part only if psb did, or an error page.
OwnOf(r) ==
  \/ resp[r] = <<Page(r)>>
  \/ \A k \in 1 .. Len(resp[r]) :
       \/ resp[r][k] = Piece(r, k)
       \/ k = Len(resp[r]) /\ resp[r][k] = Torn(r, k)

\* Every part of r's response psb has sent so far has come to r.
WholeOf(r) == \A j \in 1 .. Len(link) : link[j] = Piece(r, link[j].nr) => link[j].nr <= Len(resp[r])

\* Each browser gets its own response and no other, and hrd closes its
\* connection only behind all of it, though nothing on the Rabin connection says
\* whose response it is.  Only a pause of ten seconds while a response is under
\* way can change that; a timeout on a request psb has given up does not.
OwnResponse ==
  (~early /\ Running) =>
    \A r \in Request : OwnOf(r) /\ (browser[r] = "closed" => WholeOf(r))

\* hrd passes on each part it receives to one browser, once.
PassedOnOnce ==
  \A j \in 1 .. taken :
    link[j].kind # "end" =>
      Cardinality({rk \in Request \X (1 .. Len(link)) :
                     rk[2] <= Len(resp[rk[1]]) /\ resp[rk[1]][rk[2]] = link[j]}) = 1

\* How far hrd can fall behind: by at most one response for each request it gave up,
\* and the one it is receiving.  (It is less again when psb gives up a later request,
\* of which it sends no end.)
Lag ==
  Running =>
    Cardinality({j \in taken + 1 .. Len(link) : link[j].kind = "end"})
      <= Cardinality(cut) + (IF hpc \in {"receive", "send"} THEN 1 ELSE 0)

\* The connections psb has accepted and is no longer busy with, without having
\* sent the end of a response.
Connected(r) ==
  \/ r \in wrote
  \/ resp[r] = <<Page(r)>> /\ browser[r] = "open"
  \/ hpc = "write" /\ cur = r

Busy == ppc \in {"read", "connect", "write", "relay"}

GivenUp ==
  {r \in Request : /\ Connected(r)
                   /\ \A k \in 1 .. Len(backlog) : backlog[k] # r
                   /\ \A j \in 1 .. Len(link) : link[j] # End(r)
                   /\ Busy => pcur # r}

\* How fast the descriptors run out, up to the assertion in receive_file
\* (rabinclient.cc:73: that file is not NULL) and to a failing accept().  hrd
\* keeps one for each call of receive_file, one for each request it could not
\* connect for and two for each it could not write.  psb keeps at most two for
\* each request it gave up, and none for the others.
Leaks ==
  /\ Running =>
       hfds = (IF hpc \in {"start", "accept"} THEN 0 ELSE 2) + taken + Cardinality(cut)
                + Cardinality({r \in Request : resp[r] = <<Page(r)>> /\ browser[r] = "closed"})
                + 2 * Cardinality({r \in Request : /\ resp[r] = <<Page(r)>>
                                                   /\ browser[r] = "open"})
  /\ (Running /\ ppc # "down") =>
       pfds <= (IF Busy THEN 2 ELSE 0) + 2 * Cardinality(GivenUp)

\* While hrd waits for a response, psb may be waiting for a request; that can
\* only be on a connection hrd has given up and left open (hrd.cc:118-121).
HeldByAbandoned ==
  (hpc \in {"receive", "send"} /\ ppc = "read" /\ pcur \notin wrote \cup shut)
    => resp[pcur] = <<Page(pcur)>>

(***************************************************************************)
(* hrd as its browsers see it: their connections, and on each the parts of *)
(* a response, a torn one too, or an error page.                           *)
(***************************************************************************)
SeenState ==
  [r \in Request |-> IF browser[r] \in {"open", "closed"} THEN browser[r] ELSE "none"]

Seen(f) ==
  IF f.kind = "page" THEN [kind |-> "bad", of |-> f.of, nr |-> 1]
                     ELSE [kind |-> "part", of |-> f.of, nr |-> f.nr]

SeenAnswer == [r \in Request |-> [k \in 1 .. Len(resp[r]) |-> Seen(resp[r][k])]]

Promise ==
  INSTANCE NextProxy WITH Conn <- Request, state <- SeenState, answer <- SeenAnswer

\* Until a timeout comes while a response is under way, the pair keeps step by
\* step what NextProxy promises, though every response comes over the same Rabin
\* connection and hrd counts empty files: it can itself be the next proxy.
KeepsPromise ==
  /\ Promise!NextInit
  /\ [][early' \/ Promise!NextNext]_<<SeenState, SeenAnswer>>

\* Once hrd has read a request it comes back to accept(), whatever psb and the next
\* proxy do, if its browsers read what they are sent or leave: no exchange holds it
\* for ever but in the send() at hrd.cc:150, which has no timeout.
ComesBack ==
  WF_vars(HrdSent) =>
    ((hpc \in {"connect", "write", "receive", "send"}) ~>
       (hpc \in {"accept", "down", "aborted"}))

-----------------------------------------------------------------------------
(***************************************************************************)
(* What the comments and assertions say and the code does not do.          *)
(***************************************************************************)

\* hrd.cc:152: "1 block will be used to denote eof".  When the receive loop ends while
\* psb is still relaying the response hrd has a part of, an empty file was received.
OneBlockIsEof ==
  [][ (hpc = "receive" /\ hpc' = "accept" /\ ppc = "relay" /\ pcur = cur /\ resp[cur] # <<>>)
        => /\ taken' = taken + 1
           /\ link[taken'].kind = "end" ]_vars
=============================================================================
