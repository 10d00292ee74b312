----------------------------- MODULE NormalProxy -----------------------------
(***************************************************************************)
(* The forking proxy (Integration/normalproxy.c), the last of the chain    *)
(* before the web servers: the parent accepts, forks a child for each      *)
(* connection and closes its own copy of it; the child reads a request,    *)
(* connects to the server it names and relays what comes back.             *)
(*                                                                         *)
(* A descriptor is shared over fork(): a connection is closed, and its     *)
(* browser sees the end of the answer, only when no process has it open.   *)
(* The parent never waits for its children, so an ended one keeps its      *)
(* entry in the process table as long as the parent lives.  Each           *)
(* connection is named by its browser, and so is the child forked for it.  *)
(***************************************************************************)
EXTENDS Naturals, Sequences

CONSTANTS
  Browser,     \* the browsers (in the chain: psb, for one of its requests each)
  Parent,      \* the parent process
  MaxProcs,    \* bound: how many children the process table may take
  MaxParts     \* bound: how many parts a server's response has

ASSUME NormalAssumption ==
  /\ Parent \notin Browser
  /\ MaxProcs \in Nat /\ MaxParts \in Nat

VARIABLES
  conn,     \* of each browser: "away", "queued" in the listening socket's
            \* queue, "open" once accepted, "refused"
  gone,     \* the browsers that have closed their end
  req,      \* what each has sent: "none", "part" of a request, a "get" whose
            \* host is found or ("nohost") is not, or anything "other"
  queue,    \* the listening socket's queue
  ppc,      \* where the parent is: "accept", "fork", "close", or "down"
  pcur,     \* newsockfd in the parent: the connection accepted last
  room,     \* how many more processes fork() can make
  child,    \* where each child is: "none" before fork(), "read", "connect",
            \* "send", "relay", "reply", "close", or "ended"
  held,     \* the connections each process has open
  lsn,      \* the processes that have the listening socket open
  srv,      \* the server's end of each child's connection to it: "none", "open",
            \* "closed" behind all it sent, or "reset"
  parts,    \* how many parts the server has sent
  out       \* what each browser was sent

browserVars == <<conn, gone, req>>
parentVars == <<ppc, pcur>>
childVars == <<child, room>>
sockVars == <<held, lsn, queue>>
srvVars == <<srv, parts>>
vars == <<browserVars, parentVars, childVars, sockVars, srvVars, out>>

Proc == Browser \cup {Parent}

Part(b, n) == [kind |-> "part", of |-> b, nr |-> n]
Bad(b) == [kind |-> "bad", of |-> b, nr |-> 1]

Init ==
  /\ conn = [b \in Browser |-> "away"]
  /\ gone = {}
  /\ req = [b \in Browser |-> "none"]
  /\ queue = <<>>
  /\ ppc = "accept" /\ pcur = Parent
  /\ child = [b \in Browser |-> "none"] /\ room \in 0 .. MaxProcs
  /\ held = [p \in Proc |-> {}]
  /\ lsn = {Parent}
  /\ srv = [b \in Browser |-> "none"]
  /\ parts = [b \in Browser |-> 0]
  /\ out = [b \in Browser |-> <<>>]

\* No process has b's connection open any more.
Closed(b) == conn[b] = "open" /\ \A p \in Proc : b \notin held[p]

-----------------------------------------------------------------------------
(***************************************************************************)
(* Browsers and servers.                                                   *)
(***************************************************************************)

BrowserConnects(b) ==
  /\ conn[b] = "away" /\ lsn # {}
  /\ conn' = [conn EXCEPT ![b] = "queued"]
  /\ queue' = Append(queue, b)
  /\ UNCHANGED <<gone, req, parentVars, childVars, held, lsn, srvVars, out>>

\* A request may come in two segments.
BrowserSends(b) ==
  /\ conn[b] \in {"queued", "open"} /\ b \notin gone
  /\ \/ /\ req[b] = "none"
        /\ \E q \in {"part", "get", "nohost", "other"} : req' = [req EXCEPT ![b] = q]
     \/ /\ req[b] = "part"
        /\ req' = [req EXCEPT ![b] = "get"]
  /\ UNCHANGED <<conn, gone, parentVars, childVars, sockVars, srvVars, out>>

BrowserLeaves(b) ==
  /\ conn[b] \in {"queued", "open"} /\ b \notin gone
  /\ gone' = gone \cup {b}
  /\ UNCHANGED <<conn, req, parentVars, childVars, sockVars, srvVars, out>>

ServerSends(b) ==
  /\ srv[b] = "open" /\ child[b] \in {"relay", "ended"}
  /\ parts[b] < MaxParts
  /\ parts' = [parts EXCEPT ![b] = @ + 1]
  /\ UNCHANGED <<browserVars, parentVars, childVars, sockVars, srv, out>>

ServerEnds(b) ==
  /\ srv[b] = "open"
  /\ \E s \in {"closed", "reset"} : srv' = [srv EXCEPT ![b] = s]
  /\ UNCHANGED <<browserVars, parentVars, childVars, sockVars, parts, out>>

-----------------------------------------------------------------------------
(***************************************************************************)
(* A process ends: its descriptors are closed.  When no process has the    *)
(* listening socket open the connections in its queue are reset.           *)
(***************************************************************************)
ProcessEnds(p) ==
  /\ held' = [held EXCEPT ![p] = {}]
  /\ lsn' = lsn \ {p}
  /\ queue' = IF lsn' = {} THEN <<>> ELSE queue
  /\ conn' = IF lsn' = {}
             THEN [b \in Browser |-> IF conn[b] = "queued" THEN "refused" ELSE conn[b]]
             ELSE conn

(***************************************************************************)
(* The parent.                                                             *)
(***************************************************************************)

\* accept(), and error(), which exits, if it fails.
ParentAccepts ==
  /\ ppc = "accept"
  /\ \/ /\ queue # <<>>
        /\ pcur' = Head(queue)
        /\ queue' = Tail(queue)
        /\ conn' = [conn EXCEPT ![pcur'] = "open"]
        /\ held' = [held EXCEPT ![Parent] = @ \cup {pcur'}]
        /\ ppc' = "fork"
        /\ UNCHANGED lsn
     \/ /\ ppc' = "down"
        /\ ProcessEnds(Parent)
        /\ UNCHANGED pcur
  /\ UNCHANGED <<gone, req, childVars, srvVars, out>>

\* A wrong test of pid, of -1: the parent believes that the child exists.
ParentForksBlindly ==
  /\ ppc = "fork"
  /\ ppc' = "close"
  /\ room' = room - 1
  /\ child' = [child EXCEPT ![pcur] = IF room > 0 THEN "read" ELSE "none"]
  /\ held' = IF room > 0 THEN [held EXCEPT ![pcur] = held[Parent]] ELSE held
  /\ lsn' = IF room > 0 THEN lsn \cup {pcur} ELSE lsn
  /\ UNCHANGED <<browserVars, pcur, queue, srvVars, out>>

(***************************************************************************)
(* fork(): the child has every descriptor of the parent.  Its entry in the *)
(* process table is never given back, for the parent does not wait for it. *)
(* When the table is full fork() returns -1, which is taken for a pid.     *)
(***************************************************************************)
ParentForks ==
  /\ ppc = "fork"
  /\ ppc' = "close"
  /\ \/ /\ room > 0
        /\ room' = room - 1
        /\ child' = [child EXCEPT ![pcur] = "read"]
        /\ held' = [held EXCEPT ![pcur] = held[Parent]]
        /\ lsn' = lsn \cup {pcur}
     \/ /\ room = 0
        /\ UNCHANGED <<childVars, held, lsn>>
  /\ UNCHANGED <<browserVars, pcur, queue, srvVars, out>>

\* A wrong loop: the parent keeps its copy of the connection.
ParentKeeps ==
  /\ ppc = "close"
  /\ ppc' = "accept"
  /\ UNCHANGED <<browserVars, pcur, childVars, sockVars, srvVars, out>>

\* A wrong loop: the parent waits for the child before it goes on.
ParentWaits ==
  /\ ppc = "close"
  /\ child[pcur] \in {"none", "ended"}
  /\ ppc' = "accept"
  /\ held' = [held EXCEPT ![Parent] = @ \ {pcur}]
  /\ UNCHANGED <<browserVars, pcur, childVars, queue, lsn, srvVars, out>>

ParentCloses ==
  /\ ppc = "close"
  /\ ppc' = "accept"
  /\ held' = [held EXCEPT ![Parent] = @ \ {pcur}]
  /\ UNCHANGED <<browserVars, pcur, childVars, queue, lsn, srvVars, out>>

-----------------------------------------------------------------------------
(***************************************************************************)
(* The child of b.                                                         *)
(***************************************************************************)

ChildGoes(b, to) == child' = [child EXCEPT ![b] = to] /\ UNCHANGED room

ChildEnds(b) == ChildGoes(b, "ended") /\ ProcessEnds(b)

\* A wrong end of the if: a bad request is not answered.
ChildReadsOnlyGet(b) ==
  /\ child[b] = "read"
  /\ req[b] # "none" \/ b \in gone
  /\ \/ /\ req[b] = "get"
        /\ ChildGoes(b, "connect")
        /\ UNCHANGED <<conn, sockVars>>
     \/ /\ req[b] # "get"
        /\ ChildEnds(b)
  /\ UNCHANGED <<gone, req, parentVars, srvVars, out>>

(***************************************************************************)
(* One recv() of the request, and its parsing.  What is not the whole of a *)
(* GET request, or nothing because the browser has left, is refused (then  *)
(* t1, t2 and t3 were never written, and hold no request).  An unknown     *)
(* host is a null pointer that is then followed.                           *)
(***************************************************************************)
ChildReads(b) ==
  /\ child[b] = "read"
  /\ req[b] # "none" \/ b \in gone
  /\ \/ /\ req[b] = "get"
        /\ ChildGoes(b, "connect")
        /\ UNCHANGED <<conn, sockVars>>
     \/ /\ req[b] \in {"none", "part", "other"}
        /\ ChildGoes(b, "reply")
        /\ UNCHANGED <<conn, sockVars>>
     \/ /\ req[b] = "nohost"
        /\ ChildEnds(b)
  /\ UNCHANGED <<gone, req, parentVars, srvVars, out>>

\* connect() to the server; error() exits if it fails.
ChildConnects(b) ==
  /\ child[b] = "connect"
  /\ \/ /\ srv' = [srv EXCEPT ![b] = "open"]
        /\ ChildGoes(b, "send")
        /\ UNCHANGED <<conn, sockVars>>
     \/ /\ ChildEnds(b)
        /\ UNCHANGED srv
  /\ UNCHANGED <<gone, req, parentVars, parts, out>>

\* send() of the request; error() exits, or SIGPIPE kills, if the server has
\* ended the connection.
ChildSends(b) ==
  /\ child[b] = "send"
  /\ \/ /\ ChildGoes(b, "relay")
        /\ UNCHANGED <<conn, sockVars>>
     \/ /\ srv[b] # "open"
        /\ ChildEnds(b)
  /\ UNCHANGED <<gone, req, parentVars, srvVars, out>>

\* send() to the browser.  If it has left, SIGPIPE can end the child.
SendsBrowser(b, m, to) ==
  \/ /\ out' = [out EXCEPT ![b] = Append(@, m)]
     /\ ChildGoes(b, to)
     /\ UNCHANGED <<conn, sockVars>>
  \/ /\ b \in gone
     /\ ChildEnds(b)
     /\ UNCHANGED out

\* A wrong loop, which ends behind a part shorter than the buffer.
ChildRelaysOnce(b) ==
  /\ child[b] = "relay"
  /\ srv[b] # "reset"
  /\ Len(out[b]) < parts[b]
  /\ SendsBrowser(b, Part(b, Len(out[b]) + 1), "close")
  /\ UNCHANGED <<gone, req, parentVars, srvVars>>

\* recv() returned a part of the response.
ChildRelays(b) ==
  /\ child[b] = "relay"
  /\ srv[b] # "reset"
  /\ Len(out[b]) < parts[b]
  /\ SendsBrowser(b, Part(b, Len(out[b]) + 1), "relay")
  /\ UNCHANGED <<gone, req, parentVars, srvVars>>

\* recv() returned 0 behind the last part, or an error.
ChildStops(b) ==
  /\ child[b] = "relay"
  /\ \/ srv[b] = "closed" /\ Len(out[b]) = parts[b]
     \/ srv[b] = "reset"
  /\ ChildGoes(b, "close")
  /\ UNCHANGED <<browserVars, parentVars, sockVars, srvVars, out>>

\* A wrong if, without its else: a refused request is relayed as well.
ChildRepliesAndGoesOn(b) ==
  /\ child[b] = "reply"
  /\ SendsBrowser(b, Bad(b), "connect")
  /\ UNCHANGED <<gone, req, parentVars, srvVars>>

\* The refusal.
ChildReplies(b) ==
  /\ child[b] = "reply"
  /\ SendsBrowser(b, Bad(b), "close")
  /\ UNCHANGED <<gone, req, parentVars, srvVars>>

(***************************************************************************)
(* The three close() and _exit().  After a refusal sockfd1 has no value:   *)
(* its close() closes any descriptor of this process, or none; all that    *)
(* matter are closed by the next two calls anyway.                         *)
(***************************************************************************)
ChildCloses(b) ==
  /\ child[b] = "close"
  /\ ChildEnds(b)
  /\ UNCHANGED <<gone, req, parentVars, srvVars, out>>

-----------------------------------------------------------------------------
ParentStep == ParentAccepts \/ ParentForks \/ ParentCloses

ChildStep(b) ==
  \/ ChildReads(b) \/ ChildConnects(b) \/ ChildSends(b)
  \/ ChildRelays(b) \/ ChildStops(b) \/ ChildReplies(b) \/ ChildCloses(b)

Next ==
  \/ ParentStep
  \/ \E b \in Browser :
       \/ ChildStep(b)
       \/ BrowserConnects(b) \/ BrowserSends(b) \/ BrowserLeaves(b)
       \/ ServerSends(b) \/ ServerEnds(b)

Spec == Init /\ [][Next]_vars

(***************************************************************************)
(* Fairness: each process runs when it is not waiting, and accept()        *)
(* returns when there is a connection.  Browsers may keep silent, servers  *)
(* may never answer.                                                       *)
(***************************************************************************)
FairSpec ==
  /\ Spec
  /\ WF_vars(ParentStep /\ (ppc = "accept" => queue # <<>>))
  /\ \A b \in Browser : WF_vars(ChildStep(b))

-----------------------------------------------------------------------------
(***************************************************************************)
(* Properties.                                                             *)
(***************************************************************************)

Item == {Part(b, n) : b \in Browser, n \in 1 .. MaxParts} \cup {Bad(b) : b \in Browser}

TypeOK ==
  /\ conn \in [Browser -> {"away", "queued", "open", "refused"}]
  /\ gone \subseteq Browser
  /\ req \in [Browser -> {"none", "part", "get", "nohost", "other"}]
  /\ queue \in Seq(Browser)
  /\ ppc \in {"accept", "fork", "close", "down"}
  /\ pcur \in Proc
  /\ child \in [Browser -> {"none", "read", "connect", "send", "relay", "reply",
                            "close", "ended"}]
  /\ room \in 0 .. MaxProcs
  /\ held \in [Proc -> SUBSET Browser]
  /\ lsn \subseteq Proc
  /\ srv \in [Browser -> {"none", "open", "closed", "reset"}]
  /\ parts \in [Browser -> 0 .. MaxParts]
  /\ out \in [Browser -> Seq(Item)]

\* fork() copies descriptors, and yet no process is left with one of another's
\* connection: each is closed to its browser as soon as its own child has ended
\* and the parent has come round to accept() again.
OwnOnly ==
  /\ \A b \in Browser : held[b] \subseteq {b}
  /\ held[Parent] = IF ppc \in {"fork", "close"} THEN {pcur} ELSE {}

\* A browser that stays and whose connection is closed has got all that its
\* server sent, if the server got the request and closed in good order.
WholeAnswer ==
  \A b \in Browser :
    (Closed(b) /\ b \notin gone /\ parts[b] > 0 /\ srv[b] # "reset")
      => Len(out[b]) = parts[b]

\* Without a byte a connection is closed on a browser that stays only if its
\* host is unknown, its server is not reached or sends nothing, or if fork()
\* failed because the children of others, ended or not, fill the process table.
SilentClose ==
  \A b \in Browser :
    (Closed(b) /\ b \notin gone /\ out[b] = <<>>)
      => \/ req[b] = "nohost"
         \/ req[b] = "get" /\ (srv[b] \in {"none", "reset"} \/ parts[b] = 0)
         \/ child[b] = "none" /\ room = 0

\* One connection does not hold up another: whatever other browsers and servers
\* do, a queued browser is accepted unless the proxy has ended, and a connection
\* whose server has ended, or that no server is needed for, is closed.
QueueMoves ==
  \A b \in Browser : (conn[b] = "queued") ~> (conn[b] # "queued" \/ ppc = "down")

NotHeldUp ==
  \A b \in Browser :
    (/\ conn[b] = "open"
     /\ \/ srv[b] \in {"closed", "reset"}
        \/ req[b] \in {"nohost", "other"}
        \/ req[b] = "none" /\ b \in gone) ~> Closed(b)

\* The state of a connection as those in front of the proxy see it.
ConnState ==
  [b \in Browser |-> IF conn[b] # "open" THEN "none"
                     ELSE IF Closed(b) THEN "closed" ELSE "open"]

Promise == INSTANCE NextProxy WITH Conn <- Browser, state <- ConnState, answer <- out

\* Between fork() and the last close(), whoever ends first, the proxy keeps what
\* NextProxy promises: nothing is sent behind the end of an answer, and a closed
\* connection does not come to life again.
Implements == Promise!NextSpec
=============================================================================
