----------------------------- MODULE BridgePair -----------------------------
(***************************************************************************)
(* The two asio proxies.  The left one (Integration/tcpclient) accepts     *)
(* browsers and has the RabinClient, the right one (Integration/tcpproxy)  *)
(* connects to the next proxy and has the RabinServer.  For each browser   *)
(* there is a bridge in both processes, named here by the browser: the     *)
(* left one's upstream connection is the right one's downstream one.       *)
(* Requests cross that connection.  Responses do not: the right process    *)
(* sends what it reads for any bridge as a file on the one Rabin           *)
(* connection, and the left process gives each file to the bridge whose    *)
(* handler happens to call receive_file.                                   *)
(*                                                                         *)
(* Each process is one thread that runs handlers.  A bridge has two chains *)
(* of them: for the response (upstream_read, downstream_write) and for the *)
(* request (downstream_read, upstream_write); each handler starts the      *)
(* operation whose completion is the next one.  A read or write of 0 bytes *)
(* succeeds at once on an open socket and fails on a closed one, and a     *)
(* success that waits in the queue stays one if the socket is closed       *)
(* before its handler runs.  On the Rabin connection every file sent is    *)
(* received, once and in order (FileLink).                                 *)
(***************************************************************************)
EXTENDS Naturals, Sequences, FiniteSets, SequencesExt

CONSTANTS
  Browser,     \* the browsers; each makes one connection
  None,        \* no bridge
  Faults,      \* what else is considered: an "accept" that fails in either process,
               \* the right process that can "die", "more" pieces of a request
  MaxFiles     \* bound: how many reads all responses take together

ASSUME BridgeAssumption ==
  None \notin Browser /\ MaxFiles \in Nat /\ Faults \subseteq {"accept", "die", "more"}

VARIABLES
  browser,     \* of each: "away", "open" once accepted, "gone", or "ignored" by an
               \* acceptor that has stopped
  breq,        \* its request, or the last piece of it: "none", "forwarded" by the
               \* left process, "read" by the right one, or "lost"
  left,        \* the left bridges: [open, res, req, c], see below
  right,       \* the right bridges: [open, res, req, asked]; asked: the next proxy has
               \* a request to answer
  accepts,     \* the right process: "yes", "no" when its acceptor has stopped, or
               \* "dead"
  link,        \* the files on the Rabin connection: whose response
  taken,       \* how many of them receive_file has returned
  thread,      \* the left bridge whose handler is in receive_file, or None
  resp,        \* what each browser was sent: positions in link
  got,         \* history: the positions of the files each bridge received
  calm         \* history: no bridge began before the one before it was over, and
               \* receive_file never gave up while a response was under way

envVars == <<browser, breq>>
rightVars == <<right, accepts, link>>
leftVars == <<left, taken, thread, resp, got>>
vars == <<envVars, leftVars, rightVars, calm>>

(***************************************************************************)
(* Where a chain is.  "read" and "write": the operation has been started,  *)
(* and has succeeded if it was one of 0 bytes.  "failed": it has failed    *)
(* and its handler has not run yet.  "done": the handler saw the error and *)
(* started nothing.  In the right process, "connect": the left one has     *)
(* connected, and this process has still to accept, or to connect to the   *)
(* next proxy; "send": the handler is in send_file.                        *)
(***************************************************************************)
Chain == {"none", "connect", "read", "write", "failed", "done"}
RightChain == Chain \cup {"send"}

LeftBridge == [open : BOOLEAN, res : Chain, req : Chain, c : Nat]
RightBridge == [open : BOOLEAN, res : RightChain, req : Chain, asked : BOOLEAN]

NoLeft == [open |-> FALSE, res |-> "none", req |-> "none", c |-> 0]
NoRight == [open |-> FALSE, res |-> "none", req |-> "none", asked |-> FALSE]

Init ==
  /\ browser = [b \in Browser |-> "away"]
  /\ breq = [b \in Browser |-> "none"]
  /\ left = [b \in Browser |-> NoLeft]
  /\ right = [b \in Browser |-> NoRight]
  /\ accepts = "yes"
  /\ link = <<>> /\ taken = 0
  /\ thread = None
  /\ resp = [b \in Browser |-> <<>>]
  /\ got = [b \in Browser |-> <<>>]
  /\ calm = TRUE

\* A bridge is destroyed when no handler holds it any more.
Destroyed(b) == left[b].res = "done" /\ left[b].req = "done"

Over(b) ==
  /\ Destroyed(b)
  /\ right[b].res # "none" => right[b].res = "done" /\ right[b].req = "done"

-----------------------------------------------------------------------------
(***************************************************************************)
(* Browsers.  When the left process has closed b's connection, nothing b   *)
(* does is seen any more.                                                  *)
(***************************************************************************)

BrowserLeaves(b) ==
  /\ browser[b] = "open" /\ left[b].open
  /\ browser' = [browser EXCEPT ![b] = "gone"]
  /\ UNCHANGED <<breq, leftVars, rightVars, calm>>

-----------------------------------------------------------------------------
(***************************************************************************)
(* The left process.  While a handler is in receive_file no other runs.    *)
(***************************************************************************)

LeftRuns == thread = None

\* A browser has connected.  handle_accept and start(): the connection to the
\* right process is begun, and the next browser can be accepted.
LeftAccept(b) ==
  /\ LeftRuns
  /\ browser[b] = "away"
  /\ browser' = [browser EXCEPT ![b] = "open"]
  /\ left' = [left EXCEPT ![b].open = TRUE, ![b].res = "connect"]
  /\ calm' = (calm /\ taken = Len(link)
                     /\ \A a \in Browser : left[a].res = "none" \/ Over(a))
  /\ UNCHANGED <<breq, taken, thread, resp, got, rightVars>>

\* handle_accept with an error: accept_connections is not called again, and who
\* connects stays in the queue of the listening socket.
LeftAcceptFails ==
  /\ "accept" \in Faults
  /\ LeftRuns
  /\ \E b \in Browser : browser[b] = "away"
  /\ browser' = [b \in Browser |-> IF browser[b] = "away" THEN "ignored" ELSE browser[b]]
  /\ UNCHANGED <<breq, leftVars, rightVars, calm>>

\* The connection is in the queue of the right process.  It accepts it some time:
\* handle_accept and start() begin the connection to the next proxy, and the next
\* bridge can be accepted; or its acceptor stops, now or before, and the connection
\* stays in the queue.
RightAccepts(b) ==
  \/ /\ accepts = "yes"
     /\ right' = [right EXCEPT ![b].open = TRUE, ![b].res = "connect"]
     /\ UNCHANGED accepts
  \/ /\ accepts = "no" \/ "accept" \in Faults
     /\ accepts' = "no"
     /\ UNCHANGED right

\* handle_upstream_connect: a read of 0 bytes upstream and a read downstream; or
\* the connection failed.
LeftConnect(b) ==
  /\ LeftRuns
  /\ left[b].res = "connect"
  /\ \/ /\ accepts # "dead"
        /\ left' = [left EXCEPT ![b].res = "read", ![b].req = "read"]
        /\ RightAccepts(b)
     \/ /\ left' = [left EXCEPT ![b].open = FALSE, ![b].res = "done", ![b].req = "done"]
        /\ UNCHANGED <<right, accepts>>
  /\ UNCHANGED <<envVars, taken, thread, resp, got, link, calm>>

\* A wrong handler: the size stays that of the read, 0, though there is a file.
LeftUpReadEmpty(b) ==
  /\ LeftRuns
  /\ left[b].res = "read"
  /\ left' = [left EXCEPT ![b].res = IF left[b].open THEN "write" ELSE "failed", ![b].c = 0]
  /\ UNCHANGED <<envVars, taken, thread, resp, got, rightVars, calm>>

(***************************************************************************)
(* handle_upstream_read without an error: what receive_file returned is    *)
(* written to the browser, or 0 bytes if nothing was received yet.  The    *)
(* write fails on a closed socket and can fail if the browser has gone.    *)
(***************************************************************************)
LeftUpRead(b) ==
  /\ LeftRuns
  /\ left[b].res = "read"
  /\ \E res \in {"write", "failed"} :
       /\ res = "write" => left[b].open
       /\ res = "failed" => ~left[b].open \/ (browser[b] = "gone" /\ left[b].c # 0)
       /\ left' = [left EXCEPT ![b].res = res, ![b].c = 0]
  /\ resp' = IF left[b].open /\ left[b].c # 0
             THEN [resp EXCEPT ![b] = Append(@, left[b].c)] ELSE resp
  /\ UNCHANGED <<envVars, taken, thread, got, rightVars, calm>>

\* handle_downstream_write without an error calls receive_file.  The write is finished
\* when all of the file is in the socket's buffer, for which the browser has to read.
LeftDownWrite(b) ==
  /\ LeftRuns
  /\ left[b].res = "write"
  /\ thread' = b
  /\ UNCHANGED <<envVars, left, taken, resp, got, rightVars, calm>>

\* receive_file returns the next file of the connection, whoever's it is.
ReceivesFile ==
  /\ taken < Len(link)
  /\ taken' = taken + 1
  /\ got' = [got EXCEPT ![thread] = Append(@, taken + 1)]

\* A wrong comparison, of a with 2: a file of one block is dropped.
LeftReceivesTwo ==
  /\ thread # None
  /\ ReceivesFile
  /\ left' = [left EXCEPT ![thread].res = "failed", ![thread].open = FALSE]
  /\ thread' = None
  /\ UNCHANGED <<envVars, resp, rightVars, calm>>

\* A wrong handler: it takes a timeout for a file.
LeftReceivesUnchecked ==
  /\ thread # None
  /\ taken' = taken + 1
  /\ got' = [got EXCEPT ![thread] = Append(@, taken + 1)]
  /\ left' = [left EXCEPT ![thread].res = IF left[thread].open THEN "read" ELSE "failed",
                          ![thread].c = taken + 1]
  /\ thread' = None
  /\ UNCHANGED <<envVars, resp, rightVars, calm>>

\* A wrong handler: it receives all there is, each file over the one before.
LeftReceivesLast ==
  /\ thread # None
  /\ taken < Len(link)
  /\ taken' = Len(link)
  /\ got' = [got EXCEPT ![thread] = Append(@, Len(link))]
  /\ left' = [left EXCEPT ![thread].res = IF left[thread].open THEN "read" ELSE "failed",
                          ![thread].c = Len(link)]
  /\ thread' = None
  /\ UNCHANGED <<envVars, resp, rightVars, calm>>

\* receive_file returned a file: it is kept in c, and a read of 0 bytes is
\* started.
LeftReceives ==
  /\ thread # None
  /\ ReceivesFile
  /\ left' = [left EXCEPT ![thread].res = IF left[thread].open THEN "read" ELSE "failed",
                          ![thread].c = taken + 1]
  /\ thread' = None
  /\ UNCHANGED <<envVars, resp, rightVars, calm>>

\* The next proxy can still send something for this bridge, or has just done so.
UnderWay(b) == right[b].res \in {"connect", "read", "send"}

\* A wrong handler: the result of receive_file is not looked at.
LeftTimesOutGoesOn ==
  /\ thread # None
  /\ taken = Len(link)
  /\ calm' = (calm /\ ~UnderWay(thread))
  /\ left' = [left EXCEPT ![thread].res = IF left[thread].open THEN "read" ELSE "failed"]
  /\ thread' = None
  /\ UNCHANGED <<envVars, taken, resp, got, rightVars>>

\* receive_file returned 1, after ten seconds without a byte: the sockets are
\* closed, and the handler goes on to read from a closed one.
LeftTimesOut ==
  /\ thread # None
  /\ taken = Len(link)
  /\ calm' = (calm /\ ~UnderWay(thread))
  /\ left' = [left EXCEPT ![thread].open = FALSE, ![thread].res = "failed"]
  /\ thread' = None
  /\ UNCHANGED <<envVars, taken, resp, got, rightVars>>

(***************************************************************************)
(* The browser has sent a request or a further piece of it.                *)
(* handle_downstream_read without an error writes it upstream, which can   *)
(* fail if the right process has closed; handle_upstream_write then starts *)
(* the next read downstream.                                               *)
(***************************************************************************)
LeftDownRead(b) ==
  /\ LeftRuns
  /\ left[b].req = "read" /\ left[b].open /\ browser[b] = "open"
  /\ breq[b] = "none" \/ ("more" \in Faults /\ breq[b] = "read")
  /\ \/ /\ breq' = [breq EXCEPT ![b] = "forwarded"]
        /\ UNCHANGED left
     \/ /\ ~right[b].open /\ (accepts = "dead" \/ right[b].res # "none")
        /\ breq' = [breq EXCEPT ![b] = "lost"]
        /\ left' = [left EXCEPT ![b].req = "failed"]
  /\ UNCHANGED <<browser, taken, thread, resp, got, rightVars, calm>>

\* A handler with an error calls close().  It closes both sockets; a write that
\* is not finished then fails, if it is not the first, which is of 0 bytes.
LeftFails(b) ==
  /\ LeftRuns
  /\ \/ /\ left[b].res = "failed"
        /\ left' = [left EXCEPT ![b].open = FALSE, ![b].res = "done"]
     \/ /\ \/ left[b].req = "failed"
           \/ left[b].req = "read" /\ (~left[b].open \/ browser[b] = "gone")
        /\ \E res \in {left[b].res, "failed"} :
             /\ res # left[b].res => left[b].res = "write" /\ resp[b] # <<>>
             /\ left' = [left EXCEPT ![b].open = FALSE, ![b].req = "done", ![b].res = res]
  /\ UNCHANGED <<envVars, taken, thread, resp, got, rightVars, calm>>

-----------------------------------------------------------------------------
(***************************************************************************)
(* The right process.  While a handler is in send_file no other runs: its  *)
(* write() waits until what it writes fits into the socket's buffer, that  *)
(* is, if the file does not fit, until the left process receives it.       *)
(***************************************************************************)

RightRuns == \A b \in Browser : right[b].res # "send"

\* send_file of what was read for b.  The client receives it once and whole (FileLink),
\* or, if this process ends meanwhile, the blocks that were written, and so it is one
\* file here.  (If not one block was, receive_file returns 1: the file was not begun.)
SendsFile(b) == link' = Append(link, b)

\* handle_upstream_connect: reads in both directions, or close().
RightConnect(b) ==
  /\ RightRuns
  /\ right[b].res = "connect"
  /\ \/ right' = [right EXCEPT ![b].res = "read", ![b].req = "read"]
     \/ right' = [right EXCEPT ![b].open = FALSE, ![b].res = "done", ![b].req = "done"]
  /\ UNCHANGED <<envVars, leftVars, accepts, link, calm>>

(***************************************************************************)
(* handle_upstream_read without an error: what was read is sent as a file. *)
(* The bridge may have been closed after the read that succeeded and       *)
(* before its handler.                                                     *)
(***************************************************************************)
RightUpRead(b) ==
  /\ RightRuns
  /\ right[b].res = "read" /\ right[b].asked
  /\ Len(link) < MaxFiles
  /\ SendsFile(b)
  /\ right' = [right EXCEPT ![b].res = "send"]
  /\ UNCHANGED <<envVars, leftVars, accepts, calm>>

\* send_file returns, when the last of the file fits into the socket's buffer.  Then
\* 0 bytes are written downstream, and handle_downstream_write starts the next read.
RightSent(b) ==
  /\ right[b].res = "send"
  /\ right' = [right EXCEPT ![b].res = IF right[b].open THEN "read" ELSE "failed"]
  /\ UNCHANGED <<envVars, leftVars, accepts, link, calm>>

\* The next proxy closes or resets the connection.
RightUpEof(b) ==
  /\ RightRuns
  /\ right[b].res = "read" /\ right[b].open
  /\ right' = [right EXCEPT ![b].open = FALSE, ![b].res = "done", ![b].asked = FALSE]
  /\ UNCHANGED <<envVars, leftVars, accepts, link, calm>>

\* handle_downstream_read without an error: the request is written upstream,
\* which can fail; handle_upstream_write then starts the next read downstream.
RightDownRead(b) ==
  /\ RightRuns
  /\ right[b].req = "read" /\ right[b].open
  /\ breq[b] = "forwarded"
  /\ breq' = [breq EXCEPT ![b] = "read"]
  /\ \E req \in {"read", "failed"} :
       right' = [right EXCEPT ![b].asked = TRUE, ![b].req = req]
  /\ UNCHANGED <<browser, leftVars, accepts, link, calm>>

\* A handler with an error: this process or the left one has closed the socket,
\* and a request that was sent before that has been read.
RightFails(b) ==
  /\ RightRuns
  /\ \/ /\ \/ right[b].res = "failed"
           \/ right[b].res = "read" /\ ~right[b].open
        /\ right' = [right EXCEPT ![b].open = FALSE, ![b].res = "done", ![b].asked = FALSE]
     \/ /\ \/ right[b].req = "failed"
           \/ right[b].req = "read" /\ ~right[b].open
           \/ /\ right[b].req = "read" /\ ~left[b].open
              /\ breq[b] # "forwarded"
        /\ right' = [right EXCEPT ![b].open = FALSE, ![b].req = "done"]
  /\ UNCHANGED <<envVars, leftVars, accepts, link, calm>>

(***************************************************************************)
(* The process ends, by an exception out of ios.run() or a signal, which   *)
(* can come inside send_file.  Its connections are closed; what send_file  *)
(* has written is still to be received.                                    *)
(***************************************************************************)
RightDies ==
  /\ "die" \in Faults /\ accepts # "dead"
  /\ accepts' = "dead"
  /\ right' = [b \in Browser |->
                 IF right[b].res = "none" THEN NoRight
                 ELSE [open |-> FALSE, res |-> "done", req |-> "done", asked |-> FALSE]]
  /\ UNCHANGED <<envVars, leftVars, link, calm>>

-----------------------------------------------------------------------------
LeftReturns == LeftReceives \/ LeftTimesOut

Next ==
  \/ LeftReturns
  \/ LeftAcceptFails \/ RightDies
  \/ \E b \in Browser :
       \/ BrowserLeaves(b)
       \/ LeftAccept(b) \/ LeftConnect(b) \/ LeftUpRead(b) \/ LeftDownWrite(b)
       \/ LeftDownRead(b) \/ LeftFails(b)
       \/ RightConnect(b) \/ RightUpRead(b) \/ RightSent(b) \/ RightUpEof(b)
       \/ RightDownRead(b) \/ RightFails(b)

Spec == Init /\ [][Next]_vars

(***************************************************************************)
(* Fairness: receive_file returns, and both processes run every handler    *)
(* whose operation has completed, for their queues are first in, first     *)
(* out.  A connection attempt ends in one way or the other.  The first     *)
(* write to a browser, of 0 bytes, and one on a socket that was closed     *)
(* complete by themselves; any other may wait for the browser.  send_file  *)
(* returns when everything it has written was received; before, it may     *)
(* wait for the left process.  Nothing makes the next proxy answer or      *)
(* close, or a browser come, ask, read or leave; no accept has to fail and *)
(* no process to end.                                                      *)
(***************************************************************************)
WriteCompletes(b) == resp[b] = <<>> \/ ~left[b].open

FairSpec ==
  /\ Spec
  /\ WF_vars(LeftReturns)
  /\ \A b \in Browser :
       /\ WF_vars(LeftConnect(b) \/ LeftUpRead(b)) /\ WF_vars(LeftFails(b))
       /\ WF_vars(LeftDownWrite(b) /\ WriteCompletes(b))
       /\ WF_vars(RightConnect(b) \/ RightFails(b)) /\ WF_vars(RightDownRead(b))
       /\ WF_vars(RightSent(b) /\ taken = Len(link))

-----------------------------------------------------------------------------
(***************************************************************************)
(* Properties.                                                             *)
(***************************************************************************)

TypeOK ==
  /\ browser \in [Browser -> {"away", "open", "gone", "ignored"}]
  /\ breq \in [Browser -> {"none", "forwarded", "read", "lost"}]
  /\ left \in [Browser -> LeftBridge]
  /\ right \in [Browser -> RightBridge]
  /\ accepts \in {"yes", "no", "dead"}
  /\ link \in Seq(Browser) /\ Len(link) <= MaxFiles
  /\ taken \in 0 .. Len(link) /\ \A b \in Browser : left[b].c <= taken
  /\ thread \in Browser \cup {None}
  /\ resp \in [Browser -> Seq(1 .. Len(link))]
  /\ got \in [Browser -> Seq(1 .. Len(link))]
  /\ calm \in BOOLEAN

SentTo(b) == {resp[b][k] : k \in 1 .. Len(resp[b])}

\* However the handlers of the bridges interleave around the shared RabinClient,
\* a browser is sent what its bridge received, in order, and of that only the
\* last files can be missing, when the bridge has been closed.  While it is open
\* it has passed on everything, but for the one it has in c.  No file is sent
\* twice, to one browser or to two.
PassesOn ==
  \A b \in Browser :
    /\ IsPrefix(resp[b], got[b])
    /\ left[b].open => got[b] = resp[b] \o (IF left[b].c = 0 THEN <<>> ELSE <<left[b].c>>)
    /\ \A j, k \in 1 .. Len(resp[b]) : j < k => resp[b][j] < resp[b][k]
    /\ \A a \in Browser \ {b} : SentTo(a) \cap SentTo(b) = {}

\* If a browser is not accepted before the bridges of the one before it are
\* gone in both processes, if receive_file never gives up on a response that
\* is under way, if the browser stays and if it sends no further piece of a
\* request behind the end of the answer, it gets its own response whole: the
\* bridge is not closed before that, even if the right process has died.
AloneWhole ==
  calm =>
    \A b \in Browser :
      (Destroyed(b) /\ browser[b] = "open" /\ breq[b] # "lost")
        => SentTo(b) = {j \in 1 .. Len(link) : link[j] = b}

(***************************************************************************)
(* The left process as its browsers see it: their connections, and on each *)
(* the files it was sent, each one as a part of the response it is of.     *)
(***************************************************************************)
SeenState ==
  [b \in Browser |-> IF left[b].res = "none" THEN "none"
                     ELSE IF left[b].open THEN "open" ELSE "closed"]

Number(j) == Cardinality({i \in 1 .. j : link[i] = link[j]})

Seen(j) == [kind |-> "part", of |-> link[j], nr |-> Number(j)]

SeenAnswer == [b \in Browser |-> [k \in 1 .. Len(resp[b]) |-> Seen(resp[b][k])]]

Promise ==
  INSTANCE NextProxy WITH Conn <- Browser, state <- SeenState, answer <- SeenAnswer

\* In the calm the two processes keep step by step what NextProxy promises: each
\* browser is sent the parts of its own response from the first on, none left out
\* and none twice, and nothing once its bridge is closed, also if it leaves, asks
\* again, or the right process dies.
KeepsPromise ==
  /\ Promise!NextInit
  /\ [][~calm' \/ Promise!NextNext]_<<SeenState, SeenAnswer>>

\* The right process is in the write() of a file, and its next bytes wait for a
\* receive_file.
RightWaits == ~RightRuns /\ taken < Len(link)

\* If browsers read what they are sent, every bridge is destroyed some day, on both
\* sides, whatever the next proxy does: each ends in a receive_file that nothing comes
\* for, and when the left process has closed the right one does.  So the proxies come
\* back, again and again, to where no bridge that was begun is left.  One thing can be
\* in the way: the right process, in a write() at rabinserver.cc:172 or 184 that has no
\* timeout, waits for a receive_file when no left bridge is left to call it.
BridgesEnd ==
  (\A b \in Browser : WF_vars(LeftDownWrite(b))) =>
    []<>(\A b \in Browser :
           left[b].res = "none" \/ (Destroyed(b) /\ (Over(b) \/ RightWaits)))

-----------------------------------------------------------------------------
\* tcpproxy_client.cpp:13: "to act as an intermediary in order to 'forward' TCP
\* based connections": what a browser is sent belongs to its own connection.
ForwardsOwn == \A b \in Browser : \A j \in SentTo(b) : link[j] = b
=============================================================================
