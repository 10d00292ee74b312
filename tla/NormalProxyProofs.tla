-------------------------- MODULE NormalProxyProofs --------------------------
(***************************************************************************)
(* Proofs about NormalProxy, for any number of browsers, any room in the   *)
(* process table and any length of a response.                             *)
(***************************************************************************)
EXTENDS NormalProxy, TLAPS

(***************************************************************************)
(* The inductive invariant.                                                *)
(***************************************************************************)

\* The queue holds waiting connections, each once.
QueueOK ==
  /\ \A i \in 1 .. Len(queue) : conn[queue[i]] = "queued"
  /\ \A i, j \in 1 .. Len(queue) : queue[i] = queue[j] => i = j

\* A connection that is not accepted has no child and is held by nobody, one
\* whose child runs is held by it, and the connection the parent is busy with
\* has a child only once fork() has made it.  A connection without a child is
\* given up only if there was no room.
Owners ==
  /\ \A b \in Browser :
       /\ conn[b] # "open" => child[b] = "none" /\ \A p \in Proc : b \notin held[p]
       /\ child[b] \notin {"none", "ended"} => b \in held[b]
       /\ child[b] = "none" => b \notin held[b]
       /\ (conn[b] = "open" /\ child[b] = "none" /\ ~(ppc = "fork" /\ pcur = b)) => room = 0
  /\ ppc = "fork" => child[pcur] = "none"

\* How far the answer to b is, at each place of its child.
Progress(b) ==
  /\ child[b] \in {"none", "read", "connect", "reply"} => srv[b] = "none" /\ out[b] = <<>>
  /\ child[b] = "send" => out[b] = <<>> /\ parts[b] = 0 /\ srv[b] # "none"
  /\ child[b] = "relay" => srv[b] # "none" /\ out[b] # <<Bad(b)>> /\ Len(out[b]) <= parts[b]
  /\ child[b] \in {"connect", "send", "relay"} => req[b] = "get"
  /\ srv[b] = "none" => parts[b] = 0

\* What is settled once the child of b has only to close or has ended.
Settled(b) ==
  (child[b] = "close" \/ (child[b] = "ended" /\ b \notin gone))
    => /\ srv[b] # "open"
       /\ parts[b] > 0 /\ srv[b] # "reset" => Len(out[b]) = parts[b]
       /\ out[b] = <<>> => \/ req[b] = "nohost"
                           \/ req[b] = "get" /\ (srv[b] \in {"none", "reset"} \/ parts[b] = 0)

IInv ==
  /\ TypeOK
  /\ OwnOnly
  /\ QueueOK
  /\ Owners
  /\ \A b \in Browser : Progress(b) /\ Settled(b)

-----------------------------------------------------------------------------
(***************************************************************************)
(* Types.                                                                  *)
(***************************************************************************)

LEMMA Items ==
  /\ \A b \in Browser, n \in 1 .. MaxParts : Part(b, n) \in Item
  /\ \A b \in Browser : Bad(b) \in Item
BY DEF Item

LEMMA InitType == Init => TypeOK
BY NormalAssumption DEF Init, TypeOK, Proc

LEMMA EndsType ==
  ASSUME TypeOK, NEW p \in Proc, ProcessEnds(p)
  PROVE  /\ conn' \in [Browser -> {"away", "queued", "open", "refused"}]
         /\ queue' \in Seq(Browser)
         /\ held' \in [Proc -> SUBSET Browser]
         /\ lsn' \subseteq Proc
<1> USE DEF TypeOK, ProcessEnds
<1>1. queue' \in Seq(Browser)
  <2>1. CASE lsn' = {}
    BY <2>1
  <2>2. CASE lsn' # {}
    BY <2>2
  <2>3. QED
    BY <2>1, <2>2
<1>2. conn' \in [Browser -> {"away", "queued", "open", "refused"}]
  <2>1. CASE lsn' = {}
    BY <2>1
  <2>2. CASE lsn' # {}
    BY <2>2
  <2>3. QED
    BY <2>1, <2>2
<1>3. held' \in [Proc -> SUBSET Browser] /\ lsn' \subseteq Proc
  OBVIOUS
<1>4. QED
  BY <1>1, <1>2, <1>3

LEMMA GoesType ==
  ASSUME TypeOK, NEW b \in Browser,
         NEW to \in {"read", "connect", "send", "relay", "reply", "close", "ended"},
         ChildGoes(b, to)
  PROVE  /\ child' \in [Browser -> {"none", "read", "connect", "send", "relay", "reply",
                                    "close", "ended"}]
         /\ room' \in 0 .. MaxProcs
BY DEF TypeOK, ChildGoes

LEMMA SendsType ==
  ASSUME TypeOK, NEW b \in Browser, NEW m \in Item,
         out' = [out EXCEPT ![b] = Append(@, m)]
  PROVE  out' \in [Browser -> Seq(Item)]
<1>1. Append(out[b], m) \in Seq(Item)
  BY DEF TypeOK
<1>2. QED
  BY <1>1 DEF TypeOK

LEMMA ChildType ==
  ASSUME TypeOK, NEW b \in Browser, ChildStep(b)
  PROVE  TypeOK'
<1> DEFINE Same == UNCHANGED <<conn, sockVars>>
<1>1. b \in Proc
  BY DEF Proc
<1>2. ASSUME ChildEnds(b)
      PROVE  /\ child' \in [Browser -> {"none", "read", "connect", "send", "relay", "reply",
                                        "close", "ended"}]
             /\ room' \in 0 .. MaxProcs
             /\ conn' \in [Browser -> {"away", "queued", "open", "refused"}]
             /\ queue' \in Seq(Browser)
             /\ held' \in [Proc -> SUBSET Browser]
             /\ lsn' \subseteq Proc
  BY <1>1, <1>2, EndsType, GoesType DEF ChildEnds
<1>3. CASE ChildReads(b)
  <2>1. CASE ChildEnds(b)
    BY <1>2, <1>3, <2>1 DEF ChildReads, TypeOK, parentVars, srvVars
  <2>2. CASE Same /\ (ChildGoes(b, "connect") \/ ChildGoes(b, "reply"))
    BY <1>3, <2>2, GoesType DEF ChildReads, TypeOK, parentVars, srvVars, sockVars
  <2>3. QED
    BY <1>3, <2>1, <2>2 DEF ChildReads
<1>4. CASE ChildConnects(b)
  <2>1. CASE ChildEnds(b) /\ UNCHANGED srv
    BY <1>2, <1>4, <2>1 DEF ChildConnects, TypeOK, parentVars
  <2>2. CASE Same /\ ChildGoes(b, "send") /\ srv' = [srv EXCEPT ![b] = "open"]
    BY <1>4, <2>2, GoesType DEF ChildConnects, TypeOK, parentVars, sockVars
  <2>3. QED
    BY <1>4, <2>1, <2>2 DEF ChildConnects
<1>5. CASE ChildSends(b)
  <2>1. CASE ChildEnds(b)
    BY <1>2, <1>5, <2>1 DEF ChildSends, TypeOK, parentVars, srvVars
  <2>2. CASE Same /\ ChildGoes(b, "relay")
    BY <1>5, <2>2, GoesType DEF ChildSends, TypeOK, parentVars, srvVars, sockVars
  <2>3. QED
    BY <1>5, <2>1, <2>2 DEF ChildSends
<1>6. ASSUME NEW m \in Item, NEW to \in {"relay", "close"}, SendsBrowser(b, m, to),
             UNCHANGED <<gone, req, parentVars, srvVars>>
      PROVE  TypeOK'
  <2>1. CASE ChildEnds(b) /\ UNCHANGED out
    BY <1>2, <1>6, <2>1 DEF TypeOK, parentVars, srvVars
  <2>2. CASE Same /\ ChildGoes(b, to) /\ out' = [out EXCEPT ![b] = Append(@, m)]
    <3>1. out' \in [Browser -> Seq(Item)]
      BY <2>2, SendsType
    <3>2. QED
      BY <1>6, <2>2, <3>1, GoesType DEF TypeOK, parentVars, srvVars, sockVars
  <2>3. QED
    BY <1>6, <2>1, <2>2 DEF SendsBrowser
<1>7. CASE ChildRelays(b)
  <2>1. Len(out[b]) + 1 \in 1 .. MaxParts
    BY <1>7, NormalAssumption DEF ChildRelays, TypeOK
  <2>2. QED
    BY <1>6, <1>7, <2>1, Items DEF ChildRelays
<1>8. CASE ChildStops(b)
  BY <1>8, GoesType DEF ChildStops, TypeOK, browserVars, parentVars, srvVars, sockVars
<1>9. CASE ChildReplies(b)
  BY <1>6, <1>9, Items DEF ChildReplies
<1>10. CASE ChildCloses(b)
  BY <1>2, <1>10 DEF ChildCloses, TypeOK, parentVars, srvVars
<1>11. QED
  BY <1>3, <1>4, <1>5, <1>7, <1>8, <1>9, <1>10 DEF ChildStep

LEMMA ParentType ==
  ASSUME TypeOK, ParentStep
  PROVE  TypeOK'
<1>1. Parent \in Proc /\ Browser \subseteq Proc
  BY DEF Proc
<1>2. CASE ParentAccepts
  <2>1. CASE ppc' = "down" /\ ProcessEnds(Parent) /\ UNCHANGED pcur
    BY <1>1, <1>2, <2>1, EndsType DEF ParentAccepts, TypeOK, childVars, srvVars
  <2>2. CASE queue # <<>> /\ ppc' = "fork"
    <3>1. Head(queue) \in Browser /\ Tail(queue) \in Seq(Browser)
      BY <2>2 DEF TypeOK
    <3>2. pcur' = Head(queue) /\ queue' = Tail(queue) /\ UNCHANGED lsn
      BY <1>2, <2>2 DEF ParentAccepts
    <3>3. conn' \in [Browser -> {"away", "queued", "open", "refused"}]
      BY <1>2, <2>2 DEF ParentAccepts, TypeOK
    <3>4. held' \in [Proc -> SUBSET Browser]
      <4>1. held' = [held EXCEPT ![Parent] = held[Parent] \cup {pcur'}]
        BY <1>2, <2>2 DEF ParentAccepts
      <4>2. held[Parent] \cup {pcur'} \in SUBSET Browser /\ held \in [Proc -> SUBSET Browser]
        BY <1>1, <3>1, <3>2 DEF TypeOK
      <4>3. QED
        BY <1>1, <4>1, <4>2
    <3>5. QED
      BY <1>1, <1>2, <2>2, <3>1, <3>2, <3>3, <3>4 DEF ParentAccepts, TypeOK, childVars, srvVars
  <2>3. QED
    BY <1>2, <2>1, <2>2 DEF ParentAccepts
<1>3. CASE ParentForks
  <2>1. child' \in [Browser -> {"none", "read", "connect", "send", "relay", "reply",
                               "close", "ended"}]
    BY <1>3 DEF ParentForks, TypeOK, childVars
  <2>2. held' \in [Proc -> SUBSET Browser]
    <3>1. held \in [Proc -> SUBSET Browser] /\ held[Parent] \in SUBSET Browser
      BY <1>1 DEF TypeOK
    <3>2. held' = held \/ held' = [held EXCEPT ![pcur] = held[Parent]]
      BY <1>3 DEF ParentForks
    <3>3. QED
      BY <3>1, <3>2
  <2>3. lsn' \subseteq Proc /\ room' \in 0 .. MaxProcs
    BY <1>3, NormalAssumption DEF ParentForks, TypeOK, childVars
  <2>4. QED
    BY <1>3, <2>1, <2>2, <2>3 DEF ParentForks, TypeOK, browserVars, srvVars
<1>4. CASE ParentCloses
  BY <1>1, <1>4 DEF ParentCloses, TypeOK, browserVars, childVars, srvVars
<1>5. QED
  BY <1>2, <1>3, <1>4 DEF ParentStep

LEMMA StepType == TypeOK /\ [Next]_vars => TypeOK'
<1> SUFFICES ASSUME TypeOK, [Next]_vars PROVE TypeOK'
  OBVIOUS
<1> USE DEF browserVars, parentVars, childVars, sockVars, srvVars
<1>1. ASSUME NEW b \in Browser, BrowserConnects(b) PROVE TypeOK'
  BY <1>1 DEF BrowserConnects, TypeOK
<1>2. ASSUME NEW b \in Browser, BrowserSends(b) PROVE TypeOK'
  <2>1. req' \in [Browser -> {"none", "part", "get", "nohost", "other"}]
    BY <1>2 DEF BrowserSends, TypeOK
  <2>2. QED
    BY <1>2, <2>1 DEF BrowserSends, TypeOK
<1>3. ASSUME NEW b \in Browser, BrowserLeaves(b) PROVE TypeOK'
  BY <1>3 DEF BrowserLeaves, TypeOK
<1>4. ASSUME NEW b \in Browser, ServerSends(b) PROVE TypeOK'
  BY <1>4, NormalAssumption DEF ServerSends, TypeOK
<1>5. ASSUME NEW b \in Browser, ServerEnds(b) PROVE TypeOK'
  BY <1>5 DEF ServerEnds, TypeOK
<1>6. CASE UNCHANGED vars
  BY <1>6 DEF vars, TypeOK
<1>7. QED
  BY <1>1, <1>2, <1>3, <1>4, <1>5, <1>6, ParentType, ChildType DEF Next

\* Every variable has its type.
THEOREM TypeCorrect == Spec => []TypeOK
BY InitType, StepType, PTL DEF Spec
-----------------------------------------------------------------------------
(***************************************************************************)
(* Who has which connection open.                                          *)
(***************************************************************************)

\* What the steps of a child have in common.
LEMMA ChildShape ==
  ASSUME TypeOK, NEW b \in Browser, ChildStep(b)
  PROVE  /\ UNCHANGED <<gone, req, ppc, pcur, room, parts>>
         /\ child[b] \notin {"none", "ended"}
         /\ \E to \in {"read", "connect", "send", "relay", "reply", "close", "ended"} :
              /\ child' = [child EXCEPT ![b] = to]
              /\ \/ to # "ended" /\ UNCHANGED <<conn, held, lsn, queue>>
                 \/ to = "ended" /\ ProcessEnds(b)
<1> USE DEF ChildGoes, ChildEnds, parentVars, sockVars, srvVars, browserVars
<1>1. CASE ChildReads(b)
  BY <1>1 DEF ChildReads
<1>2. CASE ChildConnects(b)
  BY <1>2 DEF ChildConnects
<1>3. CASE ChildSends(b)
  BY <1>3 DEF ChildSends
<1>4. CASE ChildRelays(b)
  BY <1>4 DEF ChildRelays, SendsBrowser
<1>5. CASE ChildStops(b)
  BY <1>5 DEF ChildStops
<1>6. CASE ChildReplies(b)
  BY <1>6 DEF ChildReplies, SendsBrowser
<1>7. CASE ChildCloses(b)
  BY <1>7 DEF ChildCloses
<1>8. QED
  BY <1>1, <1>2, <1>3, <1>4, <1>5, <1>6, <1>7 DEF ChildStep

\* The steps of browsers and servers leave the processes alone.
Outside ==
  \E b \in Browser : \/ BrowserConnects(b) \/ BrowserSends(b) \/ BrowserLeaves(b)
                     \/ ServerSends(b) \/ ServerEnds(b)

LEMMA OutsideShape ==
  ASSUME Outside \/ UNCHANGED vars
  PROVE  UNCHANGED <<ppc, pcur, room, child, held, lsn, out>>
BY DEF Outside, BrowserConnects, BrowserSends, BrowserLeaves, ServerSends, ServerEnds,
       vars, browserVars, parentVars, childVars, sockVars, srvVars

LEMMA Steps ==
  ASSUME [Next]_vars
  PROVE  \/ ParentAccepts \/ ParentForks \/ ParentCloses
         \/ \E b \in Browser : ChildStep(b)
         \/ Outside \/ UNCHANGED vars
BY DEF Next, ParentStep, Outside

\* The connection the parent is busy with.
LEMMA Busy ==
  ASSUME TypeOK, OwnOnly, ppc \in {"fork", "close"}
  PROVE  pcur \in Browser /\ pcur # Parent /\ held[Parent] = {pcur}
<1>1. held[Parent] \in SUBSET Browser /\ held[Parent] = {pcur}
  BY DEF TypeOK, OwnOnly, Proc
<1>2. QED
  BY <1>1, NormalAssumption

LEMMA InitOwn == Init => OwnOnly
BY DEF Init, OwnOnly, Proc

LEMMA StepOwn == TypeOK /\ OwnOnly /\ [Next]_vars => OwnOnly'
<1> SUFFICES ASSUME TypeOK, OwnOnly, [Next]_vars PROVE OwnOnly'
  OBVIOUS
<1>1. /\ held \in [Proc -> SUBSET Browser] /\ Parent \in Proc /\ Browser \subseteq Proc
      /\ Parent \notin Browser
  BY NormalAssumption DEF TypeOK, Proc
<1>2. CASE ParentAccepts
  <2>1. held[Parent] = {}
    BY <1>2 DEF OwnOnly, ParentAccepts
  <2>2. CASE ppc' = "fork" /\ held' = [held EXCEPT ![Parent] = held[Parent] \cup {pcur'}]
    BY <1>1, <2>1, <2>2 DEF OwnOnly
  <2>3. CASE ppc' = "down" /\ held' = [held EXCEPT ![Parent] = {}]
    BY <1>1, <2>3 DEF OwnOnly
  <2>4. QED
    BY <1>2, <2>2, <2>3 DEF ParentAccepts, ProcessEnds
<1>3. CASE ParentForks
  <2>1. pcur \in Browser /\ held[Parent] = {pcur}
    BY <1>3, Busy DEF ParentForks
  <2>2. ppc' = "close" /\ pcur' = pcur
    BY <1>3 DEF ParentForks
  <2>3. held' = held \/ held' = [held EXCEPT ![pcur] = {pcur}]
    BY <1>3, <2>1 DEF ParentForks
  <2>4. QED
    BY <1>1, <2>1, <2>2, <2>3 DEF OwnOnly
<1>4. CASE ParentCloses
  <2>1. held[Parent] = {pcur}
    BY <1>4 DEF ParentCloses, OwnOnly
  <2>2. ppc' = "accept" /\ held' = [held EXCEPT ![Parent] = {}]
    BY <1>4, <2>1 DEF ParentCloses
  <2>3. QED
    BY <1>1, <2>2 DEF OwnOnly
<1>5. ASSUME NEW b \in Browser, ChildStep(b) PROVE OwnOnly'
  <2>1. held' = held \/ held' = [held EXCEPT ![b] = {}]
    BY <1>5, ChildShape DEF ProcessEnds
  <2>2. UNCHANGED <<ppc, pcur>>
    BY <1>5, ChildShape
  <2>3. QED
    BY <1>1, <2>1, <2>2 DEF OwnOnly
<1>6. CASE Outside \/ UNCHANGED vars
  BY <1>6, OutsideShape DEF OwnOnly
<1>7. QED
  BY <1>2, <1>3, <1>4, <1>5, <1>6, Steps

\* No process keeps a connection of another's, though fork() copies descriptors.
THEOREM OwnDescriptors == Spec => []OwnOnly
<1>1. Init => TypeOK /\ OwnOnly
  BY InitType, InitOwn
<1>2. TypeOK /\ OwnOnly /\ [Next]_vars => (TypeOK /\ OwnOnly)'
  BY StepType, StepOwn
<1>3. QED
  BY <1>1, <1>2, PTL DEF Spec
-----------------------------------------------------------------------------
(***************************************************************************)
(* The queue and the children.                                             *)
(***************************************************************************)

LEMMA EndsShape ==
  ASSUME TypeOK, NEW p \in Proc, ProcessEnds(p)
  PROVE  /\ held' = [held EXCEPT ![p] = {}]
         /\ queue' = <<>> \/ (queue' = queue /\ conn' = conn)
         /\ \A b \in Browser : conn'[b] = "open" <=> conn[b] = "open"
<1>1. CASE lsn' = {}
  BY <1>1 DEF ProcessEnds, TypeOK
<1>2. CASE lsn' # {}
  BY <1>2 DEF ProcessEnds
<1>3. QED
  BY <1>1, <1>2 DEF ProcessEnds

\* What a child does is done to its own connection.
LEMMA ChildOwners ==
  ASSUME TypeOK, NEW b \in Browser, ChildStep(b)
  PROVE  /\ queue' = <<>> \/ (queue' = queue /\ conn' = conn)
         /\ \A a \in Browser : conn'[a] = "open" <=> conn[a] = "open"
         /\ \/ child'[b] = "ended" /\ held' = [held EXCEPT ![b] = {}]
            \/ child'[b] \notin {"none", "ended"} /\ held' = held
         /\ \A a \in Browser : a # b => child'[a] = child[a]
         /\ UNCHANGED <<ppc, pcur, room>>
<1>1. PICK to \in {"read", "connect", "send", "relay", "reply", "close", "ended"} :
        /\ child' = [child EXCEPT ![b] = to]
        /\ \/ to # "ended" /\ UNCHANGED <<conn, held, lsn, queue>>
           \/ to = "ended" /\ ProcessEnds(b)
  BY ChildShape
<1>2. child'[b] = to /\ \A a \in Browser : a # b => child'[a] = child[a]
  BY <1>1 DEF TypeOK
<1>3. b \in Proc
  BY DEF Proc
<1>4. QED
  BY <1>1, <1>2, <1>3, ChildShape, EndsShape

LEMMA InitQueue == Init => QueueOK /\ Owners
BY NormalAssumption DEF Init, QueueOK, Owners, Proc

LEMMA StepQueue == TypeOK /\ QueueOK /\ [Next]_vars => QueueOK'
<1> SUFFICES ASSUME TypeOK, QueueOK, [Next]_vars PROVE QueueOK'
  OBVIOUS
<1>1. queue \in Seq(Browser) /\ Len(queue) \in Nat
  BY DEF TypeOK
<1>2. ASSUME queue' = <<>> \/ (queue' = queue /\ conn' = conn) PROVE QueueOK'
  BY <1>2 DEF QueueOK
<1>3. CASE ParentAccepts
  <2>1. CASE ppc' = "down" /\ ProcessEnds(Parent)
    <3>1. Parent \in Proc
      BY DEF Proc
    <3>2. QED
      BY <1>2, <2>1, <3>1, EndsShape
  <2>2. CASE queue # <<>> /\ pcur' = Head(queue) /\ queue' = Tail(queue)
               /\ conn' = [conn EXCEPT ![pcur'] = "open"]
    <3>1. Len(queue') = Len(queue) - 1 /\ \A i \in 1 .. Len(queue') : queue'[i] = queue[i + 1]
      BY <1>1, <2>2
    <3>2. pcur' = queue[1] /\ Len(queue) > 0
      BY <1>1, <2>2
    <3>3. ASSUME NEW i \in 1 .. Len(queue') PROVE conn'[queue'[i]] = "queued"
      <4>1. i + 1 \in 1 .. Len(queue) /\ 1 \in 1 .. Len(queue) /\ i + 1 # 1
        BY <1>1, <3>1, <3>2
      <4>2. queue[i + 1] # queue[1] /\ conn[queue[i + 1]] = "queued"
        BY <4>1 DEF QueueOK
      <4>3. queue[i + 1] \in Browser
        BY <1>1, <4>1
      <4>4. QED
        BY <2>2, <3>1, <3>2, <4>2, <4>3 DEF TypeOK
    <3>4. ASSUME NEW i \in 1 .. Len(queue'), NEW j \in 1 .. Len(queue'), queue'[i] = queue'[j]
          PROVE  i = j
      <4>1. i + 1 \in 1 .. Len(queue) /\ j + 1 \in 1 .. Len(queue)
        BY <1>1, <3>1
      <4>2. i + 1 = j + 1
        BY <3>1, <3>4, <4>1 DEF QueueOK
      <4>3. QED
        BY <1>1, <3>1, <4>2
    <3>5. QED
      BY <3>3, <3>4 DEF QueueOK
  <2>3. QED
    BY <1>3, <2>1, <2>2 DEF ParentAccepts
<1>4. CASE ParentForks \/ ParentCloses
  BY <1>2, <1>4 DEF ParentForks, ParentCloses, browserVars
<1>5. ASSUME NEW b \in Browser, ChildStep(b) PROVE QueueOK'
  BY <1>2, <1>5, ChildOwners
<1>6. ASSUME NEW b \in Browser, BrowserConnects(b) PROVE QueueOK'
  <2>1. queue' = Append(queue, b) /\ conn[b] = "away" /\ conn' = [conn EXCEPT ![b] = "queued"]
    BY <1>6 DEF BrowserConnects
  <2>2. /\ Len(queue') = Len(queue) + 1 /\ queue'[Len(queue) + 1] = b
        /\ \A i \in 1 .. Len(queue) : queue'[i] = queue[i]
    BY <1>1, <2>1
  <2>3. \A i \in 1 .. Len(queue') : i \in 1 .. Len(queue) \/ i = Len(queue) + 1
    BY <1>1, <2>2
  <2>4. \A i \in 1 .. Len(queue) : queue[i] \in Browser /\ queue[i] # b
    BY <1>1, <2>1 DEF QueueOK
  <2>5. \A i \in 1 .. Len(queue') : conn'[queue'[i]] = "queued"
    BY <2>1, <2>2, <2>3, <2>4 DEF QueueOK, TypeOK
  <2>6. \A i, j \in 1 .. Len(queue') : queue'[i] = queue'[j] => i = j
    BY <2>2, <2>3, <2>4 DEF QueueOK
  <2>7. QED
    BY <2>5, <2>6 DEF QueueOK
<1>7. ASSUME NEW b \in Browser,
             BrowserSends(b) \/ BrowserLeaves(b) \/ ServerSends(b) \/ ServerEnds(b)
      PROVE  QueueOK'
  BY <1>2, <1>7 DEF BrowserSends, BrowserLeaves, ServerSends, ServerEnds, sockVars, browserVars
<1>8. CASE UNCHANGED vars
  BY <1>2, <1>8 DEF vars, sockVars, browserVars
<1>9. QED
  BY <1>3, <1>4, <1>5, <1>6, <1>7, <1>8 DEF Next, ParentStep

\* Owners, for one connection.
OwnersOf(b) ==
  /\ conn[b] # "open" => child[b] = "none" /\ \A p \in Proc : b \notin held[p]
  /\ child[b] \notin {"none", "ended"} => b \in held[b]
  /\ child[b] = "none" => b \notin held[b]
  /\ (conn[b] = "open" /\ child[b] = "none" /\ ~(ppc = "fork" /\ pcur = b)) => room = 0

LEMMA StepOwners == TypeOK /\ OwnOnly /\ QueueOK /\ Owners /\ [Next]_vars => Owners'
<1> SUFFICES ASSUME TypeOK, OwnOnly, QueueOK, Owners, [Next]_vars PROVE Owners'
  OBVIOUS
<1>1. /\ held \in [Proc -> SUBSET Browser] /\ Parent \in Proc /\ Browser \subseteq Proc
      /\ Parent \notin Browser
      /\ conn \in [Browser -> {"away", "queued", "open", "refused"}]
      /\ DOMAIN child = Browser
  BY NormalAssumption DEF TypeOK, Proc
<1>2. \A b \in Browser : OwnersOf(b)
  BY DEF Owners, OwnersOf
<1>3. ASSUME \A b \in Browser : OwnersOf(b)', ppc' = "fork" => child'[pcur'] = "none"
      PROVE  Owners'
  BY <1>3 DEF Owners, OwnersOf
<1>4. CASE ParentAccepts
  <2>1. held[Parent] = {} /\ ppc = "accept" /\ UNCHANGED <<child, room>>
    BY <1>4 DEF OwnOnly, ParentAccepts, childVars
  <2>2. CASE ppc' = "down" /\ ProcessEnds(Parent)
    <3>1. held' = [held EXCEPT ![Parent] = {}]
      BY <1>1, <2>2, EndsShape
    <3>2. \A p \in Proc : held'[p] = held[p]
      BY <1>1, <2>1, <3>1
    <3>3. \A b \in Browser : conn'[b] = "open" <=> conn[b] = "open"
      BY <1>1, <2>2, EndsShape
    <3>4. \A b \in Browser : OwnersOf(b)'
      BY <1>1, <1>2, <2>1, <2>2, <3>2, <3>3 DEF OwnersOf
    <3>5. QED
      BY <1>3, <2>2, <3>4
  <2>3. CASE queue # <<>> /\ pcur' = Head(queue) /\ ppc' = "fork"
               /\ conn' = [conn EXCEPT ![pcur'] = "open"]
               /\ held' = [held EXCEPT ![Parent] = held[Parent] \cup {pcur'}]
    <3>1. pcur' \in Browser /\ conn[pcur'] = "queued"
      <4>1. queue \in Seq(Browser) /\ Len(queue) \in Nat /\ Len(queue) > 0
        BY <2>3 DEF TypeOK
      <4>2. 1 \in 1 .. Len(queue) /\ pcur' = queue[1] /\ queue[1] \in Browser
        BY <2>3, <4>1
      <4>3. QED
        BY <4>2 DEF QueueOK
    <3>2. child[pcur'] = "none" /\ \A p \in Proc : pcur' \notin held[p]
      BY <1>2, <3>1 DEF OwnersOf
    <3>3. \A b \in Browser : held'[b] = held[b]
      BY <1>1, <2>3
    <3>4. ASSUME NEW b \in Browser PROVE OwnersOf(b)'
      <4>1. CASE b = pcur'
        BY <1>1, <2>1, <2>3, <3>1, <3>2, <3>3, <4>1 DEF OwnersOf
      <4>2. CASE b # pcur'
        <5>1. conn'[b] = conn[b] /\ \A p \in Proc : b \in held'[p] <=> b \in held[p]
          BY <1>1, <2>1, <2>3, <4>2
        <5>2. QED
          BY <1>1, <1>2, <2>1, <2>3, <3>3, <4>2, <5>1 DEF OwnersOf
      <4>3. QED
        BY <4>1, <4>2
    <3>5. QED
      BY <1>3, <2>1, <3>2, <3>4
  <2>4. QED
    BY <1>4, <2>2, <2>3 DEF ParentAccepts
<1>5. CASE ParentForks
  <2>1. pcur \in Browser /\ pcur # Parent /\ held[Parent] = {pcur} /\ child[pcur] = "none"
    BY <1>5, Busy DEF ParentForks, Owners
  <2>2. ppc = "fork" /\ ppc' = "close" /\ UNCHANGED <<pcur, conn>>
    BY <1>5 DEF ParentForks, browserVars
  <2>3. conn[pcur] = "open"
    BY <1>1, <1>2, <2>1 DEF OwnersOf
  <2>4. CASE room > 0
    <3>1. /\ child' = [child EXCEPT ![pcur] = "read"]
          /\ held' = [held EXCEPT ![pcur] = {pcur}]
      BY <1>5, <2>1, <2>4 DEF ParentForks
    <3>2. ASSUME NEW b \in Browser PROVE OwnersOf(b)'
      <4>1. CASE b = pcur
        BY <1>1, <2>1, <2>2, <2>3, <3>1, <4>1 DEF OwnersOf
      <4>2. CASE b # pcur
        <5>1. conn[b] = "open" => child[b] # "none"
          BY <1>2, <2>4, <4>2 DEF OwnersOf
        <5>2. child'[b] = child[b] /\ \A p \in Proc : b \in held'[p] => b \in held[p]
          BY <1>1, <3>1, <4>2
        <5>3. held'[b] = held[b]
          BY <1>1, <3>1, <4>2
        <5>4. QED
          BY <1>1, <1>2, <2>2, <5>1, <5>2, <5>3 DEF OwnersOf
      <4>3. QED
        BY <4>1, <4>2
    <3>3. QED
      BY <1>3, <2>2, <3>2
  <2>5. CASE room = 0
    <3>1. UNCHANGED <<child, room, held>>
      BY <1>5, <2>5 DEF ParentForks, childVars
    <3>2. \A b \in Browser : OwnersOf(b)'
      BY <1>2, <2>2, <2>5, <3>1 DEF OwnersOf
    <3>3. QED
      BY <1>3, <2>2, <3>2
  <2>6. QED
    BY <2>4, <2>5, NormalAssumption DEF TypeOK
<1>6. CASE ParentCloses
  <2>1. UNCHANGED <<conn, child, room, pcur>> /\ ppc = "close" /\ ppc' = "accept"
    BY <1>6 DEF ParentCloses, browserVars, childVars
  <2>2. held' = [held EXCEPT ![Parent] = held[Parent] \ {pcur}]
    BY <1>6 DEF ParentCloses
  <2>3. \A b \in Browser : held'[b] = held[b] /\ \A p \in Proc : b \in held'[p] => b \in held[p]
    BY <1>1, <2>2
  <2>4. \A b \in Browser : OwnersOf(b)'
    BY <1>1, <1>2, <2>1, <2>3 DEF OwnersOf
  <2>5. QED
    BY <1>3, <2>1, <2>4
<1>7. ASSUME NEW b \in Browser, ChildStep(b) PROVE Owners'
  <2>1. child[b] \notin {"none", "ended"} /\ conn[b] = "open"
    BY <1>2, <1>7, ChildShape DEF OwnersOf
  <2>2. /\ \A a \in Browser : conn'[a] = "open" <=> conn[a] = "open"
        /\ \/ child'[b] = "ended" /\ held' = [held EXCEPT ![b] = {}]
           \/ child'[b] \notin {"none", "ended"} /\ held' = held
        /\ \A a \in Browser : a # b => child'[a] = child[a]
        /\ UNCHANGED <<ppc, pcur, room>>
    BY <1>7, ChildOwners
  <2>3. OwnersOf(b)'
    BY <1>1, <1>2, <2>1, <2>2 DEF OwnersOf
  <2>4. ASSUME NEW a \in Browser, a # b PROVE OwnersOf(a)'
    <3>1. held'[a] = held[a] /\ \A p \in Proc : a \in held'[p] => a \in held[p]
      BY <1>1, <2>2, <2>4
    <3>2. QED
      BY <1>1, <1>2, <2>2, <2>4, <3>1 DEF OwnersOf
  <2>5. ppc' = "fork" => child'[pcur'] = "none"
    BY <2>1, <2>2, Busy DEF Owners
  <2>6. QED
    BY <1>3, <2>3, <2>4, <2>5
<1>8. CASE Outside \/ UNCHANGED vars
  <2>1. UNCHANGED <<ppc, pcur, room, child, held>>
    BY <1>8, OutsideShape
  <2>2. \A b \in Browser : conn'[b] = "open" <=> conn[b] = "open"
    BY <1>1, <1>8 DEF Outside, BrowserConnects, BrowserSends, BrowserLeaves, ServerSends,
       ServerEnds, vars, browserVars
  <2>3. \A b \in Browser : OwnersOf(b)'
    BY <1>2, <2>1, <2>2 DEF OwnersOf
  <2>4. QED
    BY <1>3, <2>1, <2>3 DEF Owners
<1>9. QED
  BY <1>4, <1>5, <1>6, <1>7, <1>8, Steps
-----------------------------------------------------------------------------
(***************************************************************************)
(* The answers.                                                            *)
(***************************************************************************)

AnswerOK == \A b \in Browser : Progress(b) /\ Settled(b)

LEMMA InitAnswer == Init => AnswerOK
BY DEF Init, AnswerOK, Progress, Settled

\* A connection nothing happens to.
LEMMA SameAnswer ==
  ASSUME NEW b \in Browser, Progress(b), Settled(b),
         child'[b] = child[b], srv'[b] = srv[b], out'[b] = out[b], parts'[b] = parts[b],
         req'[b] = req[b], b \in gone => b \in gone'
  PROVE  Progress(b)' /\ Settled(b)'
BY DEF Progress, Settled, Bad

\* What a child does to its own connection.
LEMMA ChildAnswer ==
  ASSUME TypeOK, NEW b \in Browser, Progress(b), Settled(b), ChildStep(b)
  PROVE  Progress(b)' /\ Settled(b)'
<1>1. /\ UNCHANGED <<gone, req, parts>>
      /\ child \in [Browser -> {"none", "read", "connect", "send", "relay", "reply",
                               "close", "ended"}]
      /\ srv \in [Browser -> {"none", "open", "closed", "reset"}]
      /\ parts[b] \in Nat
      /\ out \in [Browser -> Seq(Item)]
  BY ChildShape, NormalAssumption DEF TypeOK
<1> USE DEF ChildEnds, ChildGoes, srvVars
<1>2. CASE ChildReads(b)
  <2>1. UNCHANGED <<srv, out>>
    BY <1>2 DEF ChildReads
  <2>2. \/ child'[b] = "connect" /\ req[b] = "get"
        \/ child'[b] = "reply"
        \/ child'[b] = "ended" /\ req[b] = "nohost"
    BY <1>1, <1>2 DEF ChildReads
  <2>3. child[b] = "read"
    BY <1>2 DEF ChildReads
  <2>4. QED
    BY <1>1, <2>1, <2>2, <2>3 DEF Progress, Settled, Bad
<1>3. CASE ChildConnects(b)
  <2>1. \/ child'[b] = "send" /\ srv'[b] = "open"
        \/ child'[b] = "ended" /\ srv'[b] = srv[b]
    <3>1. \/ child' = [child EXCEPT ![b] = "send"] /\ srv' = [srv EXCEPT ![b] = "open"]
          \/ child' = [child EXCEPT ![b] = "ended"] /\ srv' = srv
      BY <1>3 DEF ChildConnects
    <3>2. QED
      BY <1>1, <3>1
  <2>2. child[b] = "connect" /\ out' = out
    BY <1>3 DEF ChildConnects
  <2>3. QED
    BY <1>1, <2>1, <2>2 DEF Progress, Settled, Bad
<1>4. CASE ChildSends(b)
  <2>1. child'[b] = "relay" \/ (child'[b] = "ended" /\ srv[b] # "open")
    BY <1>1, <1>4 DEF ChildSends
  <2>2. child[b] = "send" /\ UNCHANGED <<srv, out>>
    BY <1>4 DEF ChildSends
  <2>3. Len(<<>>) = 0 /\ <<>> # <<Bad(b)>>
    OBVIOUS
  <2>4. QED
    BY <1>1, <2>1, <2>2, <2>3 DEF Progress, Settled, Bad
<1>5. CASE ChildRelays(b)
  <2>1. child[b] = "relay" /\ srv' = srv /\ Len(out[b]) < parts[b]
    BY <1>5 DEF ChildRelays
  <2>2. CASE b \in gone /\ child'[b] = "ended"
    BY <1>1, <2>1, <2>2 DEF Progress, Settled, Bad
  <2>3. CASE child'[b] = "relay" /\ out'[b] = Append(out[b], Part(b, Len(out[b]) + 1))
    <3>1. Len(out'[b]) = Len(out[b]) + 1 /\ Len(out[b]) \in Nat
      BY <1>1, <2>3
    <3>2. out'[b][Len(out[b]) + 1] = Part(b, Len(out[b]) + 1)
      BY <1>1, <2>3
    <3>3. out'[b] # <<Bad(b)>>
      <4>1. SUFFICES ASSUME out'[b] = <<Bad(b)>> PROVE FALSE
        OBVIOUS
      <4>2. Len(out[b]) = 0 /\ out'[b][1] = Bad(b)
        BY <3>1, <4>1
      <4>3. QED
        BY <3>2, <4>2 DEF Part, Bad
    <3>4. QED
      BY <1>1, <2>1, <2>3, <3>1, <3>3 DEF Progress, Settled, Bad
  <2>4. QED
    BY <1>1, <1>5, <2>2, <2>3 DEF ChildRelays, SendsBrowser
<1>6. CASE ChildStops(b)
  <2>1. child[b] = "relay" /\ child'[b] = "close" /\ UNCHANGED <<srv, out>>
    BY <1>1, <1>6 DEF ChildStops
  <2>2. (srv[b] = "closed" /\ Len(out[b]) = parts[b]) \/ srv[b] = "reset"
    BY <1>6 DEF ChildStops
  <2>3. Len(<<>>) = 0
    OBVIOUS
  <2>4. QED
    BY <1>1, <2>1, <2>2, <2>3 DEF Progress, Settled, Bad
<1>7. CASE ChildReplies(b)
  <2>1. child[b] = "reply" /\ srv' = srv
    BY <1>7 DEF ChildReplies
  <2>2. CASE b \in gone /\ child'[b] = "ended"
    BY <1>1, <2>1, <2>2 DEF Progress, Settled, Bad
  <2>3. CASE child'[b] = "close" /\ out'[b] = Append(out[b], Bad(b))
    <3>1. out'[b] # <<>>
      <4>1. out[b] \in Seq(Item) /\ Bad(b) \in Item
        BY <1>1, Items
      <4>2. Len(Append(out[b], Bad(b))) = Len(out[b]) + 1 /\ Len(out[b]) \in Nat
        BY <4>1
      <4>3. Len(out'[b]) # 0 /\ Len(<<>>) = 0
        BY <2>3, <4>2
      <4>4. QED
        BY <4>3
    <3>2. srv'[b] = "none" /\ parts'[b] = 0 /\ child'[b] = "close"
      BY <1>1, <2>1, <2>3 DEF Progress
    <3>3. Progress(b)'
      BY <3>2 DEF Progress
    <3>4. Settled(b)'
      BY <3>1, <3>2 DEF Settled
    <3>5. QED
      BY <3>3, <3>4
  <2>4. QED
    BY <1>1, <1>7, <2>2, <2>3 DEF ChildReplies, SendsBrowser
<1>8. CASE ChildCloses(b)
  <2>1. child[b] = "close" /\ child'[b] = "ended" /\ UNCHANGED <<srv, out>>
    BY <1>1, <1>8 DEF ChildCloses
  <2>2. QED
    BY <1>1, <2>1 DEF Progress, Settled, Bad
<1>9. QED
  BY <1>2, <1>3, <1>4, <1>5, <1>6, <1>7, <1>8 DEF ChildStep

LEMMA ChildFrame ==
  ASSUME TypeOK, NEW b \in Browser, ChildStep(b), NEW a \in Browser, a # b
  PROVE  srv'[a] = srv[a] /\ out'[a] = out[a]
<1>1. srv' = srv \/ srv' = [srv EXCEPT ![b] = "open"]
  BY DEF ChildStep, ChildReads, ChildConnects, ChildSends, ChildRelays, ChildStops,
     ChildReplies, ChildCloses, srvVars
<1>2. out' = out \/ \E m : out' = [out EXCEPT ![b] = Append(@, m)]
  BY DEF ChildStep, ChildReads, ChildConnects, ChildSends, ChildRelays, ChildStops,
     ChildReplies, ChildCloses, SendsBrowser
<1>3. QED
  BY <1>1, <1>2 DEF TypeOK

LEMMA StepAnswer == TypeOK /\ Owners /\ AnswerOK /\ [Next]_vars => AnswerOK'
<1> SUFFICES ASSUME TypeOK, Owners, AnswerOK, [Next]_vars, NEW b \in Browser
             PROVE  Progress(b)' /\ Settled(b)'
  BY DEF AnswerOK
<1>1. Progress(b) /\ Settled(b)
  BY DEF AnswerOK
<1>2. CASE ParentStep
  <2>1. UNCHANGED <<gone, req, srv, parts, out>>
    BY <1>2 DEF ParentStep, ParentAccepts, ParentForks, ParentCloses, browserVars, srvVars
  <2>2. child'[b] = child[b] \/ (child[b] = "none" /\ child'[b] = "read")
    BY <1>2 DEF ParentStep, ParentAccepts, ParentForks, ParentCloses, childVars, TypeOK, Owners
  <2>3. CASE child'[b] = child[b]
    BY <1>1, <2>1, <2>3, SameAnswer
  <2>4. CASE child[b] = "none" /\ child'[b] = "read"
    BY <1>1, <2>1, <2>4 DEF Progress, Settled, Bad
  <2>5. QED
    BY <2>2, <2>3, <2>4
<1>3. ASSUME NEW a \in Browser, ChildStep(a) PROVE Progress(b)' /\ Settled(b)'
  <2>1. CASE a = b
    BY <1>1, <1>3, <2>1, ChildAnswer
  <2>2. CASE a # b
    <3>1. child'[b] = child[b] /\ UNCHANGED <<gone, req, parts>>
      BY <1>3, <2>2, ChildOwners, ChildShape
    <3>2. QED
      BY <1>1, <1>3, <2>2, <3>1, ChildFrame, SameAnswer
  <2>3. QED
    BY <2>1, <2>2
<1>4. ASSUME NEW a \in Browser, BrowserConnects(a) \/ BrowserLeaves(a)
      PROVE  Progress(b)' /\ Settled(b)'
  <2>1. UNCHANGED <<req, child, srv, parts, out>> /\ (b \in gone => b \in gone')
    BY <1>4 DEF BrowserConnects, BrowserLeaves, childVars, srvVars
  <2>2. QED
    BY <1>1, <2>1, SameAnswer
<1>5. ASSUME NEW a \in Browser, BrowserSends(a) PROVE Progress(b)' /\ Settled(b)'
  <2>1. UNCHANGED <<gone, child, srv, parts, out>>
    BY <1>5 DEF BrowserSends, childVars, srvVars
  <2>2. req'[b] = req[b] \/ req[b] \notin {"get", "nohost"}
    BY <1>5 DEF BrowserSends, TypeOK
  <2>3. QED
    BY <1>1, <2>1, <2>2 DEF Progress, Settled, Bad
<1>6. ASSUME NEW a \in Browser, ServerSends(a) PROVE Progress(b)' /\ Settled(b)'
  <2>1. UNCHANGED <<gone, req, child, srv, out>>
    BY <1>6 DEF ServerSends, browserVars, childVars
  <2>2. CASE a # b
    <3>1. parts'[b] = parts[b]
      BY <1>6, <2>2 DEF ServerSends, TypeOK
    <3>2. QED
      BY <1>1, <2>1, <3>1, SameAnswer
  <2>3. CASE a = b
    <3>1. srv[b] = "open" /\ child[b] \in {"relay", "ended"} /\ parts'[b] = parts[b] + 1
      BY <1>6, <2>3 DEF ServerSends, TypeOK
    <3>2. parts[b] \in Nat /\ Len(out[b]) \in Nat
      BY NormalAssumption DEF TypeOK
    <3>3. QED
      BY <1>1, <2>1, <3>1, <3>2 DEF Progress, Settled, Bad
  <2>4. QED
    BY <2>2, <2>3
<1>7. ASSUME NEW a \in Browser, ServerEnds(a) PROVE Progress(b)' /\ Settled(b)'
  <2>1. UNCHANGED <<gone, req, child, parts, out>>
    BY <1>7 DEF ServerEnds, browserVars, childVars
  <2>2. srv'[b] = srv[b] \/ (srv[b] = "open" /\ srv'[b] \in {"closed", "reset"})
    BY <1>7 DEF ServerEnds, TypeOK
  <2>3. QED
    BY <1>1, <2>1, <2>2 DEF Progress, Settled, Bad
<1>8. CASE UNCHANGED vars
  BY <1>1, <1>8, SameAnswer DEF vars, browserVars, childVars, srvVars
<1>9. QED
  BY <1>2, <1>3, <1>4, <1>5, <1>6, <1>7, <1>8 DEF Next

-----------------------------------------------------------------------------
(***************************************************************************)
(* The theorems.                                                           *)
(***************************************************************************)

LEMMA InitInv == Init => IInv
BY InitType, InitOwn, InitQueue, InitAnswer DEF IInv, AnswerOK

LEMMA StepInv == IInv /\ [Next]_vars => IInv'
<1> SUFFICES ASSUME IInv, [Next]_vars PROVE IInv'
  OBVIOUS
<1>1. TypeOK /\ OwnOnly /\ QueueOK /\ Owners /\ AnswerOK
  BY DEF IInv, AnswerOK
<1>2. TypeOK' /\ OwnOnly' /\ QueueOK' /\ Owners' /\ AnswerOK'
  BY <1>1, StepType, StepOwn, StepQueue, StepOwners, StepAnswer
<1>3. QED
  BY <1>2 DEF IInv, AnswerOK

\* The inductive invariant holds in every state.
THEOREM Invariance == Spec => []IInv
BY InitInv, StepInv, PTL DEF Spec

\* Of a closed connection no child runs.
LEMMA ClosedChild ==
  ASSUME IInv, NEW b \in Browser, Closed(b)
  PROVE  child[b] \in {"none", "ended"} /\ (child[b] = "none" => room = 0)
<1>1. b \in Proc /\ Parent \in Proc
  BY DEF Proc
<1>2. b \notin held[b] /\ b \notin held[Parent] /\ conn[b] = "open"
  BY <1>1 DEF Closed
<1>3. ~(ppc = "fork" /\ pcur = b)
  BY <1>2 DEF IInv, OwnOnly
<1>4. QED
  BY <1>2, <1>3 DEF IInv, Owners

\* A browser that stays gets all its server sent before its connection is closed.
THEOREM AnswersWhole == Spec => []WholeAnswer
<1>1. IInv => WholeAnswer
  <2> SUFFICES ASSUME IInv, NEW b \in Browser, Closed(b), b \notin gone, parts[b] > 0,
                      srv[b] # "reset"
               PROVE  Len(out[b]) = parts[b]
    BY DEF WholeAnswer
  <2>1. child[b] \in {"none", "ended"} /\ Progress(b) /\ Settled(b) /\ parts[b] \in Nat
    BY ClosedChild, NormalAssumption DEF IInv, TypeOK
  <2>2. parts[b] # 0
    BY <2>1
  <2>3. child[b] = "ended"
    BY <2>1, <2>2 DEF Progress
  <2>4. QED
    BY <2>1, <2>3 DEF Settled
<1>2. QED
  BY <1>1, Invariance, PTL

\* A connection is closed without a byte only for the reasons SilentClose gives.
THEOREM ClosedInSilence == Spec => []SilentClose
<1>1. IInv => SilentClose
  <2> SUFFICES ASSUME IInv, NEW b \in Browser, Closed(b), b \notin gone, out[b] = <<>>
               PROVE  \/ req[b] = "nohost"
                      \/ req[b] = "get" /\ (srv[b] \in {"none", "reset"} \/ parts[b] = 0)
                      \/ child[b] = "none" /\ room = 0
    BY DEF SilentClose
  <2>1. child[b] \in {"none", "ended"} /\ (child[b] = "none" => room = 0) /\ Settled(b)
    BY ClosedChild DEF IInv
  <2>2. QED
    BY <2>1 DEF Settled
<1>2. QED
  BY <1>1, Invariance, PTL

-----------------------------------------------------------------------------
(***************************************************************************)
(* The refinement.  A connection is open as long as some process has it    *)
(* open, so that only accept() and the last close() are steps of it.       *)
(***************************************************************************)

LEMMA InitPromise == Init => Promise!NextInit
BY DEF Init, Promise!NextInit, ConnState

\* The state of one connection.
LEMMA StateOf ==
  ASSUME NEW b \in Browser
  PROVE  /\ ConnState[b] = "none" <=> conn[b] # "open"
         /\ ConnState[b] = "closed" <=> Closed(b)
         /\ ConnState[b] = "open" <=> conn[b] = "open" /\ \E p \in Proc : b \in held[p]
BY DEF ConnState, Closed

\* A step that changes neither who is accepted nor who holds what.
LEMMA SameState ==
  ASSUME held' = held, \A b \in Browser : conn'[b] = "open" <=> conn[b] = "open"
  PROVE  ConnState' = ConnState
BY DEF ConnState, Closed

LEMMA AcceptsPromise ==
  ASSUME IInv, ParentAccepts
  PROVE  Promise!NextNext \/ UNCHANGED <<ConnState, out>>
<1>1. TypeOK /\ OwnOnly /\ QueueOK /\ Owners /\ out' = out
  BY DEF IInv, ParentAccepts
<1>2. Parent \in Proc /\ Browser \subseteq Proc /\ held \in [Proc -> SUBSET Browser]
  BY <1>1 DEF TypeOK, Proc
<1>3. CASE ppc' = "down" /\ ProcessEnds(Parent)
  <2>1. held[Parent] = {} /\ held' = [held EXCEPT ![Parent] = {}]
    BY <1>1, <1>3 DEF OwnOnly, ParentAccepts, ProcessEnds
  <2>2. held' = held
    BY <1>2, <2>1
  <2>3. QED
    BY <1>1, <1>2, <1>3, <2>2, EndsShape, SameState
<1>4. CASE /\ queue # <<>> /\ pcur' = Head(queue)
           /\ conn' = [conn EXCEPT ![pcur'] = "open"]
           /\ held' = [held EXCEPT ![Parent] = held[Parent] \cup {pcur'}]
  <2>1. pcur' \in Browser /\ conn[pcur'] = "queued" /\ conn'[pcur'] = "open"
    <3>1. 1 \in 1 .. Len(queue) /\ pcur' = queue[1] /\ queue[1] \in Browser
      BY <1>1, <1>4 DEF TypeOK
    <3>2. QED
      BY <1>1, <1>4, <3>1 DEF QueueOK, TypeOK
  <2>2. pcur' \in held'[Parent]
    BY <1>2, <1>4
  <2>3. ConnState[pcur'] = "none" /\ ConnState'[pcur'] = "open"
    <3>1. ConnState'[pcur'] = "open"
      BY <1>2, <2>1, <2>2 DEF ConnState, Closed
    <3>2. QED
      BY <2>1, <3>1, StateOf
  <2>4. ASSUME NEW b \in Browser, b # pcur' PROVE ConnState'[b] = ConnState[b]
    <3>1. conn'[b] = conn[b] /\ \A p \in Proc : b \in held'[p] <=> b \in held[p]
      BY <1>1, <1>2, <1>4, <2>4 DEF TypeOK
    <3>2. QED
      BY <3>1 DEF ConnState, Closed
  <2>5. ConnState' = [ConnState EXCEPT ![pcur'] = "open"]
    BY <2>1, <2>3, <2>4 DEF ConnState
  <2>6. QED
    BY <1>1, <2>1, <2>3, <2>5 DEF Promise!NextNext, Promise!Accept
<1>5. QED
  BY <1>3, <1>4 DEF ParentAccepts

\* Forking does not open or close a connection.
LEMMA ForksPromise ==
  ASSUME IInv, ParentForks
  PROVE  UNCHANGED <<ConnState, out>>
<1>1. TypeOK /\ OwnOnly /\ UNCHANGED <<conn, out>>
  BY DEF IInv, ParentForks, browserVars
<1>2. /\ Parent \in Proc /\ Browser \subseteq Proc /\ held \in [Proc -> SUBSET Browser]
      /\ pcur \in Browser /\ pcur # Parent /\ held[Parent] = {pcur}
  BY <1>1, Busy DEF TypeOK, Proc, ParentForks
<1>3. CASE held' = held
  BY <1>1, <1>3, SameState
<1>4. CASE held' = [held EXCEPT ![pcur] = {pcur}]
  <2>1. ASSUME NEW b \in Browser
        PROVE  (\A p \in Proc : b \notin held'[p]) <=> (\A p \in Proc : b \notin held[p])
    <3>1. CASE b = pcur
      <4>1. b \in held[Parent] /\ b \in held'[Parent]
        BY <1>2, <1>4, <3>1
      <4>2. QED
        BY <1>2, <4>1
    <3>2. CASE b # pcur
      <4>1. held[pcur] \subseteq {pcur}
        BY <1>1, <1>2 DEF OwnOnly
      <4>2. \A p \in Proc : b \in held'[p] <=> b \in held[p]
        BY <1>2, <1>4, <3>2, <4>1
      <4>3. QED
        BY <4>2
    <3>3. QED
      BY <3>1, <3>2
  <2>2. QED
    BY <1>1, <2>1 DEF ConnState, Closed
<1>5. QED
  BY <1>2, <1>3, <1>4 DEF ParentForks

\* A process that drops the one connection it holds: the last one closes it.
LEMMA DropsPromise ==
  ASSUME TypeOK, NEW b \in Browser, NEW q \in Proc, held[q] = {b}, conn[b] = "open",
         held' = [held EXCEPT ![q] = {}], UNCHANGED out,
         \A a \in Browser : conn'[a] = "open" <=> conn[a] = "open"
  PROVE  Promise!NextNext \/ UNCHANGED <<ConnState, out>>
<1>1. held \in [Proc -> SUBSET Browser] /\ b \in held[q]
  BY DEF TypeOK
<1>2. ConnState[b] = "open"
  BY <1>1, StateOf
<1>3. ASSUME NEW a \in Browser, a # b PROVE ConnState'[a] = ConnState[a]
  <2>1. \A p \in Proc : a \in held'[p] <=> a \in held[p]
    BY <1>1, <1>3
  <2>2. QED
    BY <2>1 DEF ConnState, Closed
<1>4. ConnState'[b] \in {"open", "closed"}
  BY DEF ConnState
<1>5. CASE ConnState'[b] = "open"
  <2>1. ConnState' = ConnState
    BY <1>2, <1>3, <1>5 DEF ConnState
  <2>2. QED
    BY <2>1
<1>6. CASE ConnState'[b] = "closed"
  <2>1. ConnState' = [a \in Browser |-> IF a \in {b} THEN "closed" ELSE ConnState[a]]
    <3>1. \A a \in Browser : ConnState'[a] = IF a \in {b} THEN "closed" ELSE ConnState[a]
      BY <1>3, <1>6
    <3>2. QED
      BY <3>1 DEF ConnState
  <2>2. Promise!Close({b})
    BY <1>2, <2>1 DEF Promise!Close
  <2>3. {b} \in SUBSET Browser
    OBVIOUS
  <2>4. QED
    BY <2>2, <2>3 DEF Promise!NextNext
<1>7. QED
  BY <1>4, <1>5, <1>6

\* A running child has its own connection open, and no other.
LEMMA ChildHolds ==
  ASSUME IInv, NEW b \in Browser, ChildStep(b)
  PROVE  conn[b] = "open" /\ held[b] = {b} /\ b \in Proc
<1>1. TypeOK /\ OwnOnly /\ Owners /\ child[b] \notin {"none", "ended"}
  BY ChildShape DEF IInv
<1>2. b \in held[b] /\ held[b] \subseteq {b} /\ conn[b] = "open"
  BY <1>1 DEF Owners, OwnOnly
<1>3. QED
  BY <1>2 DEF Proc

\* What a child sends is sent on an open connection: a part to one that was not
\* refused, or a refusal before anything else.
LEMMA SendsPromise ==
  ASSUME IInv, NEW b \in Browser, ChildStep(b), out' # out
  PROVE  /\ UNCHANGED <<conn, held>>
         /\ \/ /\ out[b] # <<Bad(b)>>
               /\ out' = [out EXCEPT ![b] = Append(@, Part(b, Len(out[b]) + 1))]
            \/ out[b] = <<>> /\ out' = [out EXCEPT ![b] = <<Bad(b)>>]
<1>1. TypeOK /\ Progress(b)
  BY DEF IInv
<1>2. CASE ChildRelays(b)
  BY <1>1, <1>2 DEF ChildRelays, SendsBrowser, Progress, sockVars
<1>3. CASE ChildReplies(b)
  <2>1. out[b] = <<>> /\ out' = [out EXCEPT ![b] = Append(out[b], Bad(b))] /\ UNCHANGED <<conn, held>>
    BY <1>1, <1>3 DEF ChildReplies, SendsBrowser, Progress, sockVars
  <2>2. Append(<<>>, Bad(b)) = <<Bad(b)>>
    OBVIOUS
  <2>3. QED
    BY <2>1, <2>2
<1>4. CASE ~ChildRelays(b) /\ ~ChildReplies(b)
  BY <1>4 DEF ChildStep, ChildReads, ChildConnects, ChildSends, ChildStops, ChildCloses
<1>5. QED
  BY <1>2, <1>3, <1>4

LEMMA ChildPromise ==
  ASSUME IInv, NEW b \in Browser, ChildStep(b)
  PROVE  Promise!NextNext \/ UNCHANGED <<ConnState, out>>
<1>1. TypeOK /\ conn[b] = "open" /\ held[b] = {b} /\ b \in Proc
  BY ChildHolds DEF IInv
<1>2. CASE out' # out
  <2>1. /\ UNCHANGED <<conn, held>>
        /\ \/ /\ out[b] # <<Bad(b)>>
              /\ out' = [out EXCEPT ![b] = Append(@, Part(b, Len(out[b]) + 1))]
           \/ out[b] = <<>> /\ out' = [out EXCEPT ![b] = <<Bad(b)>>]
    BY <1>2, SendsPromise
  <2>2. ConnState' = ConnState
    BY <2>1, SameState
  <2>3. ConnState[b] = "open"
    BY <1>1, StateOf
  <2>4. Promise!Answer(b)
    BY <2>1, <2>2, <2>3 DEF Promise!Answer, Promise!Part, Promise!Bad, Part, Bad
  <2>5. QED
    BY <2>4 DEF Promise!NextNext
<1>3. CASE out' = out
  <2>1. \A a \in Browser : conn'[a] = "open" <=> conn[a] = "open"
    BY <1>1, ChildOwners
  <2>2. held' = held \/ held' = [held EXCEPT ![b] = {}]
    BY <1>1, ChildOwners
  <2>3. CASE held' = held
    BY <1>3, <2>1, <2>3, SameState
  <2>4. CASE held' = [held EXCEPT ![b] = {}]
    BY <1>1, <1>3, <2>1, <2>4, DropsPromise
  <2>5. QED
    BY <2>2, <2>3, <2>4
<1>4. QED
  BY <1>2, <1>3

LEMMA StepPromise == IInv /\ [Next]_vars => Promise!NextNext \/ UNCHANGED <<ConnState, out>>
<1> SUFFICES ASSUME IInv, [Next]_vars
             PROVE  Promise!NextNext \/ UNCHANGED <<ConnState, out>>
  OBVIOUS
<1>1. CASE ParentCloses
  <2>1. TypeOK /\ OwnOnly /\ Owners /\ UNCHANGED <<conn, out>> /\ ppc = "close"
    BY <1>1 DEF IInv, ParentCloses, browserVars
  <2>2. pcur \in Browser /\ held[Parent] = {pcur} /\ Parent \in Proc
    BY <2>1, Busy DEF Proc
  <2>3. conn[pcur] = "open"
    BY <2>1, <2>2 DEF Owners
  <2>4. held' = [held EXCEPT ![Parent] = {}]
    BY <1>1, <2>2 DEF ParentCloses
  <2>5. QED
    BY <2>1, <2>2, <2>3, <2>4, DropsPromise
<1>2. CASE Outside \/ UNCHANGED vars
  <2>1. TypeOK /\ UNCHANGED <<held, out>>
    BY <1>2, OutsideShape DEF IInv
  <2>2. \A b \in Browser : conn'[b] = "open" <=> conn[b] = "open"
    BY <1>2, <2>1 DEF TypeOK, Outside, BrowserConnects, BrowserSends, BrowserLeaves,
       ServerSends, ServerEnds, vars, browserVars
  <2>3. QED
    BY <2>1, <2>2, SameState
<1>3. QED
  BY <1>1, <1>2, Steps, AcceptsPromise, ForksPromise, ChildPromise

\* The proxy implements what those in front of it rely on: of each connection,
\* whoever ends or closes first, an answer in order and nothing behind its end.
THEOREM Refinement == Spec => Implements
<1>1. IInv /\ [Next]_vars => [Promise!NextNext]_<<ConnState, out>>
  BY StepPromise
<1>2. QED
  BY <1>1, InitPromise, Invariance, PTL DEF Spec, Implements, Promise!NextSpec
=============================================================================
