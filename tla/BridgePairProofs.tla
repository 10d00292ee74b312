--------------------------- MODULE BridgePairProofs ---------------------------
(***************************************************************************)
(* Proofs about BridgePair, for any number of browsers, any faults and any *)
(* number of files.                                                        *)
(***************************************************************************)
EXTENDS BridgePair, FiniteSetTheorems, SequenceTheorems, TLAPS

(***************************************************************************)
(* The inductive invariant.                                                *)
(***************************************************************************)

\* A bridge that has not begun, and one without a partner, have done nothing.
Begins(b) ==
  /\ browser[b] \in {"away", "ignored"} => left[b] = NoLeft /\ got[b] = <<>> /\ resp[b] = <<>>
  /\ left[b].res \in {"none", "connect"} => right[b].res = "none"
  /\ left[b].res = "connect" => left[b].open /\ left[b].req = "none"
  /\ right[b].res = "none" => \A j \in 1 .. Len(link) : link[j] # b

\* Why a handler of an open bridge has failed, and what the others have left.
Ends(b) ==
  /\ left[b].res = "write" => left[b].c = 0
  /\ left[b].res = "done" => ~left[b].open
  /\ left[b].res = "failed" /\ left[b].open => browser[b] = "gone"
  /\ left[b].req = "failed" => breq[b] = "lost"
  /\ thread = b => left[b].res = "write"

\* The files a bridge has received are in order, and all but the one in c have
\* been passed on while it is open.
Passing(b) ==
  /\ \A k \in 1 .. Len(got[b]) : got[b][k] <= taken
  /\ \A j, k \in 1 .. Len(got[b]) : j < k => got[b][j] < got[b][k]
  /\ Len(resp[b]) <= Len(got[b])
  /\ \A k \in 1 .. Len(resp[b]) : resp[b][k] = got[b][k]
  /\ left[b].open =>
       IF left[b].c = 0 THEN Len(got[b]) = Len(resp[b])
       ELSE Len(got[b]) = Len(resp[b]) + 1 /\ got[b][Len(got[b])] = left[b].c

\* No file is received by two bridges.
Apart ==
  \A a, b \in Browser : \A j \in 1 .. Len(got[a]), k \in 1 .. Len(got[b]) :
    got[a][j] = got[b][k] => a = b

IInv ==
  /\ TypeOK
  /\ \A b \in Browser : Begins(b) /\ Ends(b) /\ Passing(b)
  /\ Apart

(***************************************************************************)
(* What the calm adds.                                                     *)
(***************************************************************************)

\* A bridge that has begun and is not over.
Live(b) == left[b].res # "none" /\ ~Over(b)

\* The files a bridge received are those of its own response.
Own(b) ==
  /\ \A k \in 1 .. Len(got[b]) : link[got[b][k]] = b
  /\ \A j \in 1 .. taken : link[j] = b => \E k \in 1 .. Len(got[b]) : got[b][k] = j

\* A bridge that was closed, though its browser has stayed, has passed on all it
\* received, and there is nothing more to come.
Finished(b) ==
  (left[b].res # "none" /\ ~left[b].open /\ browser[b] = "open" /\ breq[b] # "lost")
    => /\ Len(resp[b]) = Len(got[b])
       /\ \A j \in taken + 1 .. Len(link) : link[j] # b
       /\ right[b].res \notin {"connect", "read", "send"}

\* There is one such bridge, and the files to come are for it.
Single ==
  /\ \A a, b \in Browser : Live(a) /\ Live(b) => a = b
  /\ \A b \in Browser : Live(b) => \A j \in taken + 1 .. Len(link) : link[j] = b

Alone == calm => Single /\ \A b \in Browser : Own(b) /\ Finished(b)
\* The steps of one bridge: of its response on the left, and of the right one.
LeftResponse(b) == LeftConnect(b) \/ LeftUpRead(b) \/ LeftDownWrite(b)
RightMove(b) ==
  \/ RightConnect(b) \/ RightUpRead(b) \/ RightSent(b)
  \/ RightUpEof(b) \/ RightDownRead(b) \/ RightFails(b)
-----------------------------------------------------------------------------
(***************************************************************************)
(* Types.                                                                  *)
(***************************************************************************)

LEMMA Sizes ==
  ASSUME TypeOK
  PROVE  /\ Len(link) \in Nat /\ MaxFiles \in Nat /\ taken \in 0 .. Len(link) /\ taken \in Nat
         /\ \A b \in Browser : /\ left[b].c <= taken
                               /\ resp[b] \in Seq(1 .. Len(link)) /\ got[b] \in Seq(1 .. Len(link))
BY BridgeAssumption DEF TypeOK

LEMMA InitType == Init => TypeOK
BY BridgeAssumption DEF Init, TypeOK, LeftBridge, RightBridge, NoLeft, NoRight, Chain, RightChain

\* The right process only adds to the link, and what was in it stays.
LEMMA Longer ==
  ASSUME TypeOK, NEW b \in Browser, SendsFile(b)
  PROVE  /\ link' \in Seq(Browser) /\ Len(link') = Len(link) + 1 /\ Len(link) \in Nat
         /\ link'[Len(link) + 1] = b
         /\ \A j \in 1 .. Len(link) : link'[j] = link[j]
BY DEF TypeOK, SendsFile

LEMMA SeqGrows ==
  ASSUME NEW n \in Nat, NEW m \in Nat, n <= m, NEW s \in Seq(1 .. n)
  PROVE  s \in Seq(1 .. m)
<1>1. \A k \in 1 .. Len(s) : s[k] \in 1 .. m
  OBVIOUS
<1>2. s \in [1 .. Len(s) -> 1 .. m] /\ Len(s) \in Nat
  BY <1>1
<1>3. QED
  BY <1>2

(***************************************************************************)
(* What an update of one bridge leaves.                                    *)
(***************************************************************************)

LeftIs(f, b, o, r, q, n) ==
  /\ f \in [Browser -> LeftBridge]
  /\ f[b].open = o /\ f[b].res = r /\ f[b].req = q /\ f[b].c = n
  /\ \A a \in Browser : a # b => f[a] = left[a]

RightIs(f, b, o, r, q, k) ==
  /\ f \in [Browser -> RightBridge]
  /\ f[b].open = o /\ f[b].res = r /\ f[b].req = q /\ f[b].asked = k
  /\ \A a \in Browser : a # b => f[a] = right[a]

\* What the left process does to its bridges.
LEMMA LeftUpdates ==
  ASSUME TypeOK, NEW b \in Browser, NEW r \in Chain, NEW q \in Chain, NEW n \in Nat,
         NEW o \in BOOLEAN
  PROVE  /\ LeftIs([left EXCEPT ![b].open = o, ![b].res = r], b, o, r, left[b].req, left[b].c)
         /\ LeftIs([left EXCEPT ![b].res = r, ![b].req = q], b, left[b].open, r, q, left[b].c)
         /\ LeftIs([left EXCEPT ![b].open = o, ![b].res = r, ![b].req = q], b, o, r, q, left[b].c)
         /\ LeftIs([left EXCEPT ![b].open = o, ![b].req = q, ![b].res = r], b, o, r, q, left[b].c)
         /\ LeftIs([left EXCEPT ![b].res = r, ![b].c = n], b, left[b].open, r, left[b].req, n)
         /\ LeftIs([left EXCEPT ![b].req = q], b, left[b].open, left[b].res, q, left[b].c)
<1>1. left \in [Browser -> LeftBridge]
  BY DEF TypeOK
<1>2. LeftIs([left EXCEPT ![b].open = o, ![b].res = r], b, o, r, left[b].req, left[b].c)
  BY <1>1 DEF LeftIs, LeftBridge
<1>3. LeftIs([left EXCEPT ![b].res = r, ![b].req = q], b, left[b].open, r, q, left[b].c)
  BY <1>1 DEF LeftIs, LeftBridge
<1>4. LeftIs([left EXCEPT ![b].open = o, ![b].res = r, ![b].req = q], b, o, r, q, left[b].c)
  BY <1>1 DEF LeftIs, LeftBridge
<1>5. LeftIs([left EXCEPT ![b].open = o, ![b].req = q, ![b].res = r], b, o, r, q, left[b].c)
  BY <1>1 DEF LeftIs, LeftBridge
<1>6. LeftIs([left EXCEPT ![b].res = r, ![b].c = n], b, left[b].open, r, left[b].req, n)
  BY <1>1 DEF LeftIs, LeftBridge
<1>7. LeftIs([left EXCEPT ![b].req = q], b, left[b].open, left[b].res, q, left[b].c)
  BY <1>1 DEF LeftIs, LeftBridge
<1>8. QED
  BY <1>2, <1>3, <1>4, <1>5, <1>6, <1>7

\* What the right process does to its bridges.
LEMMA RightUpdates ==
  ASSUME TypeOK, NEW b \in Browser, NEW r \in RightChain, NEW q \in Chain,
         NEW o \in BOOLEAN, NEW k \in BOOLEAN
  PROVE  /\ RightIs([right EXCEPT ![b].open = o, ![b].res = r], b, o, r, right[b].req, right[b].asked)
         /\ RightIs([right EXCEPT ![b].res = r, ![b].req = q], b, right[b].open, r, q, right[b].asked)
         /\ RightIs([right EXCEPT ![b].open = o, ![b].res = r, ![b].req = q], b, o, r, q, right[b].asked)
         /\ RightIs([right EXCEPT ![b].res = r], b, right[b].open, r, right[b].req, right[b].asked)
         /\ RightIs([right EXCEPT ![b].open = o, ![b].res = r, ![b].asked = k], b, o, r, right[b].req, k)
         /\ RightIs([right EXCEPT ![b].asked = k, ![b].req = q], b, right[b].open, right[b].res, q, k)
         /\ RightIs([right EXCEPT ![b].open = o, ![b].req = q], b, o, right[b].res, q, right[b].asked)
<1>1. right \in [Browser -> RightBridge]
  BY DEF TypeOK
<1>2. RightIs([right EXCEPT ![b].open = o, ![b].res = r], b, o, r, right[b].req, right[b].asked)
  BY <1>1 DEF RightIs, RightBridge
<1>3. RightIs([right EXCEPT ![b].res = r, ![b].req = q], b, right[b].open, r, q, right[b].asked)
  BY <1>1 DEF RightIs, RightBridge
<1>4. RightIs([right EXCEPT ![b].open = o, ![b].res = r, ![b].req = q], b, o, r, q, right[b].asked)
  BY <1>1 DEF RightIs, RightBridge
<1>5. RightIs([right EXCEPT ![b].res = r], b, right[b].open, r, right[b].req, right[b].asked)
  BY <1>1 DEF RightIs, RightBridge
<1>6. RightIs([right EXCEPT ![b].open = o, ![b].res = r, ![b].asked = k], b, o, r, right[b].req, k)
  BY <1>1 DEF RightIs, RightBridge
<1>7. RightIs([right EXCEPT ![b].asked = k, ![b].req = q], b, right[b].open, right[b].res, q, k)
  BY <1>1 DEF RightIs, RightBridge
<1>8. RightIs([right EXCEPT ![b].open = o, ![b].req = q], b, o, right[b].res, q, right[b].asked)
  BY <1>1 DEF RightIs, RightBridge
<1>9. QED
  BY <1>2, <1>3, <1>4, <1>5, <1>6, <1>7, <1>8
-----------------------------------------------------------------------------
(***************************************************************************)
(* What each action does, in these terms.                                  *)
(***************************************************************************)

LEMMA Fields ==
  ASSUME TypeOK, NEW b \in Browser
  PROVE  /\ left[b].open \in BOOLEAN /\ left[b].res \in Chain /\ left[b].req \in Chain
         /\ left[b].c \in Nat
         /\ right[b].open \in BOOLEAN /\ right[b].res \in RightChain /\ right[b].req \in Chain
         /\ right[b].asked \in BOOLEAN
BY DEF TypeOK, LeftBridge, RightBridge

LEMMA Accepts ==
  ASSUME TypeOK, NEW b \in Browser, LeftAccept(b)
  PROVE  /\ thread = None /\ browser[b] = "away"
         /\ browser' = [browser EXCEPT ![b] = "open"]
         /\ LeftIs(left', b, TRUE, "connect", left[b].req, left[b].c)
         /\ calm' = (calm /\ taken = Len(link)
                       /\ \A a \in Browser : left[a].res = "none" \/ Over(a))
         /\ UNCHANGED <<breq, taken, thread, resp, got, right, accepts, link>>
BY LeftUpdates, Fields DEF LeftAccept, LeftRuns, Chain, rightVars

LEMMA Connects ==
  ASSUME TypeOK, NEW b \in Browser, LeftConnect(b)
  PROVE  /\ thread = None /\ left[b].res = "connect"
         /\ \/ /\ LeftIs(left', b, left[b].open, "read", "read", left[b].c)
               /\ \/ RightIs(right', b, TRUE, "connect", right[b].req, right[b].asked) /\ UNCHANGED accepts
                  \/ right' = right /\ accepts' = "no"
            \/ /\ LeftIs(left', b, FALSE, "done", "done", left[b].c)
               /\ UNCHANGED <<right, accepts>>
         /\ UNCHANGED <<browser, breq, taken, thread, resp, got, link, calm>>
<1> USE Fields DEF Chain, RightChain
<1>1. /\ thread = None /\ left[b].res = "connect"
      /\ UNCHANGED <<browser, breq, taken, thread, resp, got, link, calm>>
  BY DEF LeftConnect, LeftRuns, envVars
<1>2. CASE left' = [left EXCEPT ![b].res = "read", ![b].req = "read"] /\ RightAccepts(b)
  <2>1. LeftIs(left', b, left[b].open, "read", "read", left[b].c)
    BY <1>2, LeftUpdates
  <2>2. \/ RightIs(right', b, TRUE, "connect", right[b].req, right[b].asked) /\ UNCHANGED accepts
        \/ right' = right /\ accepts' = "no"
    <3>1. RightIs([right EXCEPT ![b].open = TRUE, ![b].res = "connect"],
                  b, TRUE, "connect", right[b].req, right[b].asked)
      BY RightUpdates
    <3>2. QED
      BY <1>2, <3>1 DEF RightAccepts
  <2>3. QED
    BY <1>1, <2>1, <2>2
<1>3. CASE /\ left' = [left EXCEPT ![b].open = FALSE, ![b].res = "done", ![b].req = "done"]
           /\ UNCHANGED <<right, accepts>>
  <2>1. LeftIs(left', b, FALSE, "done", "done", left[b].c)
    BY <1>3, LeftUpdates
  <2>2. QED
    BY <1>1, <1>3, <2>1
<1>4. QED
  BY <1>2, <1>3 DEF LeftConnect

LEMMA UpReads ==
  ASSUME TypeOK, NEW b \in Browser, LeftUpRead(b)
  PROVE  /\ thread = None /\ left[b].res = "read"
         /\ \E res \in {"write", "failed"} :
              /\ res = "failed" => ~left[b].open \/ browser[b] = "gone"
              /\ LeftIs(left', b, left[b].open, res, left[b].req, 0)
         /\ resp' = IF left[b].open /\ left[b].c # 0
                    THEN [resp EXCEPT ![b] = Append(resp[b], left[b].c)] ELSE resp
         /\ UNCHANGED <<browser, breq, taken, thread, got, right, accepts, link, calm>>
<1>1. PICK res \in {"write", "failed"} :
        /\ res = "failed" => ~left[b].open \/ browser[b] = "gone"
        /\ left' = [left EXCEPT ![b].res = res, ![b].c = 0]
  BY DEF LeftUpRead
<1>2. LeftIs(left', b, left[b].open, res, left[b].req, 0)
  <2>1. res \in Chain /\ left[b].req \in Chain /\ 0 \in Nat
    BY Fields DEF Chain
  <2>2. QED
    BY <1>1, <2>1, LeftUpdates
<1>3. QED
  BY <1>1, <1>2 DEF LeftUpRead, LeftRuns, envVars, rightVars

LEMMA DownReads ==
  ASSUME TypeOK, NEW b \in Browser, LeftDownRead(b)
  PROVE  /\ thread = None /\ left[b].open
         /\ \/ breq' = [breq EXCEPT ![b] = "forwarded"] /\ breq[b] # "lost" /\ UNCHANGED left
            \/ /\ breq' = [breq EXCEPT ![b] = "lost"]
               /\ LeftIs(left', b, left[b].open, left[b].res, "failed", left[b].c)
         /\ UNCHANGED <<browser, taken, thread, resp, got, right, accepts, link, calm>>
<1>1. left' = [left EXCEPT ![b].req = "failed"]
        => LeftIs(left', b, left[b].open, left[b].res, "failed", left[b].c)
  BY LeftUpdates, Fields DEF Chain
<1>2. QED
  BY <1>1 DEF LeftDownRead, LeftRuns, rightVars

LEMMA Fails ==
  ASSUME TypeOK, NEW b \in Browser, LeftFails(b)
  PROVE  /\ thread = None
         /\ \/ left[b].res = "failed" /\ LeftIs(left', b, FALSE, "done", left[b].req, left[b].c)
            \/ /\ \/ left[b].req = "failed"
                  \/ left[b].req = "read" /\ (~left[b].open \/ browser[b] = "gone")
               /\ \E res \in {left[b].res, "failed"} :
                    /\ res # left[b].res => left[b].res = "write"
                    /\ LeftIs(left', b, FALSE, res, "done", left[b].c)
         /\ UNCHANGED <<browser, breq, taken, thread, resp, got, right, accepts, link, calm>>
<1> USE Fields DEF Chain, RightChain
<1>1. thread = None /\ UNCHANGED <<browser, breq, taken, thread, resp, got, right, accepts, link, calm>>
  BY DEF LeftFails, LeftRuns, envVars, rightVars
<1>2. left' = [left EXCEPT ![b].open = FALSE, ![b].res = "done"]
        => LeftIs(left', b, FALSE, "done", left[b].req, left[b].c)
  BY LeftUpdates
<1>3. ASSUME NEW res \in {left[b].res, "failed"},
             left' = [left EXCEPT ![b].open = FALSE, ![b].req = "done", ![b].res = res]
      PROVE  LeftIs(left', b, FALSE, res, "done", left[b].c)
  <2>1. res \in Chain /\ "done" \in Chain
    OBVIOUS
  <2>2. QED
    BY <1>3, <2>1, LeftUpdates
<1>4. QED
  BY <1>1, <1>2, <1>3 DEF LeftFails

LEMMA Receives ==
  ASSUME TypeOK, LeftReceives
  PROVE  /\ thread \in Browser
         /\ taken + 1 \in 1 .. Len(link) /\ taken' = taken + 1
         /\ got' = [got EXCEPT ![thread] = Append(got[thread], taken + 1)]
         /\ LeftIs(left', thread, left[thread].open,
                   IF left[thread].open THEN "read" ELSE "failed", left[thread].req, taken + 1)
         /\ thread' = None
         /\ UNCHANGED <<browser, breq, resp, right, accepts, link, calm>>
<1>1. /\ thread \in Browser /\ taken + 1 \in 1 .. Len(link) /\ taken' = taken + 1
      /\ got' = [got EXCEPT ![thread] = Append(got[thread], taken + 1)] /\ thread' = None
      /\ UNCHANGED <<browser, breq, resp, right, accepts, link, calm>>
  BY DEF LeftReceives, ReceivesFile, TypeOK, envVars, rightVars
<1>2. taken + 1 \in Nat
  BY <1>1
<1>3. left' = [left EXCEPT ![thread].res = IF left[thread].open THEN "read" ELSE "failed",
                           ![thread].c = taken + 1]
  BY DEF LeftReceives
<1>4. LeftIs(left', thread, left[thread].open,
             IF left[thread].open THEN "read" ELSE "failed", left[thread].req, taken + 1)
  <2>1. (IF left[thread].open THEN "read" ELSE "failed") \in Chain
    BY DEF Chain
  <2>2. QED
    BY <1>1, <1>2, <1>3, <2>1, LeftUpdates, Fields
<1>5. QED
  BY <1>1, <1>4

LEMMA TimesOut ==
  ASSUME TypeOK, LeftTimesOut
  PROVE  /\ thread \in Browser /\ taken = Len(link)
         /\ LeftIs(left', thread, FALSE, "failed", left[thread].req, left[thread].c)
         /\ calm' = (calm /\ ~UnderWay(thread))
         /\ thread' = None
         /\ UNCHANGED <<browser, breq, taken, resp, got, right, accepts, link>>
<1>1. thread \in Browser
  BY DEF LeftTimesOut, TypeOK
<1>2. LeftIs(left', thread, FALSE, "failed", left[thread].req, left[thread].c)
  BY <1>1, LeftUpdates, Fields DEF LeftTimesOut, Chain
<1>3. QED
  BY <1>1, <1>2 DEF LeftTimesOut, envVars, rightVars

\* The right process does not touch the left one; a bridge there that is done
\* stays so, and one that has not begun does not begin here.
LEMMA RightMoves ==
  ASSUME TypeOK, NEW b \in Browser, RightMove(b)
  PROVE  /\ right' \in [Browser -> RightBridge]
         /\ \A a \in Browser : a # b => right'[a] = right[a]
         /\ right[b].res = "none" <=> right'[b].res = "none"
         /\ right[b].res \notin {"connect", "read", "send"} => right'[b].res \notin {"connect", "read", "send"}
         /\ (right[b].res = "done" /\ right[b].req = "done")
              => (right'[b].res = "done" /\ right'[b].req = "done")
         /\ breq' = breq \/ (breq' = [breq EXCEPT ![b] = "read"] /\ breq[b] = "forwarded")
         /\ link' = link \/ (SendsFile(b) /\ right[b].res = "read" /\ Len(link) < MaxFiles)
         /\ UNCHANGED <<browser, left, taken, thread, resp, got, accepts, calm>>
<1>1. /\ right[b].open \in BOOLEAN /\ right[b].res \in RightChain /\ right[b].req \in Chain
      /\ right[b].asked \in BOOLEAN
  BY Fields
<1>0. /\ {"read", "failed", "done", "send"} \subseteq RightChain
      /\ {"read", "failed", "done"} \subseteq Chain
  BY DEF Chain, RightChain
<1>2. UNCHANGED <<browser, left, taken, thread, resp, got, accepts, calm>>
  BY DEF RightMove, RightConnect, RightUpRead, RightSent, RightUpEof, RightDownRead, RightFails,
         leftVars, envVars
<1>3. ASSUME NEW o, NEW r, NEW q, NEW k, RightIs(right', b, o, r, q, k)
      PROVE  /\ right' \in [Browser -> RightBridge]
             /\ \A a \in Browser : a # b => right'[a] = right[a]
             /\ right'[b].res = r /\ right'[b].req = q
  BY <1>3 DEF RightIs
<1>4. CASE RightConnect(b)
  <2>1. right[b].res = "connect" /\ UNCHANGED <<breq, link>>
    BY <1>4 DEF RightConnect, envVars
  <2>2. \/ RightIs(right', b, right[b].open, "read", "read", right[b].asked)
        \/ RightIs(right', b, FALSE, "done", "done", right[b].asked)
    <3>1. ASSUME NEW o \in BOOLEAN, NEW r \in {"read", "done"}
          PROVE  /\ RightIs([right EXCEPT ![b].res = r, ![b].req = r],
                            b, right[b].open, r, r, right[b].asked)
                 /\ RightIs([right EXCEPT ![b].open = o, ![b].res = r, ![b].req = r],
                            b, o, r, r, right[b].asked)
      <4>1. r \in RightChain /\ r \in Chain
        BY DEF Chain, RightChain
      <4>2. QED
        BY <1>1, <4>1, RightUpdates
    <3>2. PICK o \in BOOLEAN, r \in {"read", "done"} :
            \/ r = "read" /\ right' = [right EXCEPT ![b].res = r, ![b].req = r]
            \/ /\ r = "done" /\ o = FALSE
               /\ right' = [right EXCEPT ![b].open = o, ![b].res = r, ![b].req = r]
      BY <1>4 DEF RightConnect
    <3>3. QED
      BY <3>1, <3>2
  <2>3. QED
    BY <1>2, <1>3, <2>1, <2>2
<1>5. CASE RightUpRead(b)
  <2>1. right' = [right EXCEPT ![b].res = "send"]
    BY <1>5 DEF RightUpRead
  <2>2. RightIs(right', b, right[b].open, "send", right[b].req, right[b].asked)
    BY <1>0, <1>1, <2>1, RightUpdates
  <2>3. right[b].res = "read" /\ breq' = breq /\ SendsFile(b) /\ Len(link) < MaxFiles
    BY <1>5 DEF RightUpRead, envVars
  <2>4. QED
    BY <1>2, <1>3, <2>2, <2>3
<1>6. CASE RightUpEof(b)
  <2>1. RightIs(right', b, FALSE, "done", right[b].req, FALSE)
    BY <1>0, <1>1, <1>6, RightUpdates DEF RightUpEof
  <2>2. right[b].res = "read" /\ UNCHANGED <<breq, link>>
    BY <1>6 DEF RightUpEof, envVars
  <2>3. QED
    BY <1>2, <1>3, <2>1, <2>2
<1>7. CASE RightDownRead(b)
  <2>1. PICK q \in {"read", "failed"} : right' = [right EXCEPT ![b].asked = TRUE, ![b].req = q]
    BY <1>7 DEF RightDownRead
  <2>2. RightIs(right', b, right[b].open, right[b].res, q, TRUE)
    BY <1>0, <1>1, <2>1, RightUpdates
  <2>3. /\ right[b].req = "read" /\ link' = link
        /\ breq' = [breq EXCEPT ![b] = "read"] /\ breq[b] = "forwarded"
    BY <1>7 DEF RightDownRead
  <2>4. QED
    BY <1>2, <1>3, <2>2, <2>3
<1>8. CASE RightFails(b)
  <2>1. right' = [right EXCEPT ![b].open = FALSE, ![b].res = "done", ![b].asked = FALSE]
          => RightIs(right', b, FALSE, "done", right[b].req, FALSE)
    BY <1>0, <1>1, RightUpdates
  <2>2. right' = [right EXCEPT ![b].open = FALSE, ![b].req = "done"]
          => RightIs(right', b, FALSE, right[b].res, "done", right[b].asked)
    BY <1>0, <1>1, RightUpdates
  <2>3. UNCHANGED <<breq, link>>
    BY <1>8 DEF RightFails, envVars
  <2>4. \/ right[b].res \in {"failed", "read"} /\ RightIs(right', b, FALSE, "done", right[b].req, FALSE)
        \/ RightIs(right', b, FALSE, right[b].res, "done", right[b].asked)
    BY <1>8, <2>1, <2>2 DEF RightFails
  <2>5. CASE right[b].res \in {"failed", "read"} /\ RightIs(right', b, FALSE, "done", right[b].req, FALSE)
    <3>1. right' \in [Browser -> RightBridge] /\ (\A a \in Browser : a # b => right'[a] = right[a])
          /\ right'[b].res = "done"
      BY <1>3, <2>5
    <3>2. QED
      BY <1>2, <2>3, <2>5, <3>1
  <2>6. CASE RightIs(right', b, FALSE, right[b].res, "done", right[b].asked)
    BY <1>2, <1>3, <2>3, <2>6
  <2>7. QED
    BY <2>4, <2>5, <2>6
<1>9. CASE RightSent(b)
  <2>1. PICK r \in {"read", "failed"} : right' = [right EXCEPT ![b].res = r]
    BY <1>9 DEF RightSent
  <2>2. RightIs(right', b, right[b].open, r, right[b].req, right[b].asked)
    BY <1>0, <1>1, <2>1, RightUpdates
  <2>3. right[b].res = "send" /\ UNCHANGED <<breq, link>>
    BY <1>9 DEF RightSent, envVars
  <2>4. QED
    BY <1>2, <1>3, <2>2, <2>3
<1>10. QED
  BY <1>4, <1>5, <1>6, <1>7, <1>8, <1>9 DEF RightMove

LEMMA Dies ==
  ASSUME TypeOK, RightDies
  PROVE  /\ right' \in [Browser -> RightBridge]
         /\ \A b \in Browser :
              /\ right[b].res = "none" <=> right'[b].res = "none"
              /\ right'[b].res \in {"none", "done"} /\ (right'[b].res = "done" => right'[b].req = "done")
         /\ accepts' = "dead"
         /\ UNCHANGED <<browser, breq, left, taken, thread, resp, got, link, calm>>
<1>1. \A b \in Browser :
        right'[b] = IF right[b].res = "none" THEN NoRight
                    ELSE [open |-> FALSE, res |-> "done", req |-> "done", asked |-> FALSE]
  BY DEF RightDies
<1>2. right' \in [Browser -> RightBridge]
  BY DEF RightDies, NoRight, RightBridge, RightChain, Chain
<1>3. \A b \in Browser :
        /\ right[b].res = "none" <=> right'[b].res = "none"
        /\ right'[b].res \in {"none", "done"} /\ (right'[b].res = "done" => right'[b].req = "done")
  BY <1>1 DEF NoRight
<1>4. QED
  BY <1>2, <1>3 DEF RightDies, envVars, leftVars

-----------------------------------------------------------------------------
(***************************************************************************)
(* Type correctness.                                                       *)
(***************************************************************************)

LEMMA InC ==
  ASSUME TypeOK, NEW b \in Browser, NEW o, NEW r, NEW q, NEW n, LeftIs(left', b, o, r, q, n),
         taken' \in Nat, taken <= taken', n <= taken'
  PROVE  \A a \in Browser : left'[a].c <= taken'
<1>1. \A a \in Browser : left[a].c \in Nat /\ left[a].c <= taken
  BY Fields DEF TypeOK
<1>2. taken \in Nat
  BY DEF TypeOK
<1>3. QED
  BY <1>1, <1>2 DEF LeftIs

LEMMA StepType == TypeOK /\ [Next]_vars => TypeOK'
<1> SUFFICES ASSUME TypeOK, [Next]_vars PROVE TypeOK'
  OBVIOUS
<1>1. /\ Len(link) \in Nat /\ MaxFiles \in Nat /\ taken \in 0 .. Len(link)
      /\ \A b \in Browser : left[b].c <= taken
  BY Sizes
<1>2. ASSUME NEW b \in Browser, LeftAccept(b) PROVE TypeOK'
  <2>1. \A a \in Browser : left'[a].c <= taken'
    <3>1. \A a \in Browser : left'[a].c = left[a].c
      BY <1>2, Accepts DEF LeftIs
    <3>2. QED
      BY <1>1, <1>2, <3>1, Accepts
  <2>2. left' \in [Browser -> LeftBridge]
    BY <1>2, Accepts DEF LeftIs
  <2>3. browser' \in [Browser -> {"away", "open", "gone", "ignored"}] /\ calm' \in BOOLEAN
    BY <1>2, Accepts DEF TypeOK
  <2>4. QED
    BY <1>2, <2>1, <2>2, <2>3, Accepts DEF TypeOK
<1>3. ASSUME NEW b \in Browser, LeftConnect(b) PROVE TypeOK'
  BY <1>3, Connects DEF TypeOK, LeftIs, RightIs
<1>4. ASSUME NEW b \in Browser, LeftUpRead(b) PROVE TypeOK'
  <2>1. left' \in [Browser -> LeftBridge]
    BY <1>4, UpReads DEF LeftIs
  <2>2. resp' \in [Browser -> Seq(1 .. Len(link))]
    <3>1. CASE resp' = resp
      BY <3>1 DEF TypeOK
    <3>2. CASE left[b].c # 0 /\ resp' = [resp EXCEPT ![b] = Append(resp[b], left[b].c)]
      <4>1. left[b].c \in 1 .. Len(link) /\ resp[b] \in Seq(1 .. Len(link))
        <5>1. left[b].c \in Nat
          BY Fields
        <5>2. QED
          BY <3>2, <5>1, Sizes
      <4>2. Append(resp[b], left[b].c) \in Seq(1 .. Len(link))
        BY <4>1
      <4>3. QED
        BY <3>2, <4>2 DEF TypeOK
    <3>3. QED
      BY <1>4, <3>1, <3>2, UpReads
  <2>3. \A a \in Browser : left'[a].c <= taken
    BY <1>1, <1>4, UpReads, InC
  <2>4. QED
    BY <1>4, <2>1, <2>2, <2>3, UpReads DEF TypeOK
<1>5. ASSUME NEW b \in Browser, LeftDownWrite(b) PROVE TypeOK'
  BY <1>5 DEF LeftDownWrite, TypeOK, envVars, rightVars
<1>6. ASSUME NEW b \in Browser, LeftDownRead(b) PROVE TypeOK'
  <2>1. \A a \in Browser : left'[a].c <= taken'
    BY <1>1, <1>6, DownReads, InC
  <2>2. QED
    BY <1>6, <2>1, DownReads DEF TypeOK, LeftIs
<1>7. ASSUME NEW b \in Browser, LeftFails(b) PROVE TypeOK'
  <2>1. left' \in [Browser -> LeftBridge] /\ \A a \in Browser : left'[a].c = left[a].c
    BY <1>7, Fails DEF LeftIs
  <2>2. QED
    BY <1>7, <2>1, Fails DEF TypeOK
<1>8. CASE LeftReceives
  <2>1. got' \in [Browser -> Seq(1 .. Len(link))]
    <3>1. thread \in Browser /\ taken + 1 \in 1 .. Len(link) /\ got[thread] \in Seq(1 .. Len(link))
      BY <1>8, Receives DEF TypeOK
    <3>2. Append(got[thread], taken + 1) \in Seq(1 .. Len(link))
      BY <3>1
    <3>3. QED
      BY <1>8, <3>2, Receives DEF TypeOK
  <2>2. left' \in [Browser -> LeftBridge]
    BY <1>8, Receives DEF LeftIs
  <2>3. \A a \in Browser : left'[a].c <= taken'
    <3>1. taken' = taken + 1 /\ taken' \in Nat /\ taken <= taken'
      BY <1>1, <1>8, Receives
    <3>2. QED
      BY <1>8, <3>1, Receives, InC
  <2>4. taken' \in 0 .. Len(link')
    BY <1>1, <1>8, Receives
  <2>5. QED
    BY <1>1, <1>8, <2>1, <2>2, <2>3, <2>4, Receives DEF TypeOK
<1>9. CASE LeftTimesOut
  BY <1>9, TimesOut DEF TypeOK, LeftIs
<1>10. ASSUME NEW b \in Browser, RightMove(b)
       PROVE  TypeOK'
  <2>1. /\ right' \in [Browser -> RightBridge]
        /\ breq' = breq \/ breq' = [breq EXCEPT ![b] = "read"]
        /\ link' = link \/ (SendsFile(b) /\ Len(link) < MaxFiles)
        /\ UNCHANGED <<browser, left, taken, thread, resp, got, accepts, calm>>
    BY <1>10, RightMoves
  <2>2. breq' \in [Browser -> {"none", "forwarded", "read", "lost"}]
    BY <2>1 DEF TypeOK
  <2>3. CASE link' = link
    BY <2>1, <2>2, <2>3 DEF TypeOK
  <2>4. CASE SendsFile(b) /\ Len(link) < MaxFiles
    <3>1. link' \in Seq(Browser) /\ Len(link') = Len(link) + 1 /\ Len(link') \in Nat
      BY <1>1, <2>4, Longer
    <3>2. Len(link') <= MaxFiles /\ taken \in 0 .. Len(link')
      BY <1>1, <2>4, <3>1
    <3>3. \A s \in Seq(1 .. Len(link)) : s \in Seq(1 .. Len(link'))
      BY <1>1, <3>1, SeqGrows
    <3>4. resp \in [Browser -> Seq(1 .. Len(link'))] /\ got \in [Browser -> Seq(1 .. Len(link'))]
      BY <3>3 DEF TypeOK
    <3>5. QED
      BY <2>1, <2>2, <3>1, <3>2, <3>4 DEF TypeOK
  <2>5. QED
    BY <2>1, <2>3, <2>4
<1>11. CASE RightDies
  BY <1>11, Dies DEF TypeOK
<1>12. CASE LeftAcceptFails
  BY <1>12 DEF LeftAcceptFails, TypeOK, leftVars, rightVars
<1>13. ASSUME NEW b \in Browser, BrowserLeaves(b) PROVE TypeOK'
  BY <1>13 DEF BrowserLeaves, TypeOK, leftVars, rightVars
<1>14. CASE UNCHANGED vars
  BY <1>14 DEF vars, TypeOK, envVars, leftVars, rightVars
<1>15. QED
  BY <1>2, <1>3, <1>4, <1>5, <1>6, <1>7, <1>8, <1>9, <1>10, <1>11, <1>12, <1>13, <1>14
     DEF Next, LeftResponse, RightMove, LeftReturns

\* Every variable of both processes and of what is between them has its type.
THEOREM TypeCorrect == Spec => []TypeOK
BY InitType, StepType, PTL DEF Spec
-----------------------------------------------------------------------------
(***************************************************************************)
(* What bridges receive and pass on.                                       *)
(***************************************************************************)

OneOK(b) == Begins(b) /\ Ends(b) /\ Passing(b)

LEMMA InitOne == Init => (\A b \in Browser : OneOK(b)) /\ Apart
BY BridgeAssumption DEF Init, OneOK, Begins, Ends, Passing, Apart, NoLeft, NoRight

\* A bridge the left process does nothing for.
LEMMA Untouched ==
  ASSUME TypeOK, TypeOK', NEW b \in Browser, OneOK(b),
         left'[b] = left[b], got'[b] = got[b], resp'[b] = resp[b],
         right[b].res = "none" <=> right'[b].res = "none",
         browser'[b] \in {"away", "ignored"} => browser[b] \in {"away", "ignored"},
         browser[b] = "gone" => browser'[b] = "gone",
         breq[b] = "lost" => breq'[b] = "lost",
         thread' = b => thread = b,
         taken <= taken',
         link' = link \/ \E a \in Browser : SendsFile(a) /\ right[a].res # "none"
  PROVE  OneOK(b)'
<1>1. Begins(b)'
  <2>1. CASE link' = link
    BY <2>1 DEF OneOK, Begins
  <2>2. ASSUME NEW a \in Browser, SendsFile(a), right[a].res # "none" PROVE Begins(b)'
    <3>1. /\ Len(link') = Len(link) + 1 /\ link'[Len(link) + 1] = a /\ Len(link) \in Nat
          /\ \A j \in 1 .. Len(link) : link'[j] = link[j]
      BY <2>2, Longer
    <3>2. ASSUME right[b].res = "none", NEW j \in 1 .. Len(link') PROVE link'[j] # b
      <4>1. j \in 1 .. Len(link) \/ j = Len(link) + 1
        BY <3>1
      <4>2. QED
        BY <2>2, <3>1, <3>2, <4>1 DEF OneOK, Begins
    <3>3. QED
      BY <3>2 DEF OneOK, Begins
  <2>3. QED
    BY <2>1, <2>2
<1>2. Ends(b)'
  BY DEF OneOK, Ends
<1>3. Passing(b)'
  <2>1. taken \in Nat /\ taken' \in Nat /\ got[b] \in Seq(1 .. Len(link))
    BY DEF TypeOK
  <2>2. \A k \in 1 .. Len(got[b]) : got[b][k] \in Nat /\ got[b][k] <= taken
    BY <2>1 DEF OneOK, Passing
  <2>3. \A k \in 1 .. Len(got'[b]) : got'[b][k] <= taken'
    BY <2>1, <2>2
  <2>4. QED
    BY <2>3 DEF OneOK, Passing
<1>4. QED
  BY <1>1, <1>2, <1>3 DEF OneOK

\* A step of the left process for b leaves the other bridges alone.
LEMMA Others ==
  ASSUME TypeOK, TypeOK', NEW b \in Browser, \A a \in Browser : OneOK(a),
         \A a \in Browser : a # b => /\ left'[a] = left[a] /\ got'[a] = got[a] /\ resp'[a] = resp[a]
                                   /\ right[a].res = right'[a].res
                                   /\ browser'[a] = browser[a] /\ breq'[a] = breq[a],
         thread' \in {None, thread, b}, taken <= taken', link' = link, OneOK(b)'
  PROVE  \A a \in Browser : OneOK(a)'
BY Untouched, BridgeAssumption

LEMMA AcceptOne ==
  ASSUME TypeOK, TypeOK', \A a \in Browser : OneOK(a), NEW b \in Browser, LeftAccept(b)
  PROVE  \A a \in Browser : OneOK(a)'
<1>1. /\ left[b] = NoLeft /\ got[b] = <<>> /\ resp[b] = <<>> /\ right[b].res = "none"
      /\ \A j \in 1 .. Len(link) : link[j] # b
  <2>1. browser[b] = "away" /\ Begins(b)
    BY Accepts DEF OneOK
  <2>2. left[b] = NoLeft /\ got[b] = <<>> /\ resp[b] = <<>>
    BY <2>1 DEF Begins
  <2>3. left[b].res = "none"
    BY <2>2 DEF NoLeft
  <2>4. QED
    BY <2>1, <2>2, <2>3 DEF Begins
<1>2. /\ left'[b].open = TRUE /\ left'[b].res = "connect" /\ left'[b].req = "none" /\ left'[b].c = 0
      /\ browser'[b] = "open" /\ thread' = None
      /\ \A a \in Browser : a # b => left'[a] = left[a] /\ browser'[a] = browser[a]
      /\ UNCHANGED <<breq, taken, resp, got, right, link>>
  <2>1. left[b].req = "none" /\ left[b].c = 0
    BY <1>1 DEF NoLeft
  <2>2. /\ left'[b].open = TRUE /\ left'[b].res = "connect" /\ left'[b].req = "none"
        /\ left'[b].c = 0
        /\ \A a \in Browser : a # b => left'[a] = left[a]
    BY <2>1, Accepts DEF LeftIs
  <2>3. browser'[b] = "open" /\ \A a \in Browser : a # b => browser'[a] = browser[a]
    <3>1. browser \in [Browser -> {"away", "open", "gone", "ignored"}]
      BY DEF TypeOK
    <3>2. browser' = [browser EXCEPT ![b] = "open"]
      BY Accepts
    <3>3. QED
      BY <3>1, <3>2
  <2>4. QED
    BY <2>2, <2>3, Accepts
<1>3. OneOK(b)'
  BY <1>1, <1>2, BridgeAssumption DEF OneOK, Begins, Ends, Passing
<1>4. taken <= taken'
  BY <1>2 DEF TypeOK
<1>5. QED
  BY <1>2, <1>3, <1>4, Others

LEMMA ConnectOne ==
  ASSUME TypeOK, TypeOK', \A a \in Browser : OneOK(a), NEW b \in Browser, LeftConnect(b)
  PROVE  \A a \in Browser : OneOK(a)'
<1>1. /\ thread' = None /\ left[b].res = "connect" /\ browser[b] \notin {"away", "ignored"}
      /\ UNCHANGED <<browser, breq, taken, resp, got, link>>
  <2>1. /\ thread' = None /\ left[b].res = "connect"
        /\ UNCHANGED <<browser, breq, taken, resp, got, link>>
    BY Connects
  <2>2. left[b] # NoLeft
    BY <2>1 DEF NoLeft
  <2>3. QED
    BY <2>1, <2>2 DEF OneOK, Begins
<1>2. /\ left'[b].c = left[b].c
      /\ \A a \in Browser : a # b => left'[a] = left[a] /\ right'[a].res = right[a].res
      /\ \/ left'[b].open = left[b].open /\ left'[b].res = "read" /\ left'[b].req = "read"
         \/ left'[b].open = FALSE /\ left'[b].res = "done" /\ left'[b].req = "done"
  BY Connects DEF LeftIs, RightIs
<1>3. right'[b].res = right[b].res \/ right'[b].res # "none"
  BY Connects DEF RightIs
<1>4. OneOK(b)'
  BY <1>1, <1>2, <1>3, BridgeAssumption DEF OneOK, Begins, Ends, Passing
<1>5. taken <= taken'
  BY <1>1 DEF TypeOK
<1>6. QED
  BY <1>1, <1>2, <1>4, <1>5, Others

LEMMA UpReadOne ==
  ASSUME TypeOK, TypeOK', \A a \in Browser : OneOK(a), NEW b \in Browser, LeftUpRead(b)
  PROVE  \A a \in Browser : OneOK(a)'
<1>1. /\ thread' = None /\ left[b].res = "read" /\ browser[b] \notin {"away", "ignored"}
      /\ UNCHANGED <<browser, breq, taken, got, right, link>>
  <2>1. /\ thread' = None /\ left[b].res = "read"
        /\ UNCHANGED <<browser, breq, taken, got, right, link>>
    BY UpReads
  <2>2. left[b] # NoLeft
    BY <2>1 DEF NoLeft
  <2>3. QED
    BY <2>1, <2>2 DEF OneOK, Begins
<1>2. PICK res \in {"write", "failed"} :
        /\ res = "failed" => ~left[b].open \/ browser[b] = "gone"
        /\ LeftIs(left', b, left[b].open, res, left[b].req, 0)
  BY UpReads
<1>3. /\ left'[b].open = left[b].open /\ left'[b].res = res /\ left'[b].req = left[b].req
      /\ left'[b].c = 0 /\ \A a \in Browser : a # b => left'[a] = left[a]
  BY <1>2 DEF LeftIs
<1>4. \A a \in Browser : a # b => resp'[a] = resp[a]
  <2>1. resp \in [Browser -> Seq(1 .. Len(link))]
    BY DEF TypeOK
  <2>2. resp' = [resp EXCEPT ![b] = Append(resp[b], left[b].c)] \/ resp' = resp
    BY UpReads
  <2>3. QED
    BY <2>1, <2>2
<1>5. Passing(b)'
  <2>1. Passing(b)
    BY DEF OneOK
  <2>2. CASE left[b].open /\ left[b].c # 0
    <3>1. /\ resp'[b] = Append(resp[b], left[b].c) /\ resp[b] \in Seq(1 .. Len(link))
          /\ got[b] \in Seq(1 .. Len(link))
      BY <2>2, UpReads DEF TypeOK
    <3>2. /\ Len(got[b]) = Len(resp[b]) + 1 /\ got[b][Len(got[b])] = left[b].c
          /\ \A k \in 1 .. Len(resp[b]) : resp[b][k] = got[b][k]
      BY <2>1, <2>2 DEF Passing
    <3>3. /\ Len(resp'[b]) = Len(got[b])
          /\ \A k \in 1 .. Len(resp'[b]) : resp'[b][k] = got[b][k]
      BY <3>1, <3>2
    <3>4. Len(resp'[b]) \in Nat /\ got' = got /\ taken' = taken /\ left'[b].c = 0
      BY <1>1, <1>3, <3>1
    <3>5. QED
      BY <2>1, <3>3, <3>4 DEF Passing
  <2>3. CASE ~left[b].open \/ left[b].c = 0
    <3>1. resp' = resp
      BY <2>3, UpReads
    <3>2. QED
      BY <1>1, <1>3, <2>1, <2>3, <3>1 DEF Passing
  <2>4. QED
    BY <2>2, <2>3
<1>6. Begins(b)' /\ Ends(b)'
  BY <1>1, <1>2, <1>3, BridgeAssumption DEF OneOK, Begins, Ends
<1>7. taken <= taken'
  BY <1>1 DEF TypeOK
<1>8. QED
  BY <1>1, <1>3, <1>4, <1>5, <1>6, <1>7, Others DEF OneOK

LEMMA DownReadOne ==
  ASSUME TypeOK, TypeOK', \A a \in Browser : OneOK(a), NEW b \in Browser, LeftDownRead(b)
  PROVE  \A a \in Browser : OneOK(a)'
<1>1. /\ thread' = None /\ left[b].open /\ browser[b] \notin {"away", "ignored"}
      /\ UNCHANGED <<browser, taken, resp, got, right, link>>
  <2>1. thread' = None /\ left[b].open /\ UNCHANGED <<browser, taken, resp, got, right, link>>
    BY DownReads
  <2>2. left[b] # NoLeft
    BY <2>1 DEF NoLeft
  <2>3. QED
    BY <2>1, <2>2 DEF OneOK, Begins
<1>2. /\ \A a \in Browser : a # b => breq'[a] = breq[a] /\ left'[a] = left[a]
      /\ left'[b].open = left[b].open /\ left'[b].res = left[b].res /\ left'[b].c = left[b].c
      /\ \/ left'[b].req = left[b].req /\ breq[b] # "lost"
         \/ breq'[b] = "lost" /\ left'[b].req = "failed"
  <2>1. breq \in [Browser -> {"none", "forwarded", "read", "lost"}]
    BY DEF TypeOK
  <2>2. CASE breq' = [breq EXCEPT ![b] = "forwarded"] /\ breq[b] # "lost" /\ UNCHANGED left
    BY <2>1, <2>2
  <2>3. CASE /\ breq' = [breq EXCEPT ![b] = "lost"]
             /\ LeftIs(left', b, left[b].open, left[b].res, "failed", left[b].c)
    BY <2>1, <2>3 DEF LeftIs
  <2>4. QED
    BY <2>2, <2>3, DownReads
<1>3. left[b].res # "connect" \/ left'[b].req = left[b].req
  <2>1. left[b].req = "read"
    BY DEF LeftDownRead
  <2>2. QED
    BY <2>1 DEF OneOK, Begins
<1>4. Begins(b)' /\ Ends(b)'
  BY <1>1, <1>2, <1>3, BridgeAssumption DEF OneOK, Begins, Ends
<1>5. Passing(b)'
  BY <1>1, <1>2 DEF OneOK, Passing
<1>6. taken <= taken'
  BY <1>1 DEF TypeOK
<1>7. QED
  BY <1>1, <1>2, <1>4, <1>5, <1>6, Others DEF OneOK

LEMMA FailsOne ==
  ASSUME TypeOK, TypeOK', \A a \in Browser : OneOK(a), NEW b \in Browser, LeftFails(b)
  PROVE  \A a \in Browser : OneOK(a)'
<1>1. thread' = None /\ UNCHANGED <<browser, breq, taken, resp, got, right, link>>
  BY Fails
<1>2. /\ left'[b].open = FALSE /\ left'[b].c = left[b].c
      /\ \A a \in Browser : a # b => left'[a] = left[a]
      /\ \/ left[b].res = "failed" /\ left'[b].res = "done" /\ left'[b].req = left[b].req
         \/ /\ left[b].req \in {"failed", "read"} /\ left'[b].req = "done"
            /\ left'[b].res = left[b].res \/ (left[b].res = "write" /\ left'[b].res = "failed")
  BY Fails DEF LeftIs
<1>3. browser[b] \notin {"away", "ignored"}
  <2>1. left[b] # NoLeft
    BY <1>2 DEF NoLeft
  <2>2. QED
    BY <2>1 DEF OneOK, Begins
<1>4. Begins(b)' /\ Ends(b)'
  BY <1>1, <1>2, <1>3, BridgeAssumption DEF OneOK, Begins, Ends
<1>5. Passing(b)'
  BY <1>1, <1>2 DEF OneOK, Passing
<1>6. taken <= taken'
  BY <1>1 DEF TypeOK
<1>7. QED
  BY <1>1, <1>2, <1>4, <1>5, <1>6, Others DEF OneOK

LEMMA DownWriteOne ==
  ASSUME TypeOK, TypeOK', \A a \in Browser : OneOK(a), NEW b \in Browser, LeftDownWrite(b)
  PROVE  \A a \in Browser : OneOK(a)'
<1>1. /\ thread' = b /\ left[b].res = "write"
      /\ UNCHANGED <<browser, breq, left, taken, resp, got, right, link>>
  BY DEF LeftDownWrite, envVars, rightVars
<1>2. OneOK(b)'
  BY <1>1 DEF OneOK, Begins, Ends, Passing
<1>3. taken <= taken'
  BY <1>1 DEF TypeOK
<1>4. QED
  BY <1>1, <1>2, <1>3, Others

LEMMA ReceivesOne ==
  ASSUME TypeOK, TypeOK', \A a \in Browser : OneOK(a), Apart, LeftReceives
  PROVE  (\A a \in Browser : OneOK(a)') /\ Apart'
<1>0. PICK b \in Browser : b = thread
  BY Receives
<1>1. /\ b \in Browser /\ thread' = None
      /\ taken \in Nat /\ taken + 1 \in 1 .. Len(link) /\ taken' = taken + 1
      /\ UNCHANGED <<browser, breq, resp, right, link>>
  <2>1. Len(link) \in Nat /\ taken \in 0 .. Len(link)
    BY DEF TypeOK
  <2>2. QED
    BY <1>0, <2>1, Receives
<1>2. /\ got[b] \in Seq(1 .. Len(link)) /\ got'[b] = Append(got[b], taken + 1)
      /\ \A a \in Browser : a # b => got'[a] = got[a]
  <2>1. got \in [Browser -> Seq(1 .. Len(link))]
    BY DEF TypeOK
  <2>2. got' = [got EXCEPT ![b] = Append(got[b], taken + 1)]
    BY <1>0, Receives
  <2>3. QED
    BY <1>0, <1>1, <2>1, <2>2
<1>3. /\ Len(got[b]) \in Nat /\ Len(got'[b]) = Len(got[b]) + 1
      /\ \A k \in 1 .. Len(got[b]) : got'[b][k] = got[b][k] /\ got[b][k] \in Nat
      /\ got'[b][Len(got[b]) + 1] = taken + 1
  BY <1>2
<1>4. /\ left'[b].open = left[b].open /\ left'[b].req = left[b].req /\ left'[b].c = taken + 1
      /\ left'[b].res = (IF left[b].open THEN "read" ELSE "failed")
      /\ \A a \in Browser : a # b => left'[a] = left[a]
  BY <1>0, Receives DEF LeftIs
<1>5. /\ left[b].res = "write" /\ left[b].c = 0 /\ browser[b] \notin {"away", "ignored"}
  <2>1. left[b].res = "write" /\ left[b].c = 0
    BY <1>0 DEF OneOK, Ends
  <2>2. left[b] # NoLeft
    BY <2>1 DEF NoLeft
  <2>3. QED
    BY <1>1, <2>1, <2>2 DEF OneOK, Begins
<1>6. Begins(b)' /\ Ends(b)'
  BY <1>1, <1>4, <1>5, BridgeAssumption DEF OneOK, Begins, Ends
<1>7. Passing(b)'
  <2>1. Passing(b) /\ resp[b] \in Seq(1 .. Len(link)) /\ Len(resp[b]) \in Nat
    BY <1>1 DEF OneOK, TypeOK
  <2>2. \A k \in 1 .. Len(got'[b]) :
          \/ k \in 1 .. Len(got[b]) /\ got'[b][k] = got[b][k] /\ got'[b][k] \in Nat /\ got'[b][k] <= taken
          \/ k = Len(got[b]) + 1 /\ got'[b][k] = taken + 1
    <3>1. \A k \in 1 .. Len(got'[b]) : k \in 1 .. Len(got[b]) \/ k = Len(got[b]) + 1
      BY <1>3
    <3>2. \A k \in 1 .. Len(got[b]) : got[b][k] <= taken
      BY <2>1 DEF Passing
    <3>3. QED
      BY <1>3, <3>1, <3>2
  <2>3. \A k \in 1 .. Len(got'[b]) : got'[b][k] <= taken'
    BY <1>1, <2>2
  <2>4. \A j, k \in 1 .. Len(got'[b]) : j < k => got'[b][j] < got'[b][k]
    <3>1. SUFFICES ASSUME NEW j \in 1 .. Len(got'[b]), NEW k \in 1 .. Len(got'[b]), j < k
                   PROVE  got'[b][j] < got'[b][k]
      OBVIOUS
    <3>2. j \in 1 .. Len(got[b]) /\ got'[b][j] \in Nat /\ got'[b][j] <= taken
      BY <1>3, <2>2, <3>1
    <3>3. CASE k = Len(got[b]) + 1 /\ got'[b][k] = taken + 1
      BY <1>1, <3>2, <3>3
    <3>4. CASE k \in 1 .. Len(got[b]) /\ got'[b][k] = got[b][k]
      BY <1>3, <2>1, <3>1, <3>2, <3>4 DEF Passing
    <3>5. QED
      BY <2>2, <3>3, <3>4
  <2>5. \A k \in 1 .. Len(resp'[b]) : resp'[b][k] = got'[b][k]
    <3>1. /\ Len(resp[b]) <= Len(got[b])
          /\ \A k \in 1 .. Len(resp[b]) : resp[b][k] = got[b][k]
      BY <2>1 DEF Passing
    <3>2. \A k \in 1 .. Len(resp[b]) : k \in 1 .. Len(got[b])
      BY <1>3, <2>1, <3>1
    <3>3. QED
      BY <1>1, <1>3, <3>1, <3>2
  <2>6. /\ Len(resp'[b]) <= Len(got'[b])
        /\ left'[b].open => Len(got'[b]) = Len(resp'[b]) + 1
        /\ got'[b][Len(got'[b])] = left'[b].c /\ left'[b].c # 0
    BY <1>1, <1>3, <1>4, <1>5, <2>1 DEF Passing
  <2>7. QED
    BY <2>3, <2>4, <2>5, <2>6 DEF Passing
<1>8. \A a \in Browser : OneOK(a)'
  <2>1. taken <= taken'
    BY <1>1
  <2>2. OneOK(b)'
    BY <1>6, <1>7 DEF OneOK
  <2>3. QED
    BY <1>1, <1>2, <1>4, <2>1, <2>2, Others
<1>9. Apart'
  <2>1. SUFFICES ASSUME NEW x \in Browser, NEW y \in Browser, x # y,
                        NEW j \in 1 .. Len(got'[x]), NEW k \in 1 .. Len(got'[y])
                 PROVE  got'[x][j] # got'[y][k]
    BY DEF Apart
  <2>2. \A a \in Browser : \A i \in 1 .. Len(got[a]) : got[a][i] \in Nat /\ got[a][i] <= taken
    <3>1. \A a \in Browser : got[a] \in Seq(1 .. Len(link)) /\ Len(link) \in Nat
      BY Sizes
    <3>2. \A a \in Browser : \A i \in 1 .. Len(got[a]) : got[a][i] <= taken
      BY DEF OneOK, Passing
    <3>3. ASSUME NEW a \in Browser, NEW i \in 1 .. Len(got[a]) PROVE got[a][i] \in 1 .. Len(link)
      <4>1. got[a] \in Seq(1 .. Len(link))
        BY <3>1
      <4>2. QED
        BY <4>1, <3>3
    <3>4. QED
      BY <3>1, <3>2, <3>3
  <2>3. \A a \in Browser : \A i \in 1 .. Len(got'[a]) :
          \/ i \in 1 .. Len(got[a]) /\ got'[a][i] = got[a][i]
          \/ a = b /\ got'[a][i] = taken + 1
    <3>1. \A i \in 1 .. Len(got'[b]) : i \in 1 .. Len(got[b]) \/ i = Len(got[b]) + 1
      BY <1>3
    <3>2. QED
      BY <1>2, <1>3, <3>1
  <2>4. CASE (j \in 1 .. Len(got[x]) /\ got'[x][j] = got[x][j]) /\ (k \in 1 .. Len(got[y]) /\ got'[y][k] = got[y][k])
    BY <2>1, <2>4 DEF Apart
  <2>5. CASE (j \in 1 .. Len(got[x]) /\ got'[x][j] = got[x][j]) /\ got'[y][k] = taken + 1
    BY <1>1, <2>2, <2>5
  <2>6. CASE got'[x][j] = taken + 1 /\ (k \in 1 .. Len(got[y]) /\ got'[y][k] = got[y][k])
    BY <1>1, <2>2, <2>6
  <2>7. QED
    BY <2>1, <2>3, <2>4, <2>5, <2>6
<1>10. QED
  BY <1>8, <1>9

LEMMA TimesOutOne ==
  ASSUME TypeOK, TypeOK', \A a \in Browser : OneOK(a), LeftTimesOut
  PROVE  \A a \in Browser : OneOK(a)'
<1>0. PICK b \in Browser : b = thread
  BY TimesOut
<1>1. /\ b \in Browser /\ thread' = None
      /\ UNCHANGED <<browser, breq, taken, resp, got, right, link>>
  BY <1>0, TimesOut
<1>2. /\ left'[b].open = FALSE /\ left'[b].res = "failed" /\ left'[b].req = left[b].req
      /\ left'[b].c = left[b].c
      /\ \A a \in Browser : a # b => left'[a] = left[a]
  BY <1>0, TimesOut DEF LeftIs
<1>3. browser[b] \notin {"away", "ignored"}
  <2>1. left[b].res = "write"
    BY <1>0 DEF OneOK, Ends
  <2>2. left[b] # NoLeft
    BY <2>1 DEF NoLeft
  <2>3. QED
    BY <1>1, <2>1, <2>2 DEF OneOK, Begins
<1>4. OneOK(b)'
  BY <1>1, <1>2, <1>3, BridgeAssumption DEF OneOK, Begins, Ends, Passing
<1>5. taken <= taken'
  BY <1>1 DEF TypeOK
<1>6. QED
  BY <1>1, <1>2, <1>4, <1>5, Others

LEMMA RightOne ==
  ASSUME TypeOK, TypeOK', \A a \in Browser : OneOK(a), NEW b \in Browser, RightMove(b)
  PROVE  \A a \in Browser : OneOK(a)'
<1>1. /\ \A a \in Browser : right[a].res = "none" <=> right'[a].res = "none"
      /\ breq' = breq \/ (breq' = [breq EXCEPT ![b] = "read"] /\ breq[b] = "forwarded")
      /\ link' = link \/ (SendsFile(b) /\ right[b].res = "read")
      /\ UNCHANGED <<browser, left, taken, thread, resp, got>>
  BY RightMoves
<1>2. \A a \in Browser : breq[a] = "lost" => breq'[a] = "lost"
  <2>1. breq \in [Browser -> {"none", "forwarded", "read", "lost"}]
    BY DEF TypeOK
  <2>2. QED
    BY <1>1, <2>1
<1>3. link' = link \/ \E a \in Browser : SendsFile(a) /\ right[a].res # "none"
  BY <1>1
<1>4. taken <= taken'
  BY <1>1 DEF TypeOK
<1>5. QED
  BY <1>1, <1>2, <1>3, <1>4, Untouched

LEMMA StepOne ==
  ASSUME TypeOK, TypeOK', \A a \in Browser : OneOK(a), Apart, [Next]_vars
  PROVE  (\A a \in Browser : OneOK(a)') /\ Apart'
<1>1. CASE LeftReceives
  BY <1>1, ReceivesOne
<1>2. CASE LeftTimesOut
  BY <1>2, TimesOutOne, TimesOut DEF Apart
<1>3. ASSUME NEW b \in Browser,
             \/ LeftAccept(b) \/ LeftResponse(b) \/ LeftDownRead(b) \/ LeftFails(b)
      PROVE  (\A a \in Browser : OneOK(a)') /\ Apart'
  <2>1. got' = got
    BY <1>3 DEF LeftAccept, LeftResponse, LeftConnect, LeftUpRead, LeftDownWrite, LeftDownRead, LeftFails
  <2>2. QED
    BY <1>3, <2>1, AcceptOne, ConnectOne, UpReadOne, DownWriteOne, DownReadOne, FailsOne
       DEF LeftResponse, Apart
<1>4. ASSUME NEW b \in Browser, RightMove(b)
      PROVE  (\A a \in Browser : OneOK(a)') /\ Apart'
  BY <1>4, RightOne, RightMoves DEF Apart
<1>5. ASSUME UNCHANGED <<left, got, resp, breq, taken, thread, link>>,
             \A a \in Browser : right[a].res = "none" <=> right'[a].res = "none",
             \A a \in Browser :
               /\ browser'[a] \in {"away", "ignored"} => browser[a] \in {"away", "ignored"}
               /\ browser[a] = "gone" => browser'[a] = "gone"
      PROVE  (\A a \in Browser : OneOK(a)') /\ Apart'
  <2>1. taken <= taken'
    BY <1>5 DEF TypeOK
  <2>2. QED
    BY <1>5, <2>1, Untouched DEF Apart
<1>6. CASE RightDies
  BY <1>5, <1>6, Dies
<1>7. CASE LeftAcceptFails
  BY <1>5, <1>7 DEF LeftAcceptFails, leftVars, rightVars
<1>8. ASSUME NEW b \in Browser, BrowserLeaves(b)
      PROVE  (\A a \in Browser : OneOK(a)') /\ Apart'
  <2>1. /\ browser \in [Browser -> {"away", "open", "gone", "ignored"}]
        /\ browser' = [browser EXCEPT ![b] = "gone"]
        /\ UNCHANGED <<left, got, resp, breq, taken, thread, link, right>>
    BY <1>8 DEF BrowserLeaves, TypeOK, leftVars, rightVars
  <2>2. \A a \in Browser : browser'[a] = browser[a] \/ (browser[a] = "open" /\ browser'[a] = "gone")
    BY <1>8, <2>1 DEF BrowserLeaves
  <2>3. QED
    BY <1>5, <2>1, <2>2
<1>9. CASE UNCHANGED vars
  BY <1>5, <1>9 DEF vars, envVars, leftVars, rightVars
<1>10. QED
  BY <1>1, <1>2, <1>3, <1>4, <1>6, <1>7, <1>8, <1>9
     DEF Next, LeftResponse, RightMove, LeftReturns

LEMMA IInvIs == IInv <=> TypeOK /\ (\A b \in Browser : OneOK(b)) /\ Apart
BY DEF IInv, OneOK

\* The invariant holds initially and every step preserves it.
THEOREM Invariance == Spec => []IInv
<1>1. Init => IInv
  BY InitType, InitOne, IInvIs
<1>2. IInv /\ [Next]_vars => IInv'
  <2>1. SUFFICES ASSUME IInv, [Next]_vars PROVE IInv'
    OBVIOUS
  <2>2. TypeOK'
    BY <2>1, StepType, IInvIs
  <2>3. (\A a \in Browser : OneOK(a)') /\ Apart'
    BY <2>1, <2>2, StepOne, IInvIs
  <2>4. QED
    BY <2>2, <2>3 DEF IInv, OneOK
<1>3. QED
  BY <1>1, <1>2, PTL DEF Spec

LEMMA InvPasses == IInv => PassesOn
<1> SUFFICES ASSUME IInv, NEW b \in Browser
             PROVE  /\ IsPrefix(resp[b], got[b])
                    /\ left[b].open =>
                         got[b] = resp[b] \o (IF left[b].c = 0 THEN <<>> ELSE <<left[b].c>>)
                    /\ \A j, k \in 1 .. Len(resp[b]) : j < k => resp[b][j] < resp[b][k]
                    /\ \A a \in Browser \ {b} : SentTo(a) \cap SentTo(b) = {}
  BY DEF PassesOn
<1>1. \A a \in Browser : /\ resp[a] \in Seq(1 .. Len(link)) /\ got[a] \in Seq(1 .. Len(link))
                         /\ Passing(a)
  BY DEF IInv, TypeOK
<1>2. /\ Len(resp[b]) \in Nat /\ Len(got[b]) \in Nat /\ Len(resp[b]) <= Len(got[b])
      /\ \A k \in 1 .. Len(resp[b]) : resp[b][k] = got[b][k]
  <2>1. Passing(b) /\ resp[b] \in Seq(1 .. Len(link)) /\ got[b] \in Seq(1 .. Len(link))
    BY <1>1
  <2>2. QED
    BY <2>1 DEF Passing
<1>3. IsPrefix(resp[b], got[b])
  <2>1. /\ SubSeq(resp[b], 1, Len(resp[b])) = [k \in 1 .. Len(resp[b]) |-> resp[b][k]]
        /\ SubSeq(got[b], 1, Len(resp[b])) = [k \in 1 .. Len(resp[b]) |-> got[b][k]]
    BY <1>1, <1>2
  <2>2. QED
    BY <1>1, <1>2, <2>1 DEF IsPrefix
<1>4. ASSUME left[b].open
      PROVE  got[b] = resp[b] \o (IF left[b].c = 0 THEN <<>> ELSE <<left[b].c>>)
  <2>1. CASE left[b].c = 0
    <3>1. Len(got[b]) = Len(resp[b])
      BY <1>1, <1>4, <2>1 DEF Passing
    <3>2. got[b] = resp[b]
      BY <1>1, <1>2, <3>1, SeqEqual
    <3>3. QED
      BY <1>1, <2>1, <3>2
  <2>2. CASE left[b].c # 0
    <3>1. Len(got[b]) = Len(resp[b]) + 1 /\ got[b][Len(got[b])] = left[b].c
      BY <1>1, <1>4, <2>2 DEF Passing
    <3>2. left[b].c \in 1 .. Len(link)
      BY <1>1, <3>1
    <3>3. DEFINE s == resp[b] \o <<left[b].c>>
    <3>4. s \in Seq(1 .. Len(link)) /\ Len(s) = Len(got[b])
      BY <1>1, <3>1, <3>2
    <3>5. \A k \in 1 .. Len(got[b]) : got[b][k] = s[k]
      BY <1>1, <1>2, <3>1, <3>2
    <3>6. got[b] = s
      BY <1>1, <3>4, <3>5, SeqEqual
    <3>7. QED
      BY <2>2, <3>6
  <2>3. QED
    BY <2>1, <2>2
<1>5. \A j, k \in 1 .. Len(resp[b]) : j < k => resp[b][j] < resp[b][k]
  <2>1. \A j, k \in 1 .. Len(got[b]) : j < k => got[b][j] < got[b][k]
    BY <1>1 DEF Passing
  <2>2. QED
    BY <1>2, <2>1
<1>6. \A a \in Browser \ {b} : SentTo(a) \cap SentTo(b) = {}
  <2>1. \A a \in Browser : \A k \in 1 .. Len(resp[a]) :
          k \in 1 .. Len(got[a]) /\ resp[a][k] = got[a][k]
    BY <1>1 DEF Passing
  <2>2. QED
    BY <2>1 DEF SentTo, IInv, Apart
<1>7. QED
  BY <1>3, <1>4, <1>5, <1>6

\* A browser is sent a prefix of what its bridge received, all of it but the last
\* file while the bridge is open, and no file goes to two browsers, however many
\* bridges share the Rabin connection.
THEOREM PassedOn == Spec => []PassesOn
BY Invariance, InvPasses, PTL
-----------------------------------------------------------------------------
(***************************************************************************)
(* The response of a browser that is alone.                                *)
(***************************************************************************)

\* A bridge that can still act is live.
LEMMA Acts ==
  ASSUME TypeOK, NEW b \in Browser, OneOK(b),
         \/ left[b].res \in {"connect", "read", "write", "failed"}
         \/ left[b].open /\ left[b].res # "none"
         \/ left[b].req \in {"read", "failed"} /\ left[b].res # "none"
         \/ right[b].res \in {"connect", "read", "send"}
  PROVE  Live(b)
BY DEF OneOK, Begins, Ends, Live, Over, Destroyed

\* A bridge that has not been accepted now and was not live is not live.
LEMMA StaysOver ==
  ASSUME NEW b \in Browser, left'[b].res # "none" => left[b].res # "none",
         Destroyed(b) => Destroyed(b)',
         right[b].res = "none" <=> right'[b].res = "none",
         (right[b].res = "done" /\ right[b].req = "done")
           => (right'[b].res = "done" /\ right'[b].req = "done")
  PROVE  Live(b)' => Live(b)
BY DEF Live, Over

\* A step that moves no file keeps all of Alone but what is said of b.
LEMMA NoFile ==
  ASSUME calm, Alone, NEW b \in Browser, Finished(b)',
         \A a \in Browser : Live(a)' => Live(a),
         \A a \in Browser : a # b =>
           /\ left'[a] = left[a] /\ resp'[a] = resp[a]
           /\ browser'[a] = "open" => browser[a] = "open"
           /\ breq[a] = "lost" => breq'[a] = "lost"
           /\ right'[a].res \in {"connect", "read", "send"} => right[a].res \in {"connect", "read", "send"},
         UNCHANGED <<taken, got, link>>
  PROVE  Alone'
<1>1. Single /\ \A a \in Browser : Own(a) /\ Finished(a)
  BY DEF Alone
<1>2. Single'
  BY <1>1 DEF Single
<1>3. \A a \in Browser : Own(a)'
  BY <1>1 DEF Own
<1>4. \A a \in Browser : Finished(a)'
  BY <1>1 DEF Finished
<1>5. QED
  BY <1>2, <1>3, <1>4 DEF Alone

\* If b was finished, or is not, nothing has to be shown.
LEMMA StaysFinished ==
  ASSUME NEW b \in Browser, Finished(b),
         left'[b].res # "none" => left[b].res # "none",
         left[b].open => left'[b].open \/ browser'[b] # "open" \/ breq'[b] = "lost",
         browser'[b] = "open" => browser[b] = "open",
         breq[b] = "lost" => breq'[b] = "lost",
         ~left[b].open => resp'[b] = resp[b],
         right'[b].res \in {"connect", "read", "send"} => right[b].res \in {"connect", "read", "send"},
         UNCHANGED <<taken, got, link>>
  PROVE  Finished(b)'
BY DEF Finished

LEMMA AcceptAlone ==
  ASSUME IInv, Alone, NEW b \in Browser, LeftAccept(b)
  PROVE  Alone'
<1> SUFFICES ASSUME calm' PROVE Alone'
  BY DEF Alone
<1>1. /\ browser[b] = "away" /\ calm /\ taken = Len(link)
      /\ \A a \in Browser : left[a].res = "none" \/ Over(a)
      /\ left'[b].open = TRUE /\ \A a \in Browser : a # b => left'[a] = left[a]
      /\ UNCHANGED <<breq, taken, resp, got, right, link>>
  BY Accepts DEF LeftIs, IInv
<1>2. \A a \in Browser : a # b => browser'[a] = browser[a]
  <2>1. browser \in [Browser -> {"away", "open", "gone", "ignored"}]
    BY DEF IInv, TypeOK
  <2>2. browser' = [browser EXCEPT ![b] = "open"]
    BY Accepts DEF IInv
  <2>3. QED
    BY <2>1, <2>2
<1>3. \A a \in Browser : Live(a)' => a = b
  BY <1>1 DEF Live, Over, Destroyed
<1>4. Single'
  <2>1. taken \in Nat /\ taken + 1 .. Len(link) = {}
    BY <1>1 DEF IInv, TypeOK
  <2>2. QED
    BY <1>1, <1>3, <2>1 DEF Single
<1>5. \A a \in Browser : Own(a)' /\ Finished(a)'
  BY <1>1, <1>2 DEF Alone, Own, Finished
<1>6. QED
  BY <1>4, <1>5 DEF Alone

LEMMA ReceivesAlone ==
  ASSUME IInv, IInv', Alone, LeftReceives
  PROVE  Alone'
<1> SUFFICES ASSUME calm' PROVE Alone'
  BY DEF Alone
<1>0. PICK b \in Browser : b = thread
  BY Receives DEF IInv
<1>1. /\ calm /\ taken \in Nat /\ Len(link) \in Nat /\ taken + 1 \in 1 .. Len(link)
      /\ taken' = taken + 1
      /\ UNCHANGED <<browser, breq, resp, right, link>>
  <2>1. TypeOK /\ Len(link) \in Nat /\ taken \in 0 .. Len(link)
    BY Sizes DEF IInv
  <2>2. /\ calm' = calm /\ taken + 1 \in 1 .. Len(link) /\ taken' = taken + 1
        /\ UNCHANGED <<browser, breq, resp, right, link>>
    BY <2>1, Receives
  <2>3. taken \in Nat
    BY <2>1
  <2>4. QED
    BY <2>1, <2>2, <2>3
<1>2. /\ got[b] \in Seq(1 .. Len(link)) /\ got'[b] = Append(got[b], taken + 1)
      /\ \A a \in Browser : a # b => got'[a] = got[a]
  <2>1. got \in [Browser -> Seq(1 .. Len(link))]
    BY DEF IInv, TypeOK
  <2>2. got' = [got EXCEPT ![b] = Append(got[b], taken + 1)]
    BY <1>0, Receives DEF IInv
  <2>3. QED
    BY <2>1, <2>2
<1>3. /\ Len(got[b]) \in Nat /\ Len(got'[b]) = Len(got[b]) + 1
      /\ \A k \in 1 .. Len(got[b]) : got'[b][k] = got[b][k]
      /\ got'[b][Len(got[b]) + 1] = taken + 1
  BY <1>2
<1>4. /\ left'[b].open = left[b].open /\ left'[b].res # "done" /\ left[b].res = "write"
      /\ \A a \in Browser : a # b => left'[a] = left[a]
  BY <1>0, Receives DEF LeftIs, IInv, Ends
<1>5. Live(b) /\ Single /\ \A a \in Browser : Own(a) /\ Finished(a)
  BY <1>1, <1>4, Acts, IInvIs DEF Alone
<1>6. link[taken + 1] = b
  BY <1>1, <1>5 DEF Single
<1>7. \A a \in Browser : Live(a)' => Live(a)
  BY <1>1, <1>4, StaysOver DEF Destroyed
<1>8. \A j \in taken' + 1 .. Len(link') : j \in taken + 1 .. Len(link)
  BY <1>1
<1>9. Single'
  BY <1>1, <1>5, <1>7, <1>8 DEF Single
<1>10. Own(b)'
  <2>1. \A k \in 1 .. Len(got'[b]) : k \in 1 .. Len(got[b]) \/ k = Len(got[b]) + 1
    BY <1>3
  <2>2. \A k \in 1 .. Len(got'[b]) : link'[got'[b][k]] = b
    <3>1. SUFFICES ASSUME NEW k \in 1 .. Len(got'[b]) PROVE link[got'[b][k]] = b
      BY <1>1
    <3>2. CASE k \in 1 .. Len(got[b])
      BY <1>3, <1>5, <3>2 DEF Own
    <3>3. CASE k = Len(got[b]) + 1
      BY <1>3, <1>6, <3>3
    <3>4. QED
      BY <2>1, <3>2, <3>3
  <2>3. ASSUME NEW j \in 1 .. taken', link'[j] = b
        PROVE  \E k \in 1 .. Len(got'[b]) : got'[b][k] = j
    <3>1. CASE j = taken + 1
      BY <1>3, <3>1
    <3>2. CASE j \in 1 .. taken
      <4>1. PICK k \in 1 .. Len(got[b]) : got[b][k] = j
        BY <1>1, <1>5, <2>3, <3>2 DEF Own
      <4>2. k \in 1 .. Len(got'[b]) /\ got'[b][k] = j
        BY <1>3, <4>1
      <4>3. QED
        BY <4>2
    <3>3. QED
      BY <1>1, <3>1, <3>2
  <2>4. QED
    BY <2>2, <2>3 DEF Own
<1>11. \A a \in Browser : a # b => Own(a)'
  <2>1. \A j \in 1 .. taken' : j \in 1 .. taken \/ j = taken + 1
    BY <1>1
  <2>2. SUFFICES ASSUME NEW a \in Browser, a # b PROVE Own(a)'
    OBVIOUS
  <2>3. Own(a) /\ got'[a] = got[a] /\ link' = link
    BY <1>1, <1>2, <1>5, <2>2
  <2>4. \A j \in 1 .. taken' : link[j] = a => j \in 1 .. taken
    BY <1>6, <2>1, <2>2
  <2>5. QED
    BY <2>3, <2>4 DEF Own
<1>12. Finished(b)'
  <2>1. taken + 1 \in taken + 1 .. Len(link)
    BY <1>1
  <2>2. QED
    BY <1>1, <1>4, <1>5, <1>6, <2>1 DEF Finished
<1>13. \A a \in Browser : a # b => Finished(a)'
  BY <1>1, <1>2, <1>4, <1>5, <1>8 DEF Finished
<1>14. QED
  BY <1>9, <1>10, <1>11, <1>12, <1>13 DEF Alone

LEMMA LeftAlone ==
  ASSUME IInv, Alone, calm, NEW b \in Browser, LeftResponse(b) \/ LeftDownRead(b) \/ LeftFails(b)
  PROVE  Alone'
<1>1. TypeOK /\ OneOK(b) /\ Finished(b) /\ Own(b)
  BY IInvIs DEF Alone
<1>2. CASE LeftConnect(b)
  <2>1. /\ left[b].res = "connect" /\ left[b].open /\ right[b].res = "none"
        /\ \A j \in 1 .. Len(link) : link[j] # b
    BY <1>1, <1>2, Connects DEF OneOK, Begins
  <2>2. /\ left'[b].res # "none"
        /\ \/ left'[b].open = TRUE
           \/ right' = right
        /\ \A a \in Browser : a # b => left'[a] = left[a] /\ right'[a] = right[a]
        /\ UNCHANGED <<browser, breq, taken, resp, got, link>>
    BY <1>1, <1>2, <2>1, Connects DEF LeftIs, RightIs
  <2>3. \A a \in Browser : Live(a)' => Live(a)
    <3>1. Live(b)
      BY <1>1, <2>1, Acts
    <3>2. QED
      BY <2>2, <3>1 DEF Live, Over, Destroyed
  <2>4. Len(got[b]) = 0 /\ Len(resp[b]) = 0
    <3>1. got[b] \in Seq(1 .. Len(link)) /\ resp[b] \in Seq(1 .. Len(link))
      BY <1>1 DEF TypeOK
    <3>2. \A k \in 1 .. Len(got[b]) : got[b][k] \in 1 .. Len(link) /\ link[got[b][k]] = b
      BY <1>1, <3>1 DEF Own
    <3>3. Len(got[b]) \in Nat /\ ~(1 \in 1 .. Len(got[b]))
      BY <2>1, <3>1, <3>2
    <3>4. QED
      BY <1>1, <3>1, <3>3 DEF OneOK, Passing
  <2>5. Finished(b)'
    <3>1. Len(link) \in Nat /\ taken \in Nat
      BY <1>1 DEF TypeOK
    <3>2. \A j \in taken + 1 .. Len(link) : j \in 1 .. Len(link)
      BY <3>1
    <3>3. QED
      BY <2>1, <2>2, <2>4, <3>2 DEF Finished
  <2>6. QED
    BY <2>2, <2>3, <2>5, NoFile
<1>3. CASE LeftUpRead(b)
  <2>1. PICK res \in {"write", "failed"} : LeftIs(left', b, left[b].open, res, left[b].req, 0)
    BY <1>1, <1>3, UpReads
  <2>2. /\ left[b].res = "read" /\ left'[b].open = left[b].open /\ left'[b].res # "done"
        /\ \A a \in Browser : a # b => left'[a] = left[a]
        /\ UNCHANGED <<browser, breq, taken, got, right, link>>
    BY <1>1, <1>3, <2>1, UpReads DEF LeftIs
  <2>3. /\ ~left[b].open => resp' = resp
        /\ \A a \in Browser : a # b => resp'[a] = resp[a]
    <3>1. resp \in [Browser -> Seq(1 .. Len(link))]
      BY <1>1 DEF TypeOK
    <3>2. resp' = IF left[b].open /\ left[b].c # 0
                  THEN [resp EXCEPT ![b] = Append(resp[b], left[b].c)] ELSE resp
      BY <1>1, <1>3, UpReads
    <3>3. QED
      BY <3>1, <3>2
  <2>4. Finished(b)' /\ \A a \in Browser : Live(a)' => Live(a)
    BY <1>1, <2>2, <2>3, StaysFinished, StaysOver DEF Destroyed
  <2>5. QED
    BY <2>2, <2>3, <2>4, NoFile
<1>4. CASE LeftDownWrite(b)
  <2>1. UNCHANGED <<browser, breq, left, taken, resp, got, right, link>>
    BY <1>4 DEF LeftDownWrite, envVars, rightVars
  <2>2. Finished(b)' /\ \A a \in Browser : Live(a)' => Live(a)
    BY <1>1, <2>1, StaysFinished, StaysOver DEF Destroyed
  <2>3. QED
    BY <2>1, <2>2, NoFile
<1>5. CASE LeftDownRead(b)
  <2>1. /\ left[b].open /\ left'[b].open /\ left'[b].res = left[b].res
        /\ \A a \in Browser : a # b => left'[a] = left[a]
        /\ UNCHANGED <<browser, taken, resp, got, right, link>>
    BY <1>1, <1>5, DownReads DEF LeftIs
  <2>2. \A a \in Browser : a # b => breq'[a] = breq[a]
    <3>1. breq \in [Browser -> {"none", "forwarded", "read", "lost"}]
      BY <1>1 DEF TypeOK
    <3>2. breq' = [breq EXCEPT ![b] = "forwarded"] \/ breq' = [breq EXCEPT ![b] = "lost"]
      BY <1>1, <1>5, DownReads
    <3>3. QED
      BY <3>1, <3>2
  <2>3. \A a \in Browser : Live(a)' => Live(a)
    <3>1. ~Destroyed(b)
      BY <1>1, <2>1 DEF OneOK, Ends, Destroyed
    <3>2. QED
      BY <2>1, <3>1, StaysOver DEF Destroyed
  <2>4. Finished(b)'
    BY <2>1 DEF Finished
  <2>5. QED
    BY <2>1, <2>2, <2>3, <2>4, NoFile
<1>6. CASE LeftFails(b)
  <2>1. UNCHANGED <<browser, breq, taken, resp, got, right, link>>
    BY <1>1, <1>6, Fails
  <2>2. /\ \A a \in Browser : a # b => left'[a] = left[a]
        /\ \/ left[b].res = "failed"
           \/ /\ left[b].req = "failed" \/ (left[b].req = "read" /\ (~left[b].open \/ browser[b] = "gone"))
              /\ left'[b].res # "none" => left[b].res # "none"
    BY <1>1, <1>6, Fails DEF LeftIs
  <2>3. left[b].open => browser'[b] # "open" \/ breq'[b] = "lost"
    BY <1>1, <2>1, <2>2 DEF OneOK, Ends
  <2>4. \A a \in Browser : Live(a)' => Live(a)
    BY <2>1, <2>2, StaysOver DEF Destroyed
  <2>5. Finished(b)'
    BY <1>1, <2>1, <2>2, <2>3, StaysFinished
  <2>6. QED
    BY <2>1, <2>2, <2>4, <2>5, NoFile
<1>7. QED
  BY <1>2, <1>3, <1>4, <1>5, <1>6 DEF LeftResponse

LEMMA TimesOutAlone ==
  ASSUME IInv, Alone, calm', LeftTimesOut
  PROVE  Alone'
<1>1. PICK b \in Browser : b = thread
  BY TimesOut DEF IInv
<1>2. /\ taken = Len(link) /\ calm /\ ~UnderWay(b)
      /\ left'[b].res = "failed" /\ left'[b].open = FALSE
      /\ \A a \in Browser : a # b => left'[a] = left[a]
      /\ UNCHANGED <<browser, breq, taken, resp, got, right, link>>
  BY <1>1, TimesOut DEF LeftIs, IInv
<1>3. OneOK(b) /\ left[b].res = "write" /\ left[b].c = 0 /\ Finished(b)
  BY <1>1, <1>2, IInvIs DEF OneOK, Ends, Alone
<1>4. \A a \in Browser : Live(a)' => Live(a)
  BY <1>2, <1>3, StaysOver DEF Destroyed
<1>5. Finished(b)'
  <2>1. taken + 1 .. Len(link) = {}
    BY <1>2 DEF IInv, TypeOK
  <2>2. Len(resp[b]) = Len(got[b]) \/ ~left[b].open
    BY <1>3 DEF OneOK, Passing
  <2>3. QED
    BY <1>2, <1>3, <2>1, <2>2 DEF Finished, UnderWay
<1>6. QED
  BY <1>2, <1>4, <1>5, NoFile

LEMMA RightAlone ==
  ASSUME IInv, Alone, calm, NEW b \in Browser, RightMove(b)
  PROVE  Alone'
<1>1. TypeOK /\ OneOK(b) /\ Finished(b) /\ Single /\ \A a \in Browser : Own(a) /\ Finished(a)
  BY IInvIs DEF Alone
<1>2. /\ \A a \in Browser : a # b => right'[a] = right[a]
      /\ right[b].res = "none" <=> right'[b].res = "none"
      /\ right[b].res \notin {"connect", "read", "send"} => right'[b].res \notin {"connect", "read", "send"}
      /\ (right[b].res = "done" /\ right[b].req = "done")
           => (right'[b].res = "done" /\ right'[b].req = "done")
      /\ breq' = breq \/ (breq' = [breq EXCEPT ![b] = "read"] /\ breq[b] = "forwarded")
      /\ link' = link \/ (SendsFile(b) /\ right[b].res = "read")
      /\ UNCHANGED <<browser, left, taken, resp, got>>
  BY <1>1, RightMoves
<1>3. \A a \in Browser : breq[a] = "lost" => breq'[a] = "lost"
  <2>1. breq \in [Browser -> {"none", "forwarded", "read", "lost"}]
    BY <1>1 DEF TypeOK
  <2>2. QED
    BY <1>2, <2>1
<1>4. \A a \in Browser : Live(a)' => Live(a)
  BY <1>2, StaysOver DEF Destroyed
<1>5. CASE link' = link
  <2>1. Finished(b)'
    BY <1>1, <1>2, <1>3, <1>5, StaysFinished
  <2>2. QED
    BY <1>2, <1>3, <1>4, <1>5, <2>1, NoFile
<1>6. CASE SendsFile(b) /\ right[b].res = "read"
  <2>1. /\ Len(link') = Len(link) + 1 /\ link'[Len(link) + 1] = b
        /\ \A j \in 1 .. Len(link) : link'[j] = link[j]
    BY <1>1, <1>6, Longer
  <2>2. Len(link) \in Nat /\ taken \in 0 .. Len(link)
    BY <1>1 DEF TypeOK
  <2>3. Live(b)
    BY <1>1, <1>6, Acts
  <2>4. \A j \in taken + 1 .. Len(link') : j \in taken + 1 .. Len(link) \/ j = Len(link) + 1
    BY <2>1, <2>2
  <2>5. \A j \in taken + 1 .. Len(link) : link'[j] = link[j]
    BY <2>1, <2>2
  <2>6. Single'
    BY <1>1, <1>2, <1>4, <2>1, <2>3, <2>4, <2>5 DEF Single
  <2>7. \A a \in Browser : Own(a)'
    <3>1. SUFFICES ASSUME NEW a \in Browser PROVE Own(a)'
      OBVIOUS
    <3>2. got[a] \in Seq(1 .. Len(link)) /\ Own(a)
      BY <1>1 DEF TypeOK
    <3>3. \A k \in 1 .. Len(got[a]) : link'[got[a][k]] = link[got[a][k]]
      <4>1. \A k \in 1 .. Len(got[a]) : got[a][k] \in 1 .. Len(link)
        BY <3>2
      <4>2. QED
        BY <2>1, <4>1
    <3>4. \A j \in 1 .. taken : link'[j] = link[j]
      BY <2>1, <2>2
    <3>5. QED
      BY <1>2, <3>2, <3>3, <3>4 DEF Own
  <2>8. \A a \in Browser : Finished(a)'
    <3>1. Finished(b)'
      BY <1>1, <1>2, <1>3, <1>6 DEF Finished
    <3>2. \A a \in Browser : a # b => Finished(a)'
      <4>1. SUFFICES ASSUME NEW a \in Browser, a # b PROVE Finished(a)'
        OBVIOUS
      <4>2. (\A j \in taken + 1 .. Len(link) : link[j] # a)
              => \A j \in taken + 1 .. Len(link') : link'[j] # a
        BY <2>1, <2>4, <2>5, <4>1
      <4>3. QED
        BY <1>1, <1>2, <1>3, <4>1, <4>2 DEF Finished
    <3>3. QED
      BY <3>1, <3>2
  <2>9. QED
    BY <2>6, <2>7, <2>8 DEF Alone
<1>7. QED
  BY <1>2, <1>5, <1>6

\* A step in which no bridge of the left process does anything, nor a file moves.
LEMMA OtherAlone ==
  ASSUME IInv, Alone, calm,
         \A a \in Browser : /\ browser'[a] = "open" => browser[a] = "open"
                            /\ right[a].res = "none" <=> right'[a].res = "none"
                            /\ right'[a] = right[a]
                               \/ (right'[a].res \in {"none", "done"}
                                    /\ (right'[a].res = "done" => right'[a].req = "done")),
         UNCHANGED <<breq, left, resp, taken, got, link>>
  PROVE  Alone'
<1>1. Single /\ \A a \in Browser : Own(a) /\ Finished(a)
  BY DEF Alone
<1>2. \A a \in Browser : Live(a)' => Live(a)
  BY DEF Live, Over, Destroyed
<1>3. Single'
  BY <1>1, <1>2 DEF Single
<1>4. \A a \in Browser : Own(a)' /\ Finished(a)'
  BY <1>1 DEF Own, Finished
<1>5. QED
  BY <1>3, <1>4 DEF Alone

LEMMA InitAlone == Init => Alone
BY BridgeAssumption DEF Init, Alone, Single, Own, Finished, Live, NoLeft

LEMMA StepAlone == IInv /\ IInv' /\ Alone /\ [Next]_vars => Alone'
<1> SUFFICES ASSUME IInv, IInv', Alone, [Next]_vars, calm' PROVE Alone'
  BY DEF Alone
<1>1. ASSUME NEW b \in Browser, LeftAccept(b) PROVE Alone'
  BY <1>1, AcceptAlone
<1>2. ASSUME NEW b \in Browser, LeftResponse(b) \/ LeftDownRead(b) \/ LeftFails(b) PROVE Alone'
  <2>1. calm
    BY <1>2 DEF LeftResponse, LeftConnect, LeftUpRead, LeftDownWrite, LeftDownRead, LeftFails
  <2>2. QED
    BY <1>2, <2>1, LeftAlone
<1>3. CASE LeftReceives
  BY <1>3, ReceivesAlone
<1>4. CASE LeftTimesOut
  BY <1>4, TimesOutAlone
<1>5. ASSUME NEW b \in Browser, RightMove(b)
      PROVE  Alone'
  <2>1. calm
    BY <1>5, RightMoves DEF IInv
  <2>2. QED
    BY <1>5, <2>1, RightAlone
<1>6. CASE RightDies
  BY <1>6, Dies, OtherAlone DEF IInv
<1>7. CASE LeftAcceptFails
  BY <1>7, OtherAlone DEF LeftAcceptFails, leftVars, rightVars
<1>8. ASSUME NEW b \in Browser, BrowserLeaves(b) PROVE Alone'
  <2>1. /\ browser \in [Browser -> {"away", "open", "gone", "ignored"}]
        /\ browser' = [browser EXCEPT ![b] = "gone"]
        /\ UNCHANGED <<left, got, resp, breq, taken, link, right, calm>>
    BY <1>8 DEF BrowserLeaves, IInv, TypeOK, leftVars, rightVars
  <2>2. \A a \in Browser : browser'[a] = "open" => browser[a] = "open"
    BY <2>1
  <2>3. QED
    BY <2>1, <2>2, OtherAlone
<1>9. CASE UNCHANGED vars
  BY <1>9, OtherAlone DEF vars, envVars, leftVars, rightVars
<1>10. QED
  BY <1>1, <1>2, <1>3, <1>4, <1>5, <1>6, <1>7, <1>8, <1>9
     DEF Next, LeftResponse, RightMove, LeftReturns

LEMMA AloneGives == IInv /\ Alone => AloneWhole
<1> SUFFICES ASSUME IInv, Alone, calm, NEW b \in Browser, Destroyed(b), browser[b] = "open",
                    breq[b] # "lost"
             PROVE  SentTo(b) = {j \in 1 .. Len(link) : link[j] = b}
  BY DEF AloneWhole
<1>1. /\ Own(b) /\ Passing(b) /\ Len(resp[b]) = Len(got[b])
      /\ \A j \in taken + 1 .. Len(link) : link[j] # b
  BY DEF Alone, Finished, IInv, Ends, Destroyed
<1>2. /\ got[b] \in Seq(1 .. Len(link)) /\ resp[b] \in Seq(1 .. Len(link))
      /\ Len(link) \in Nat /\ taken \in 0 .. Len(link)
  BY DEF IInv, TypeOK
<1>3. \A k \in 1 .. Len(resp[b]) :
        resp[b][k] = got[b][k] /\ got[b][k] \in 1 .. Len(link) /\ link[got[b][k]] = b
  <2>1. \A k \in 1 .. Len(got[b]) : got[b][k] \in 1 .. Len(link)
    BY <1>2
  <2>2. /\ \A k \in 1 .. Len(resp[b]) : resp[b][k] = got[b][k]
        /\ \A k \in 1 .. Len(got[b]) : link[got[b][k]] = b
    BY <1>1 DEF Passing, Own
  <2>3. QED
    BY <1>1, <2>1, <2>2
<1>4. \A j \in 1 .. Len(link) : j \in 1 .. taken \/ j \in taken + 1 .. Len(link)
  BY <1>2
<1>5. \A j \in 1 .. Len(link) : link[j] = b => \E k \in 1 .. Len(resp[b]) : resp[b][k] = j
  BY <1>1, <1>3, <1>4 DEF Own
<1>6. QED
  BY <1>3, <1>5 DEF SentTo

\* Without two bridges at a time, and while receive_file gives up on no response
\* that is under way, the files to come are for the one bridge there is.
THEOREM StaysAlone == Spec => []Alone
<1>1. IInv /\ IInv' /\ Alone /\ [Next]_vars => Alone'
  BY StepAlone
<1>2. QED
  BY <1>1, Invariance, InitAlone, PTL DEF Spec

\* As long as browsers come one after the other, and receive_file gives up on no
\* response that is under way, a browser that stays gets its whole response and
\* nothing else, even if the right process dies.
THEOREM AloneGetsAll == Spec => []AloneWhole
<1>1. IInv /\ Alone => AloneWhole
  BY AloneGives
<1>2. QED
  BY <1>1, Invariance, StaysAlone, PTL
-----------------------------------------------------------------------------
(***************************************************************************)
(* What the browsers see of the pair.                                      *)
(***************************************************************************)

\* In the calm the k-th file a bridge received is the k-th of its response.
LEMMA NumberOf ==
  ASSUME IInv, NEW b \in Browser, Own(b), NEW k \in 1 .. Len(got[b])
  PROVE  Number(got[b][k]) = k
<1> DEFINE g == got[b]
           S == {i \in 1 .. g[k] : link[i] = link[g[k]]}
           f == [i \in 1 .. k |-> g[i]]
<1>1. /\ g \in Seq(1 .. Len(link)) /\ Len(link) \in Nat /\ taken \in 0 .. Len(link)
      /\ Len(g) \in Nat /\ \A i \in 1 .. Len(g) : g[i] \in 1 .. Len(link)
  <2>1. g \in Seq(1 .. Len(link)) /\ Len(link) \in Nat /\ taken \in 0 .. Len(link)
    BY DEF IInv, TypeOK
  <2> HIDE DEF g
  <2>2. QED
    BY <2>1
<1>2. /\ \A i \in 1 .. Len(g) : g[i] <= taken /\ link[g[i]] = b
      /\ \A i, j \in 1 .. Len(g) : i < j => g[i] < g[j]
      /\ \A j \in 1 .. taken : link[j] = b => \E i \in 1 .. Len(g) : g[i] = j
  BY DEF IInv, Passing, Own
<1>3. k \in Nat /\ (\A i \in 1 .. k : i \in 1 .. Len(g) /\ (i < k \/ i = k)) /\ g[k] \in Nat
  BY <1>1
<1> HIDE DEF g
<1>4. \A i \in 1 .. k : g[i] \in S
  <2>1. SUFFICES ASSUME NEW i \in 1 .. k PROVE g[i] \in 1 .. g[k] /\ link[g[i]] = link[g[k]]
    OBVIOUS
  <2>2. i \in 1 .. Len(g) /\ (i < k \/ i = k) /\ k \in 1 .. Len(g)
    BY <1>3 DEF g
  <2>3. g[i] \in 1 .. Len(link) /\ g[k] \in 1 .. Len(link) /\ g[i] <= g[k]
    BY <1>1, <1>2, <2>2
  <2>4. QED
    BY <1>1, <1>2, <2>2, <2>3
<1>5. \A i, j \in 1 .. k : g[i] = g[j] => i = j
  <2>1. SUFFICES ASSUME NEW i \in 1 .. k, NEW j \in 1 .. k, i < j PROVE g[i] # g[j]
    BY <1>3
  <2>2. i \in 1 .. Len(g) /\ j \in 1 .. Len(g)
    BY <1>3
  <2>3. g[i] < g[j] /\ g[i] \in Nat /\ g[j] \in Nat
    BY <1>1, <1>2, <2>1, <2>2
  <2>4. QED
    BY <2>3
<1>6. ASSUME NEW n \in S PROVE \E i \in 1 .. k : g[i] = n
  <2>1. k \in 1 .. Len(g)
    BY DEF g
  <2>2. n \in 1 .. taken /\ link[n] = b /\ n <= g[k]
    BY <1>1, <1>2, <2>1
  <2>3. PICK i \in 1 .. Len(g) : g[i] = n
    BY <1>2, <2>2
  <2>4. ~(k < i)
    <3>1. k < i => g[k] < g[i]
      BY <1>2, <2>1
    <3>2. QED
      BY <1>3, <2>2, <2>3, <3>1
  <2>5. i \in 1 .. k
    BY <1>1, <2>4
  <2>6. QED
    BY <2>3, <2>5
<1> HIDE DEF S
<1>7. f \in Bijection(1 .. k, S)
  <2>1. f \in [1 .. k -> S]
    BY <1>4
  <2>2. \A i, j \in 1 .. k : f[i] = f[j] => i = j
    BY <1>5
  <2>3. \A n \in S : \E i \in 1 .. k : f[i] = n
    BY <1>6
  <2>4. QED
    BY <2>1, <2>2, <2>3 DEF Bijection, Injection, Surjection, IsInjective
<1>8. ExistsBijection(1 .. k, S)
  BY <1>7 DEF ExistsBijection
<1>9. Cardinality(S) = k
  BY <1>3, <1>8, FS_CountingElements
<1>10. QED
  BY <1>9 DEF Number, S, g

\* A bridge's answer as long as nothing is sent: what the link gets besides
\* does not change it.
LEMMA AnswerStays ==
  ASSUME TypeOK, UNCHANGED resp, \A j \in 1 .. Len(link) : link'[j] = link[j]
  PROVE  SeenAnswer' = SeenAnswer
<1>1. ASSUME NEW j \in 1 .. Len(link)
      PROVE  Seen(j)' = Seen(j)
  <2>1. \A i \in 1 .. j : i \in 1 .. Len(link)
    BY Sizes
  <2>2. {i \in 1 .. j : link'[i] = link'[j]} = {i \in 1 .. j : link[i] = link[j]}
    BY <2>1
  <2>3. QED
    BY <2>2 DEF Seen, Number
<1>2. ASSUME NEW b \in Browser, NEW k \in 1 .. Len(resp[b])
      PROVE  Seen(resp[b][k])' = Seen(resp[b][k])
  <2>1. resp[b][k] \in 1 .. Len(link)
    <3>1. resp[b] \in Seq(1 .. Len(link))
      BY Sizes
    <3>2. QED
      BY <3>1
  <2>2. resp'[b][k] = resp[b][k]
    OBVIOUS
  <2>3. QED
    BY <1>1, <2>1, <2>2
<1>3. QED
  BY <1>2 DEF SeenAnswer

\* The connection of a bridge that is updated: it stays, or it is closed.
LEMMA StateStays ==
  ASSUME TypeOK, NEW b \in Browser, NEW o, NEW r, NEW q, NEW n, LeftIs(left', b, o, r, q, n),
         o = left[b].open \/ o = FALSE,
         left[b].res = "none" <=> r = "none", UNCHANGED SeenAnswer
  PROVE  Promise!NextNext \/ UNCHANGED <<SeenState, SeenAnswer>>
<1>1. CASE left[b].res = "none" \/ o = left[b].open
  BY <1>1 DEF SeenState, LeftIs
<1>2. CASE left[b].res # "none" /\ left[b].open /\ o = FALSE
  <2>1. SeenState[b] = "open"
    BY <1>2 DEF SeenState
  <2>2. SeenState' = [SeenState EXCEPT ![b] = "closed"]
    BY <1>2 DEF SeenState, LeftIs
  <2>3. Promise!Close({b})
    <3>1. SeenState = [a \in Browser |-> SeenState[a]]
      BY DEF SeenState
    <3>2. SeenState' = [a \in Browser |-> IF a \in {b} THEN "closed" ELSE SeenState[a]]
      BY <2>2, <3>1
    <3>3. QED
      BY <2>1, <3>2 DEF Promise!Close
  <2>4. {b} \in SUBSET Browser
    OBVIOUS
  <2>5. QED
    BY <2>3, <2>4 DEF Promise!NextNext
<1>3. QED
  BY <1>1, <1>2, Fields

\* The next part of a response.
LEMMA SendsPart ==
  ASSUME IInv, IInv', Alone, calm, NEW b \in Browser, LeftUpRead(b), left[b].open, left[b].c # 0
  PROVE  Promise!Answer(b)
<1> DEFINE n == Len(resp[b])
           c == left[b].c
           a == SeenAnswer[b]
           f == [k \in 1 .. n + 1 |-> Seen(resp'[b][k])]
           S == {Seen(resp'[b][k]) : k \in 1 .. n + 1}
<1>1. /\ TypeOK /\ Own(b) /\ Passing(b)
      /\ resp \in [Browser -> Seq(1 .. Len(link))] /\ resp[b] \in Seq(1 .. Len(link)) /\ n \in Nat
      /\ got[b] \in Seq(1 .. Len(link)) /\ Len(link) \in Nat /\ taken \in 0 .. Len(link)
  <2>1. TypeOK /\ Own(b) /\ Passing(b)
    BY DEF IInv, Alone
  <2>2. resp \in [Browser -> Seq(1 .. Len(link))]
    BY <2>1 DEF TypeOK
  <2>3. resp[b] \in Seq(1 .. Len(link))
    BY <2>2
  <2>4. QED
    BY <2>1, <2>2, <2>3, Sizes
<1>2. /\ left[b].res = "read" /\ resp' = [resp EXCEPT ![b] = Append(resp[b], c)]
      /\ UNCHANGED <<got, link>>
      /\ \E res \in {"write", "failed"} : LeftIs(left', b, left[b].open, res, left[b].req, 0)
  BY <1>1, UpReads
<1>3. /\ Len(got[b]) = n + 1 /\ got[b][n + 1] = c /\ n + 1 \in 1 .. Len(got[b])
  BY <1>1 DEF Passing
<1>4. Number(c) = n + 1 /\ link[c] = b
  <2>1. Number(got[b][n + 1]) = n + 1
    BY <1>1, <1>3, NumberOf
  <2>2. link[got[b][n + 1]] = b
    BY <1>1, <1>3 DEF Own
  <2>3. QED
    BY <1>3, <2>1, <2>2
<1>5. Seen(c) = Promise!Part(b, n + 1)
  BY <1>4 DEF Seen, Promise!Part
<1>6. /\ Len(resp'[b]) = n + 1 /\ resp'[b][n + 1] = c
      /\ \A k \in 1 .. n : resp'[b][k] = resp[b][k]
  <2>1. resp'[b] = Append(resp[b], c)
    BY <1>1, <1>2
  <2>2. QED
    BY <1>1, <2>1
<1>7. a = [k \in 1 .. n |-> Seen(resp[b][k])]
  BY DEF SeenAnswer
<1>8. \A x : Seen(x)' = Seen(x)
  BY <1>2 DEF Seen, Number
<1>9. SeenAnswer'[b] = f
  BY <1>6, <1>8 DEF SeenAnswer
<1>10. \A k \in 1 .. n : Seen(resp[b][k]) \in S
  BY <1>1, <1>6
<1>11. a \in [1 .. n -> S] /\ f \in [1 .. n + 1 -> S] /\ Seen(c) \in S
  <2>1. Seen(c) \in S
    <3>1. n + 1 \in 1 .. n + 1
      BY <1>1
    <3>2. Seen(resp'[b][n + 1]) \in S
      BY <3>1
    <3>3. QED
      BY <1>6, <3>2
  <2>2. f \in [1 .. n + 1 -> S]
    OBVIOUS
  <2> HIDE DEF S, f
  <2>3. QED
    BY <1>7, <1>10, <2>1, <2>2
<1>12. /\ \A k \in 1 .. n : a[k] = Seen(resp[b][k]) /\ f[k] = Seen(resp[b][k])
       /\ f[n + 1] = Seen(c)
  <2>1. n + 1 \in 1 .. n + 1 /\ \A k \in 1 .. n : k \in 1 .. n + 1
    BY <1>1
  <2>2. /\ \A k \in 1 .. n + 1 : f[k] = Seen(resp'[b][k])
        /\ \A k \in 1 .. n : a[k] = Seen(resp[b][k])
    BY <1>7
  <2> HIDE DEF a, f, S, n
  <2>3. QED
    BY <1>6, <2>1, <2>2
<1> HIDE DEF a, f, S, n
<1>13. a \in Seq(S) /\ Len(a) = n /\ f \in Seq(S) /\ Len(f) = n + 1
  BY <1>1, <1>11
<1>14. f = Append(a, Seen(c))
  <2>1. /\ Append(a, Seen(c)) \in Seq(S) /\ Len(Append(a, Seen(c))) = n + 1
        /\ \A k \in 1 .. n : Append(a, Seen(c))[k] = a[k]
        /\ Append(a, Seen(c))[n + 1] = Seen(c)
    BY <1>11, <1>13
  <2>2. \A k \in 1 .. n + 1 : k \in 1 .. n \/ k = n + 1
    BY <1>1
  <2>3. \A k \in 1 .. n + 1 : f[k] = Append(a, Seen(c))[k]
    BY <1>12, <2>1, <2>2
  <2>4. QED
    BY <1>13, <2>1, <2>3, SeqEqual
<1>15. \A d \in Browser : d # b => SeenAnswer'[d] = SeenAnswer[d]
  BY <1>1, <1>2, <1>8 DEF SeenAnswer
<1>16. SeenAnswer' = [SeenAnswer EXCEPT ![b] = Append(@, Promise!Part(b, Len(@) + 1))]
  <2>1. Append(SeenAnswer[b], Promise!Part(b, Len(SeenAnswer[b]) + 1)) = SeenAnswer'[b]
    BY <1>5, <1>9, <1>13, <1>14 DEF a
  <2>2. QED
    BY <1>15, <2>1 DEF SeenAnswer
<1>17. SeenAnswer[b] # <<Promise!Bad(b)>>
  <2>1. SUFFICES ASSUME SeenAnswer[b] = <<Promise!Bad(b)>> PROVE FALSE
    OBVIOUS
  <2>2. n = 1 /\ a[1] = Promise!Bad(b)
    BY <1>13, <2>1 DEF a
  <2>3. 1 \in 1 .. n
    BY <2>2
  <2>4. QED
    BY <1>12, <2>2, <2>3 DEF Seen, Promise!Bad
<1>18. SeenState[b] = "open" /\ SeenState' = SeenState
  BY <1>2 DEF SeenState, LeftIs
<1>19. QED
  BY <1>16, <1>17, <1>18 DEF Promise!Answer

\* Steps of the left process.
LEMMA LeftPromise ==
  ASSUME IInv, IInv', Alone, calm', NEW b \in Browser,
         LeftAccept(b) \/ LeftResponse(b) \/ LeftDownRead(b) \/ LeftFails(b)
  PROVE  Promise!NextNext \/ UNCHANGED <<SeenState, SeenAnswer>>
<1>1. TypeOK /\ Begins(b)
  BY DEF IInv
<1>2. link' = link
  BY DEF LeftAccept, LeftResponse, LeftConnect, LeftUpRead, LeftDownWrite, LeftDownRead, LeftFails,
         rightVars
<1>3. CASE LeftAccept(b)
  <2>1. /\ left[b].res = "none" /\ UNCHANGED resp
        /\ LeftIs(left', b, TRUE, "connect", left[b].req, left[b].c)
    <3>1. /\ browser[b] = "away" /\ UNCHANGED resp
          /\ LeftIs(left', b, TRUE, "connect", left[b].req, left[b].c)
      BY <1>1, <1>3, Accepts
    <3>2. left[b] = NoLeft
      BY <1>1, <3>1 DEF Begins
    <3>3. left[b].res = "none"
      BY <3>2 DEF NoLeft
    <3>4. QED
      BY <3>1, <3>3
  <2>2. SeenAnswer' = SeenAnswer
    BY <1>1, <1>2, <2>1, AnswerStays
  <2>3. SeenState[b] = "none" /\ SeenState' = [SeenState EXCEPT ![b] = "open"]
    BY <2>1 DEF SeenState, LeftIs
  <2>4. QED
    BY <2>2, <2>3 DEF Promise!NextNext, Promise!Accept
<1>4. CASE LeftConnect(b)
  <2>1. /\ left[b].res = "connect" /\ UNCHANGED resp
        /\ \/ LeftIs(left', b, left[b].open, "read", "read", left[b].c)
           \/ LeftIs(left', b, FALSE, "done", "done", left[b].c)
    BY <1>1, <1>4, Connects
  <2>2. SeenAnswer' = SeenAnswer
    BY <1>1, <1>2, <2>1, AnswerStays
  <2>3. CASE LeftIs(left', b, left[b].open, "read", "read", left[b].c)
    <3>1. left[b].open = left[b].open \/ left[b].open = FALSE
      OBVIOUS
    <3>2. left[b].res = "none" <=> "read" = "none"
      BY <2>1
    <3>3. QED
      BY <1>1, <2>2, <2>3, <3>1, <3>2, StateStays, Zenon
  <2>4. CASE LeftIs(left', b, FALSE, "done", "done", left[b].c)
    BY <1>1, <2>1, <2>2, <2>4, StateStays
  <2>5. QED
    BY <2>1, <2>3, <2>4
<1>5. CASE LeftUpRead(b)
  <2>1. CASE left[b].open /\ left[b].c # 0
    <3>1. calm
      BY <1>5 DEF LeftUpRead
    <3>2. QED
      BY <1>5, <2>1, <3>1, SendsPart DEF Promise!NextNext
  <2>2. CASE ~(left[b].open /\ left[b].c # 0)
    <3>1. /\ left[b].res = "read" /\ UNCHANGED resp
          /\ \E res \in {"write", "failed"} : LeftIs(left', b, left[b].open, res, left[b].req, 0)
      BY <1>1, <1>5, <2>2, UpReads
    <3>2. SeenAnswer' = SeenAnswer
      BY <1>1, <1>2, <3>1, AnswerStays
    <3>3. QED
      BY <1>1, <3>1, <3>2, StateStays
  <2>3. QED
    BY <2>1, <2>2
<1>6. CASE LeftDownWrite(b)
  <2>1. UNCHANGED <<left, resp>>
    BY <1>6 DEF LeftDownWrite
  <2>2. QED
    BY <1>1, <1>2, <2>1, AnswerStays DEF SeenState
<1>7. CASE LeftDownRead(b)
  <2>1. /\ UNCHANGED resp
        /\ left' = left \/ LeftIs(left', b, left[b].open, left[b].res, "failed", left[b].c)
    BY <1>1, <1>7, DownReads
  <2>2. SeenAnswer' = SeenAnswer
    BY <1>1, <1>2, <2>1, AnswerStays
  <2>3. CASE left' = left
    BY <2>2, <2>3 DEF SeenState
  <2>4. QED
    BY <1>1, <2>1, <2>2, <2>3, StateStays
<1>8. CASE LeftFails(b)
  <2>1. /\ UNCHANGED resp
        /\ \/ left[b].res = "failed" /\ LeftIs(left', b, FALSE, "done", left[b].req, left[b].c)
           \/ \E res \in {left[b].res, "failed"} :
                /\ res # left[b].res => left[b].res = "write"
                /\ LeftIs(left', b, FALSE, res, "done", left[b].c)
    BY <1>1, <1>8, Fails
  <2>2. SeenAnswer' = SeenAnswer
    BY <1>1, <1>2, <2>1, AnswerStays
  <2>3. QED
    BY <1>1, <2>1, <2>2, StateStays
<1>9. QED
  BY <1>3, <1>4, <1>5, <1>6, <1>7, <1>8 DEF LeftResponse

\* receive_file returns.
LEMMA ReturnPromise ==
  ASSUME IInv, LeftReturns
  PROVE  Promise!NextNext \/ UNCHANGED <<SeenState, SeenAnswer>>
<1>1. TypeOK
  BY DEF IInv
<1>2. /\ thread \in Browser /\ UNCHANGED <<resp, link>>
      /\ \E o \in {left[thread].open, FALSE} : \E r \in {"read", "failed"} : \E n :
           LeftIs(left', thread, o, r, left[thread].req, n)
  <2>1. CASE LeftReceives
    <3>1. \E r \in {"read", "failed"} : r = IF left[thread].open THEN "read" ELSE "failed"
      OBVIOUS
    <3>2. QED
      BY <1>1, <2>1, <3>1, Receives
  <2>2. CASE LeftTimesOut
    BY <1>1, <2>2, TimesOut
  <2>3. QED
    BY <2>1, <2>2 DEF LeftReturns
<1>3. left[thread].res = "write"
  BY <1>2 DEF IInv, Ends
<1>4. SeenAnswer' = SeenAnswer
  BY <1>1, <1>2, AnswerStays
<1>5. QED
  BY <1>1, <1>2, <1>3, <1>4, StateStays

LEMMA PromiseStep ==
  ASSUME IInv, IInv', Alone, [Next]_vars
  PROVE  ~calm' \/ Promise!NextNext \/ UNCHANGED <<SeenState, SeenAnswer>>
<1>1. TypeOK
  BY DEF IInv
<1>2. ASSUME UNCHANGED <<left, resp>>, \A j \in 1 .. Len(link) : link'[j] = link[j]
      PROVE  UNCHANGED <<SeenState, SeenAnswer>>
  BY <1>1, <1>2, AnswerStays DEF SeenState
<1>3. ASSUME NEW b \in Browser, RightMove(b)
      PROVE  UNCHANGED <<SeenState, SeenAnswer>>
  <2>1. UNCHANGED <<left, resp>> /\ (link' = link \/ SendsFile(b))
    BY <1>3
       DEF RightMove, RightConnect, RightUpRead, RightSent, RightUpEof, RightDownRead, RightFails, leftVars
  <2>2. QED
    BY <1>1, <1>2, <2>1, Longer
<1>4. CASE RightDies \/ LeftAcceptFails \/ \E b \in Browser : BrowserLeaves(b)
  BY <1>2, <1>4 DEF RightDies, LeftAcceptFails, BrowserLeaves, leftVars, rightVars
<1>5. CASE UNCHANGED vars
  BY <1>2, <1>5 DEF vars, leftVars, rightVars
<1>6. QED
  BY <1>3, <1>4, <1>5, LeftPromise, ReturnPromise DEF Next, LeftResponse, RightMove

\* In the calm the two processes keep, step by step, what NextProxy promises.
THEOREM FrontPromise == Spec => KeepsPromise
<1>1. Init => Promise!NextInit
  <2>1. SUFFICES ASSUME Init PROVE Promise!NextInit
    OBVIOUS
  <2>2. \A b \in Browser : left[b].res = "none" /\ resp[b] = <<>> /\ Len(<<>>) = 0
    BY <2>1 DEF Init, NoLeft
  <2>3. SeenState = [b \in Browser |-> "none"]
    BY <2>2 DEF SeenState
  <2>4. \A b \in Browser : [k \in 1 .. 0 |-> Seen(resp[b][k])] = <<>>
    OBVIOUS
  <2>5. SeenAnswer = [b \in Browser |-> <<>>]
    BY <2>2, <2>4 DEF SeenAnswer
  <2>6. QED
    BY <2>3, <2>5 DEF Promise!NextInit
<1>2. IInv /\ IInv' /\ Alone /\ [Next]_vars
        => [~calm' \/ Promise!NextNext]_<<SeenState, SeenAnswer>>
  BY PromiseStep
<1>3. QED
  BY <1>1, <1>2, Invariance, StaysAlone, PTL DEF Spec, KeepsPromise
=============================================================================
