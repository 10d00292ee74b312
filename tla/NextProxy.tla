------------------------------ MODULE NextProxy ------------------------------
(***************************************************************************)
(* What those in front of a proxy rely on, whichever proxy it is: on each  *)
(* connection it sends the parts of the answer to that connection, each    *)
(* once and in order, or one refusal and nothing else, and when it has     *)
(* closed the connection it sends nothing more.  How long it takes, how    *)
(* many parts it sends and whether it accepts at all is its own affair.    *)
(***************************************************************************)
EXTENDS Naturals, Sequences

CONSTANT Conn    \* the connections

VARIABLES
  state,    \* of each connection: "none", "open" once accepted, "closed"
  answer    \* what was sent on it

Part(c, n) == [kind |-> "part", of |-> c, nr |-> n]
Bad(c) == [kind |-> "bad", of |-> c, nr |-> 1]

NextInit ==
  /\ state = [c \in Conn |-> "none"]
  /\ answer = [c \in Conn |-> <<>>]

Accept(c) ==
  /\ state[c] = "none"
  /\ state' = [state EXCEPT ![c] = "open"]
  /\ UNCHANGED answer

\* What it sends may be the last before it closes.
Answer(c) ==
  /\ state[c] = "open"
  /\ \/ /\ answer[c] # <<Bad(c)>>
        /\ answer' = [answer EXCEPT ![c] = Append(@, Part(c, Len(@) + 1))]
     \/ /\ answer[c] = <<>>
        /\ answer' = [answer EXCEPT ![c] = <<Bad(c)>>]
  /\ state' = state \/ state' = [state EXCEPT ![c] = "closed"]

\* A process that ends closes all the connections it has at once.
Close(S) ==
  /\ \A c \in S : state[c] = "open"
  /\ state' = [c \in Conn |-> IF c \in S THEN "closed" ELSE state[c]]
  /\ UNCHANGED answer

NextNext ==
  \/ \E c \in Conn : Accept(c) \/ Answer(c)
  \/ \E S \in SUBSET Conn : Close(S)

NextSpec == NextInit /\ [][NextNext]_<<state, answer>>
=============================================================================
