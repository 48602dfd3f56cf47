------------------------------ MODULE Arrival ------------------------------
(***************************************************************************)
(* What the arrival pipeline promises, without its calls, fetches, retries *)
(* and crashes: a message is filed at most once, the log claims only what  *)
(* has happened, and the cursor that survives a restart passes nothing in  *)
(* INBOX that was not dealt with.  Monitor implements it.                  *)
(***************************************************************************)
EXTENDS Naturals

CONSTANT Uids

VARIABLES
  place,    \* where each message is
  dealt,    \* the messages the pipeline is done with, well or badly
  claimed,  \* the messages the log says were moved
  cursor    \* the uid a restart goes on from

vars == << place, dealt, claimed, cursor >>

Inbox == {u \in Uids : place[u] = "inbox"}

Init ==
  /\ place = [u \in Uids |-> "unborn"]
  /\ dealt = {} /\ claimed = {}
  /\ cursor = 0

\* A message arrives, with a uid the cursor has not reached.
Arrives(u) ==
  /\ place[u] = "unborn" /\ u > cursor
  /\ place' = [place EXCEPT ![u] = "inbox"]
  /\ UNCHANGED << dealt, claimed, cursor >>

\* A message leaves INBOX for good: the pipeline files it, or somebody else
\* takes it away.
Leaves(u) ==
  /\ u \in Inbox
  /\ \E to \in {"filed", "away"} : place' = [place EXCEPT ![u] = to]
  /\ UNCHANGED << dealt, claimed, cursor >>

\* The pipeline is done with a message; only of one that has left INBOX may it
\* claim to have moved it.
Reports(u) ==
  /\ place[u] # "unborn"
  /\ dealt' = dealt \cup {u}
  /\ \/ UNCHANGED claimed
     \/ u \notin Inbox /\ claimed' = claimed \cup {u}
  /\ UNCHANGED << place, cursor >>

\* The cursor goes forward, past messages that were dealt with.
Passes(u) ==
  /\ u > cursor
  /\ \A v \in Uids : v <= u => place[v] # "unborn" /\ (v \in Inbox => v \in dealt)
  /\ cursor' = u
  /\ UNCHANGED << place, dealt, claimed >>

Next == \E u \in Uids : Arrives(u) \/ Leaves(u) \/ Reports(u) \/ Passes(u)

Spec == Init /\ [][Next]_vars

=============================================================================
