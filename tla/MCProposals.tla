----------------------------- MODULE MCProposals -----------------------------
(* Instances of Proposals for TLC. *)
EXTENDS Proposals, TLC

CONSTANTS k1, k2, r1

\* One proposal for any recipient, and one for one recipient.
TwoKeys == (k1 :> Anyone) @@ (k2 :> r1)

\* A rule like the approved one, a pattern, and one that looks at the subject.
SomeCriteria ==
  {[sender |-> "exact", to |-> Anyone, narrow |-> FALSE],
   [sender |-> "glob", to |-> Anyone, narrow |-> FALSE],
   [sender |-> "glob", to |-> Anyone, narrow |-> TRUE]}

DestSymmetry == Permutations(Dests)
=============================================================================
