------------------------------ MODULE MCFiling ------------------------------
(* Instances of Filing for TLC. *)
EXTENDS Filing, TLC

\* Two folders; read mail may be filed earlier or later than unread mail.
TwoSettings ==
  {[folder |-> "review", read |-> 0, unread |-> 1],
   [folder |-> "other", read |-> 1, unread |-> 0]}

MessageSymmetry == Permutations(Messages)
=============================================================================
