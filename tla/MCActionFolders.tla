-------------------------- MODULE MCActionFolders --------------------------
(* Instances of ActionFolders for TLC. *)
EXTENDS ActionFolders, TLC

VipBlock == {"vip", "block"}
VipUndo == {"vip", "undoVip"}
Symmetry == Permutations(Messages) \cup Permutations(Pollers)
=============================================================================
