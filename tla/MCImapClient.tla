---------------------------- MODULE MCImapClient ----------------------------
(* Instances of ImapClient for TLC. *)
EXTENDS ImapClient, TLC

FlowSymmetry == Permutations(Flows)
=============================================================================
