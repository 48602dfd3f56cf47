---------------------------- MODULE MCSentinel ----------------------------
(* Instances of Sentinel for TLC. *)
EXTENDS Sentinel, TLC

CONSTANTS rule, review, vip, a, b

\* A rule, the review settings and an action folder share a folder; the other
\* folder is there, and nothing names it.
Shared == {[folders |-> {a, b}, ref |-> (rule :> a) @@ (review :> a) @@ (vip :> a),
            on |-> {rule, review, vip}]}
===========================================================================
