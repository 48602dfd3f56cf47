----------------------------- MODULE Proposals -----------------------------
(***************************************************************************)
(* ProposalStore, PatternDetector, the routes of web/routes/               *)
(* proposed-rules.ts and the rules they change (ConfigRepository,          *)
(* checkProposalConflict(), evaluateRules()): how signals become a         *)
(* proposal, and a proposal a rule among others.                           *)
(*                                                                         *)
(* A route runs without an await, but the process may be killed between    *)
(* two of its writes; both stores are on disk.  The proposals are those of *)
(* one sender.  A rule's number is its place in the array: rules are       *)
(* appended, and sorted by order when they are evaluated.                  *)
(***************************************************************************)
EXTENDS Naturals, FiniteSets

CONSTANTS
  Keys,         \* the sender's recipients and source folders
  Anyone,       \* no recipient
  To,           \* the envelope recipient of each key, or Anyone
  Dests,        \* folders
  NoDest, NoKey,
  ResurfaceAt,  \* signals that bring a dismissed proposal back: 5
  WebCriteria,  \* criteria of the rules made in the web UI
  MaxRules,     \* bound: rules ever made
  MaxOrder,     \* bound: their order in the web UI
  MaxSignals,   \* bound: signals
  MaxEdits,     \* bound: changes of rules in the web UI
  MaxCrashes    \* bound: crashes

Recipients == {To[k] : k \in Keys} \cup {Anyone}

\* What a rule asks of a message: its sender by name, by a pattern or not at all,
\* the envelope recipient, and fields a proposal knows nothing of (narrow).
Criteria == [sender : {"exact", "glob", "none"}, to : Recipients, narrow : BOOLEAN]
Criterion(k) == [sender |-> "exact", to |-> To[k], narrow |-> FALSE]

ASSUME KeyAssumption == NoKey \notin Keys /\ DOMAIN To = Keys
ASSUME CriteriaAssumption == WebCriteria \subseteq Criteria
ASSUME DestAssumption == IsFiniteSet(Dests) /\ NoDest \notin Dests
ASSUME BoundAssumption ==
  /\ ResurfaceAt \in Nat \ {0} /\ MaxRules \in Nat \ {0} /\ MaxOrder \in Nat
  /\ MaxSignals \in Nat /\ MaxEdits \in Nat /\ MaxCrashes \in Nat

Ids == 1 .. MaxRules
NoRule == 0

VARIABLES
  \* the rules
  rules,     \* of each number: its criteria, order and whether it is enabled
  present,   \* the numbers of the rules there are
  last,      \* the last number given
  \* the proposals
  status,    \* "none" before the first signal
  counts,    \* destination_counts
  rank,      \* the place of each destination in them, or 0
  dest,      \* destination_folder
  since,     \* signals_since_dismiss
  \* the approval that is running
  route,     \* "idle", or the write it comes to next
  routeKey,    \* the proposal
  routeTarget, \* the rule that the new one is to come before
  \* history
  lately,    \* signals counted for each key since it was dismissed last
  logged, edits, crashes

ruleVars == << rules, present, last >>
countVars == << counts, rank, dest >>
propVars == << countVars, status, since, lately >>
routeVars == << route, routeKey, routeTarget >>
bounds == << logged, edits, crashes >>
vars == << ruleVars, propVars, routeVars, bounds >>

Rules == [crit : Criteria, order : Nat, enabled : BOOLEAN]
Rule(c, o, e) == [crit |-> c, order |-> o, enabled |-> e]

\* What stands for a rule that is not there.
Blank == Rule([sender |-> "none", to |-> Anyone, narrow |-> TRUE], 0, FALSE)

TypeOK ==
  /\ rules \in [Ids -> Rules]
  /\ present \subseteq Ids /\ last \in 0 .. MaxRules
  /\ \A i \in present : i <= last
  /\ status \in [Keys -> {"none", "active", "dismissed", "approved"}]
  /\ counts \in [Keys -> [Dests -> Nat]]
  /\ rank \in [Keys -> [Dests -> 0 .. Cardinality(Dests)]]
  /\ dest \in [Keys -> Dests \cup {NoDest}]
  /\ since \in [Keys -> 0 .. ResurfaceAt] /\ lately \in [Keys -> Nat]
  /\ route \in {"idle", "add", "mark"}
  /\ routeKey \in Keys \cup {NoKey} /\ routeTarget \in Ids \cup {NoRule}
  /\ logged \in 0 .. MaxSignals /\ edits \in 0 .. MaxEdits /\ crashes \in 0 .. MaxCrashes

Init ==
  /\ rules = [i \in Ids |-> Blank]
  /\ present = {} /\ last = 0
  /\ status = [k \in Keys |-> "none"]
  /\ counts = [k \in Keys |-> [d \in Dests |-> 0]]
  /\ rank = [k \in Keys |-> [d \in Dests |-> 0]]
  /\ dest = [k \in Keys |-> NoDest]
  /\ since = [k \in Keys |-> 0] /\ lately = [k \in Keys |-> 0]
  /\ route = "idle" /\ routeKey = NoKey /\ routeTarget = NoRule
  /\ logged = 0 /\ edits = 0 /\ crashes = 0

-----------------------------------------------------------------------------
(* What the rules do.                                                      *)

\* Rules are evaluated by order; those of one order stay in their places.
Before(i, j) ==
  \/ rules[i].order < rules[j].order
  \/ rules[i].order = rules[j].order /\ i < j

\* A rule that catches every message of the key.
Catches(i, k) ==
  /\ rules[i].enabled /\ ~rules[i].crit.narrow
  /\ rules[i].crit.to \in {Anyone, To[k]}

\* The rule the evaluator finds for the key, whose messages no narrow rule wants.
Wins(i, k) ==
  /\ i \in present /\ Catches(i, k)
  /\ \A j \in present : Catches(j, k) => j = i \/ Before(i, j)

\* The rules checkProposalConflict() calls exact, and those it calls shadows
\* when no rule is exact.
Exact(i, k) ==
  /\ i \in present /\ rules[i].enabled
  /\ rules[i].crit = Criterion(k)

Shadow(i, k) ==
  /\ i \in present /\ rules[i].enabled
  /\ rules[i].crit.sender = "glob" /\ ~rules[i].crit.narrow
  /\ rules[i].crit.to = To[k]

-----------------------------------------------------------------------------
(* Signals.                                                                *)

AtRest == route = "idle"

\* The destination of most signals; of several, the first there was.
Dominant(d, c, r) ==
  \A e \in Dests : c[e] < c[d] \/ (c[e] = c[d] /\ (e = d \/ r[d] < r[e]))

\* Faulty variant: the newest destination is taken.
Counts_Newest(k, d) ==
  /\ counts' = [counts EXCEPT ![k][d] = @ + 1]
  /\ rank' = IF rank[k][d] # 0
               THEN rank
               ELSE [rank EXCEPT ![k][d] = Cardinality({e \in Dests : rank[k][e] # 0}) + 1]
  /\ dest' = [dest EXCEPT ![k] = d]

\* Faulty variant: the destination is put at the end of the counts each time.
Counts_AtEnd(k, d) ==
  /\ counts' = [counts EXCEPT ![k][d] = @ + 1]
  /\ rank' = [rank EXCEPT ![k][d] = Cardinality({e \in Dests : rank[k][e] # 0}) + 1]
  /\ \E e \in Dests :
       Dominant(e, counts'[k], rank'[k]) /\ dest' = [dest EXCEPT ![k] = e]

\* One signal more for the destination.
Counts(k, d) ==
  /\ counts' = [counts EXCEPT ![k][d] = @ + 1]
  /\ rank' = IF rank[k][d] # 0
               THEN rank
               ELSE [rank EXCEPT ![k][d] = Cardinality({e \in Dests : rank[k][e] # 0}) + 1]
  /\ \E e \in Dests :
       Dominant(e, counts'[k], rank'[k]) /\ dest' = [dest EXCEPT ![k] = e]

\* A dismissed proposal comes back after enough signals.
Resurfacing(k) ==
  /\ since' = [since EXCEPT ![k] = IF status[k] = "dismissed" THEN @ + 1 ELSE @]
  /\ status' = [status EXCEPT ![k] =
       CASE @ = "none" -> "active"
         [] @ = "dismissed" /\ since'[k] >= ResurfaceAt -> "active"
         [] OTHER -> @]

\* The tracker logs a signal, and its proposal is made or updated in one
\* transaction.  An approved proposal is left alone.
Signal(k, d) ==
  /\ AtRest /\ status[k] # "approved"
  /\ logged < MaxSignals /\ logged' = logged + 1
  /\ Counts(k, d)
  /\ Resurfacing(k)
  /\ lately' = [lately EXCEPT ![k] = @ + 1]
  /\ UNCHANGED << ruleVars, routeVars, edits, crashes >>

\* Faulty variant: the counter is left as it is.
Dismiss_KeepsCounter(k) ==
  /\ AtRest /\ status[k] # "none"
  /\ status' = [status EXCEPT ![k] = "dismissed"]
  /\ lately' = [lately EXCEPT ![k] = 0]
  /\ UNCHANGED << ruleVars, countVars, since, routeVars, bounds >>

\* Whatever the proposal's status, approved ones included.
Dismiss(k) ==
  /\ AtRest /\ status[k] # "none"
  /\ status' = [status EXCEPT ![k] = "dismissed"]
  /\ since' = [since EXCEPT ![k] = 0]
  /\ lately' = [lately EXCEPT ![k] = 0]
  /\ UNCHANGED << ruleVars, countVars, routeVars, bounds >>

-----------------------------------------------------------------------------
(* Approval.                                                               *)

\* nextOrder(), the one behind that of every rule, as a set of one.
NextOrder ==
  IF present = {} THEN {0}
  ELSE {rules[i].order + 1 :
          i \in {j \in present : \A h \in present : rules[h].order <= rules[j].order}}

\* Faulty variant: only the rule itself makes room.
Shifted_Alone(t) ==
  [i \in Ids |-> IF i = t THEN [rules[i] EXCEPT !.order = @ + 1] ELSE rules[i]]

\* Every rule from t's order on makes room.
Shifted(t) ==
  [i \in Ids |-> IF i \in present /\ rules[i].order >= rules[t].order
                   THEN [rules[i] EXCEPT !.order = @ + 1]
                   ELSE rules[i]]

Starts(k, t) == route' = "add" /\ routeKey' = k /\ routeTarget' = t

\* Faulty variant: an exact match can be overridden as a shadow can.
ApproveAppends_Twice(k) ==
  /\ AtRest /\ status[k] # "none" /\ last < MaxRules
  /\ ~\E i \in Ids : Shadow(i, k)
  /\ Starts(k, NoRule)
  /\ UNCHANGED << ruleVars, propVars, bounds >>

\* Without a conflict; with one the route answers 409 and changes nothing.
ApproveAppends(k) ==
  /\ AtRest /\ status[k] # "none" /\ last < MaxRules
  /\ ~\E i \in Ids : Exact(i, k) \/ Shadow(i, k)
  /\ Starts(k, NoRule)
  /\ UNCHANGED << ruleVars, propVars, bounds >>

\* With a shadow, insertBefore names a rule; the rules are reordered and saved.
ApproveInserts(k, t) ==
  /\ AtRest /\ status[k] # "none" /\ last < MaxRules
  /\ ~\E i \in Ids : Exact(i, k)
  /\ \E i \in Ids : Shadow(i, k)
  /\ t \in present
  /\ rules' = Shifted(t)
  /\ Starts(k, t)
  /\ UNCHANGED << present, last, propVars, bounds >>

\* addRule().  The target's order is read from the rule itself, after the shift.
Adds ==
  /\ route = "add"
  /\ \E o \in IF routeTarget = NoRule THEN NextOrder ELSE {rules[routeTarget].order} :
       rules' = [rules EXCEPT ![last + 1] = Rule(Criterion(routeKey), o, TRUE)]
  /\ last' = last + 1
  /\ present' = present \cup {last + 1}
  /\ route' = "mark"
  /\ UNCHANGED << propVars, routeKey, routeTarget, bounds >>

\* The rule's id, which is stored too, is read by nothing.
Approved(k) == status' = [status EXCEPT ![k] = "approved"]

Rests == route' = "idle" /\ routeKey' = NoKey /\ routeTarget' = NoRule

\* approveProposal()
Marks ==
  /\ route = "mark"
  /\ Approved(routeKey)
  /\ Rests
  /\ UNCHANGED << ruleVars, countVars, since, lately, bounds >>

\* Modify: the web UI made the rule and marks the proposal.
MarkApproved(k) ==
  /\ AtRest /\ status[k] # "none"
  /\ Approved(k)
  /\ UNCHANGED << ruleVars, countVars, since, lately, routeVars, bounds >>

-----------------------------------------------------------------------------
(* The rules in the web UI.                                                *)

Edits == AtRest /\ edits < MaxEdits /\ edits' = edits + 1

\* Two rules with the criteria of one proposal.
Twins(i, j, r) ==
  /\ i # j /\ r[i].enabled /\ r[j].enabled
  /\ r[i].crit = r[j].crit /\ \E k \in Keys : r[i].crit = Criterion(k)

\* The user does not make such rules by hand; addRule() would let them.
ByHand(p, r) == ~\E i, j \in p : Twins(i, j, r)

WebAdd(c, o) ==
  /\ Edits /\ last < MaxRules
  /\ rules' = [rules EXCEPT ![last + 1] = Rule(c, o, TRUE)]
  /\ last' = last + 1
  /\ present' = present \cup {last + 1}
  /\ ByHand(present', rules')
  /\ UNCHANGED << propVars, routeVars, logged, crashes >>

\* A rule is replaced by another, in its place.
WebUpdate(i, c, o, e) ==
  /\ Edits /\ i \in present
  /\ rules' = [rules EXCEPT ![i] = Rule(c, o, e)]
  /\ ByHand(present, rules')
  /\ UNCHANGED << present, last, propVars, routeVars, logged, crashes >>

WebDelete(i) ==
  /\ Edits /\ i \in present
  /\ present' = present \ {i}
  /\ rules' = [rules EXCEPT ![i] = Blank]
  /\ UNCHANGED << last, propVars, routeVars, logged, crashes >>

WebReorder(f) ==
  /\ Edits
  /\ rules' = [i \in Ids |-> IF i \in present THEN [rules[i] EXCEPT !.order = f[i]]
                                              ELSE rules[i]]
  /\ UNCHANGED << present, last, propVars, routeVars, logged, crashes >>

-----------------------------------------------------------------------------
\* The process is killed in the middle of an approval.  (Killed between a
\* signal and its proposal, it loses the signal to the proposal.)
Crash ==
  /\ ~AtRest /\ crashes < MaxCrashes /\ crashes' = crashes + 1
  /\ Rests
  /\ UNCHANGED << ruleVars, propVars, logged, edits >>

Next ==
  \/ \E k \in Keys :
       \/ \E d \in Dests : Signal(k, d)
       \/ Dismiss(k) \/ ApproveAppends(k) \/ MarkApproved(k)
       \/ \E i \in Ids : ApproveInserts(k, i)
  \/ Adds \/ Marks
  \/ \E c \in WebCriteria, o \in 0 .. MaxOrder :
       \/ WebAdd(c, o)
       \/ \E i \in Ids, e \in BOOLEAN : WebUpdate(i, c, o, e)
  \/ \E i \in Ids : WebDelete(i)
  \/ \E f \in [Ids -> 0 .. MaxOrder] : WebReorder(f)
  \/ Crash

Spec == Init /\ [][Next]_vars

-----------------------------------------------------------------------------
(* Properties.                                                             *)

\* IX-005.2: whatever is approved, dismissed, approved again, or cut off by a
\* crash and retried, approvals make no two rules with the same criteria
\* (checkProposalConflict(), exact).
NoTwins == \A i, j \in present : ~Twins(i, j, rules)

\* An approval leaves every message to the rule that had it, except that a rule
\* put before another takes its own (nextOrder(), reorderRules()).
KeepsMessages ==
  [][~AtRest \/ ~AtRest' =>
       \A k \in Keys : \A i \in present :
         Wins(i, k) => Wins(i, k)' \/ (routeTarget # NoRule /\ Wins(last, k)')]_vars

\* A dismissed proposal stays away until enough new signals, and a proposal that
\* came back had them all since it was dismissed last (upsertProposal()).
Resurfaces ==
  \A k \in Keys :
    /\ status[k] = "dismissed" => lately[k] < ResurfaceAt
    /\ status[k] = "active" /\ since[k] > 0 => lately[k] >= ResurfaceAt

\* The folder a rule would get is one the user moved most of the messages to
\* (upsertProposal()).
DominantIsRight ==
  \A k \in Keys :
    status[k] # "none" => \A d \in Dests : counts[k][d] <= counts[k][dest[k]]

=============================================================================
