-------------------------- MODULE Proposals_proofs --------------------------
(***************************************************************************)
(* Theorems about Proposals, for any number of keys, destinations, rules,  *)
(* signals, edits and crashes.                                             *)
(***************************************************************************)
EXTENDS Proposals, FiniteSetTheorems, TLAPS

USE KeyAssumption, CriteriaAssumption, BoundAssumption

\* An approval under way is of a proposal there is, has room for a rule and met
\* no rule with the same criteria; its target is a rule there is.
RouteInv ==
  /\ route # "idle" => routeKey \in Keys /\ status[routeKey] # "none"
  /\ route = "add" => last < MaxRules /\ \A i \in present : ~Exact(i, routeKey)
  /\ route # "idle" => routeTarget \in present \cup {NoRule}

\* While a proposal is dismissed the counter counts the signals since then.
CounterInv ==
  \A k \in Keys :
    /\ status[k] = "dismissed" => since[k] = lately[k] /\ lately[k] < ResurfaceAt
    /\ status[k] = "active" /\ since[k] > 0 => lately[k] >= ResurfaceAt
    /\ status[k] = "none" => since[k] = 0

\* A proposal there is has a destination, and none has more signals.
DestInv ==
  \A k \in Keys : status[k] # "none" =>
    dest[k] \in Dests /\ \A d \in Dests : counts[k][d] <= counts[k][dest[k]]

IInv == TypeOK /\ RouteInv /\ CounterInv /\ DestInv /\ NoTwins

-----------------------------------------------------------------------------
(* Types of the pieces.                                                    *)

\* The recipient of a key may be asked for, and a rule is what Rule() makes.
LEMMA CriterionType == \A k \in Keys : Criterion(k) \in Criteria
  BY DEF Criterion, Criteria, Recipients

\* Criteria, an order and a flag make a rule.
LEMMA RuleType == \A c \in Criteria, o \in Nat, e \in BOOLEAN : Rule(c, o, e) \in Rules
  BY DEF Rule, Rules

\* What stands for a missing rule has the type of one.
LEMMA BlankType == Blank \in Rules
<1>1. [sender |-> "none", to |-> Anyone, narrow |-> TRUE] \in Criteria
  BY DEF Criteria, Recipients
<1> QED BY <1>1, RuleType DEF Blank

\* Moving a rule changes its order only.
LEMMA MovedType ==
  \A r \in Rules, o \in Nat :
    /\ [r EXCEPT !.order = o] \in Rules
    /\ [r EXCEPT !.order = o].crit = r.crit
    /\ [r EXCEPT !.order = o].enabled = r.enabled
    /\ [r EXCEPT !.order = o].order = o
  BY DEF Rules

\* A new destination has a place among all there are.
LEMMA NewRank ==
  ASSUME NEW r \in [Dests -> Nat], NEW d \in Dests, r[d] = 0
  PROVE  Cardinality({e \in Dests : r[e] # 0}) + 1 \in 0 .. Cardinality(Dests)
<1> DEFINE S == {e \in Dests : r[e] # 0}
<1>1. S \subseteq Dests \ {d} BY Zenon
<1>2. IsFiniteSet(Dests) /\ IsFiniteSet(Dests \ {d})
  BY DestAssumption, FS_RemoveElement
<1>3. Cardinality(Dests \ {d}) = Cardinality(Dests) - 1 /\ Cardinality(Dests) \in Nat
  BY <1>2, FS_RemoveElement, FS_CardinalityType
<1>4. IsFiniteSet(S) /\ Cardinality(S) <= Cardinality(Dests \ {d})
  BY <1>1, <1>2, FS_Subset
<1>5. Cardinality(S) \in Nat BY <1>4, FS_CardinalityType
<1> HIDE DEF S
<1>6. Cardinality(S) + 1 \in 0 .. Cardinality(Dests) BY <1>3, <1>4, <1>5
<1> QED BY <1>6 DEF S

-----------------------------------------------------------------------------
(* What the steps do to the rules.                                         *)

\* The next order lies behind every rule there is.
LEMMA NextOrderType ==
  ASSUME TypeOK
  PROVE  \A o \in NextOrder : o \in Nat /\ \A j \in present : rules[j].order < o
<1> SUFFICES ASSUME NEW o \in NextOrder PROVE o \in Nat /\ \A j \in present : rules[j].order < o
  OBVIOUS
<1>1. \A j \in present : rules[j].order \in Nat BY DEF TypeOK, Rules
<1>2. CASE present = {} BY <1>2 DEF NextOrder
<1>3. CASE present # {}
  <2>1. PICK i \in present : /\ \A h \in present : rules[h].order <= rules[i].order
                             /\ o = rules[i].order + 1
    BY <1>3 DEF NextOrder
  <2> QED BY <1>1, <2>1
<1> QED BY <1>2, <1>3

\* Making room changes no criteria, and keeps which rule comes before which.
LEMMA ShiftedKeeps ==
  ASSUME TypeOK, NEW t \in present
  PROVE  /\ Shifted(t) \in [Ids -> Rules]
         /\ \A i \in Ids : /\ Shifted(t)[i].crit = rules[i].crit
                           /\ Shifted(t)[i].enabled = rules[i].enabled
         /\ \A i, j \in present : Before(i, j) =>
              \/ Shifted(t)[i].order < Shifted(t)[j].order
              \/ Shifted(t)[i].order = Shifted(t)[j].order /\ i < j
<1> DEFINE o(i) == IF i \in present /\ rules[i].order >= rules[t].order
                     THEN rules[i].order + 1 ELSE rules[i].order
<1>1. present \subseteq Ids /\ rules \in [Ids -> Rules] BY DEF TypeOK
<1>2. \A i \in Ids : rules[i].order \in Nat BY <1>1 DEF Rules
<1>3. \A i \in Ids : rules[i].order + 1 \in Nat BY <1>2
<1>4. ASSUME NEW i \in Ids
      PROVE  /\ Shifted(t)[i] \in Rules
             /\ Shifted(t)[i].crit = rules[i].crit
             /\ Shifted(t)[i].enabled = rules[i].enabled
             /\ Shifted(t)[i].order = o(i)
  <2>1. rules[i] \in Rules BY <1>1
  <2>2. CASE i \in present /\ rules[i].order >= rules[t].order
    <3>1. Shifted(t)[i] = [rules[i] EXCEPT !.order = rules[i].order + 1]
      BY <2>1, <2>2 DEF Shifted, Rules
    <3> QED BY <1>3, <2>1, <2>2, <3>1, MovedType
  <2>3. CASE ~(i \in present /\ rules[i].order >= rules[t].order)
    BY <2>1, <2>3 DEF Shifted
  <2> QED BY <2>2, <2>3
<1>5. Shifted(t) \in [Ids -> Rules] BY <1>4 DEF Shifted
<1>6. ASSUME NEW i \in present, NEW j \in present, Before(i, j)
      PROVE  o(i) < o(j) \/ (o(i) = o(j) /\ i < j)
  BY <1>1, <1>2, <1>6 DEF Before, Ids
<1> QED BY <1>1, <1>4, <1>5, <1>6

\* A rule that is added takes a number that is free.
LEMMA AddedRule ==
  ASSUME TypeOK, NEW r \in Rules, last < MaxRules,
         rules' = [rules EXCEPT ![last + 1] = r], last' = last + 1,
         present' = present \cup {last + 1}
  PROVE  /\ last + 1 \in Ids /\ last + 1 \notin present
         /\ rules' \in [Ids -> Rules] /\ rules'[last + 1] = r
         /\ \A i \in present : rules'[i] = rules[i] /\ i < last + 1
         /\ present' \subseteq Ids /\ last' \in 0 .. MaxRules
         /\ \A i \in present' : i <= last'
<1>1. last + 1 \in Ids /\ \A i \in present : i < last + 1 /\ i \in Ids
  BY DEF TypeOK, Ids
<1>2. rules \in [Ids -> Rules] BY DEF TypeOK
<1>3. last' \in 0 .. MaxRules BY DEF TypeOK
<1>4. last + 1 \notin present BY <1>1 DEF Ids
<1>5. \A i \in present : i # last + 1 BY <1>4
<1>6. rules' \in [Ids -> Rules] BY <1>1, <1>2
<1>7. rules'[last + 1] = r /\ \A i \in present : rules'[i] = rules[i] BY <1>1, <1>2, <1>5
<1>8. \A i \in present' : i <= last' BY <1>1 DEF Ids
<1> QED BY <1>1, <1>3, <1>4, <1>6, <1>7, <1>8

\* The rule of an approval has its criteria, is enabled, and without a target it
\* comes after every rule there is.
LEMMA AddsRule ==
  ASSUME TypeOK, RouteInv, Adds
  PROVE  \E o \in Nat :
           /\ Rule(Criterion(routeKey), o, TRUE) \in Rules
           /\ rules' = [rules EXCEPT ![last + 1] = Rule(Criterion(routeKey), o, TRUE)]
           /\ routeTarget = NoRule => \A j \in present : rules[j].order < o
<1>1. PICK o \in IF routeTarget = NoRule THEN NextOrder ELSE {rules[routeTarget].order} :
        rules' = [rules EXCEPT ![last + 1] = Rule(Criterion(routeKey), o, TRUE)]
  BY DEF Adds
<1>2. routeTarget \in present \cup {NoRule} /\ routeKey \in Keys BY DEF RouteInv, Adds
<1>3. o \in Nat /\ (routeTarget = NoRule => \A j \in present : rules[j].order < o)
  <2>1. CASE routeTarget = NoRule BY <1>1, <2>1, NextOrderType
  <2>2. CASE routeTarget # NoRule
    <3>1. routeTarget \in Ids /\ rules[routeTarget] \in Rules BY <1>2, <2>2 DEF TypeOK
    <3> QED BY <1>1, <2>2, <3>1 DEF Rules
  <2> QED BY <2>1, <2>2
<1>4. Rule(Criterion(routeKey), o, TRUE) \in Rules BY <1>2, <1>3, CriterionType, RuleType
<1> QED BY <1>1, <1>3, <1>4

-----------------------------------------------------------------------------
(* Types.                                                                  *)

\* The initial state has the types and satisfies every invariant.
LEMMA InitHolds == Init => IInv
<1> SUFFICES ASSUME Init PROVE IInv OBVIOUS
<1>1. Cardinality(Dests) \in Nat BY DestAssumption, FS_CardinalityType
<1>2. TypeOK
  <2>1. rules \in [Ids -> Rules] BY BlankType DEF Init
  <2>2. rank \in [Keys -> [Dests -> 0 .. Cardinality(Dests)]] BY <1>1 DEF Init
  <2>3. counts \in [Keys -> [Dests -> Nat]] BY DEF Init
  <2> QED BY <2>1, <2>2, <2>3 DEF Init, TypeOK
<1>3. RouteInv /\ NoTwins BY DEF Init, RouteInv, NoTwins
<1>4. CounterInv /\ DestInv BY DEF Init, CounterInv, DestInv
<1> QED BY <1>2, <1>3, <1>4 DEF IInv

\* A signal keeps the types of the counts.
LEMMA CountsType ==
  ASSUME TypeOK, NEW k \in Keys, NEW d \in Dests, Counts(k, d)
  PROVE  /\ counts' \in [Keys -> [Dests -> Nat]]
         /\ rank' \in [Keys -> [Dests -> 0 .. Cardinality(Dests)]]
         /\ dest' \in [Keys -> Dests \cup {NoDest}]
<1>1. counts' \in [Keys -> [Dests -> Nat]]
  <2>1. counts[k] \in [Dests -> Nat] BY DEF TypeOK
  <2>2. [counts[k] EXCEPT ![d] = counts[k][d] + 1] \in [Dests -> Nat] BY <2>1
  <2> QED BY <2>2 DEF Counts, TypeOK
<1>2. rank' \in [Keys -> [Dests -> 0 .. Cardinality(Dests)]]
  <2>1. CASE rank[k][d] # 0 BY <2>1 DEF Counts, TypeOK
  <2>2. CASE rank[k][d] = 0
    <3> DEFINE n == Cardinality({e \in Dests : rank[k][e] # 0}) + 1
    <3>1. rank[k] \in [Dests -> 0 .. Cardinality(Dests)] BY DEF TypeOK
    <3>2. rank[k] \in [Dests -> Nat] BY <3>1
    <3>3. n \in 0 .. Cardinality(Dests) BY <2>2, <3>2, NewRank
    <3>4. rank' = [rank EXCEPT ![k][d] = n] BY <2>2 DEF Counts
    <3> HIDE DEF n
    <3>5. [rank[k] EXCEPT ![d] = n] \in [Dests -> 0 .. Cardinality(Dests)] BY <3>1, <3>3
    <3> QED BY <3>4, <3>5 DEF TypeOK
  <2> QED BY <2>1, <2>2
<1>3. dest' \in [Keys -> Dests \cup {NoDest}] BY DEF Counts, TypeOK
<1> QED BY <1>1, <1>2, <1>3

\* A signal keeps the types of the status and of the counter.
LEMMA ResurfacingType ==
  ASSUME TypeOK, CounterInv, NEW k \in Keys, Resurfacing(k)
  PROVE  /\ status' \in [Keys -> {"none", "active", "dismissed", "approved"}]
         /\ since' \in [Keys -> 0 .. ResurfaceAt]
         /\ since'[k] = IF status[k] = "dismissed" THEN since[k] + 1 ELSE since[k]
         /\ status'[k] = IF status[k] = "none" \/ (status[k] = "dismissed" /\ since'[k] >= ResurfaceAt)
                           THEN "active" ELSE status[k]
         /\ \A x \in Keys \ {k} : since'[x] = since[x] /\ status'[x] = status[x]
<1> DEFINE n == IF status[k] = "dismissed" THEN since[k] + 1 ELSE since[k]
<1> DEFINE s == IF status[k] = "none" \/ (status[k] = "dismissed" /\ since'[k] >= ResurfaceAt)
                  THEN "active" ELSE status[k]
<1>1. n \in 0 .. ResurfaceAt
  <2>1. since[k] \in 0 .. ResurfaceAt /\ lately[k] \in Nat BY DEF TypeOK
  <2>2. status[k] = "dismissed" => since[k] < ResurfaceAt BY DEF CounterInv
  <2> QED BY <2>1, <2>2
<1>2. since' = [since EXCEPT ![k] = n] BY DEF Resurfacing
<1>3. status[k] \in {"none", "active", "dismissed", "approved"} BY DEF TypeOK
<1>4. status' = [status EXCEPT ![k] = s]
  <2>1. (CASE status[k] = "none" -> "active"
           [] status[k] = "dismissed" /\ since'[k] >= ResurfaceAt -> "active"
           [] OTHER -> status[k]) = s
    OBVIOUS
  <2> QED BY <2>1 DEF Resurfacing
<1>5. s \in {"none", "active", "dismissed", "approved"} BY <1>3
<1> HIDE DEF n, s
<1>6. since' \in [Keys -> 0 .. ResurfaceAt] /\ since'[k] = n BY <1>1, <1>2 DEF TypeOK
<1>7. status' \in [Keys -> {"none", "active", "dismissed", "approved"}] /\ status'[k] = s
  BY <1>4, <1>5 DEF TypeOK
<1>8. \A x \in Keys \ {k} : since'[x] = since[x] /\ status'[x] = status[x]
  BY <1>2, <1>4 DEF TypeOK
<1> QED BY <1>6, <1>7, <1>8 DEF n, s

\* Signals and dismissals keep the types.
LEMMA SignalType ==
  ASSUME TypeOK, CounterInv, NEW k \in Keys,
         Dismiss(k) \/ MarkApproved(k) \/ \E d \in Dests : Signal(k, d)
  PROVE  TypeOK'
<1>1. CASE Dismiss(k)
  <2>1. 0 \in 0 .. ResurfaceAt OBVIOUS
  <2>2. /\ since' \in [Keys -> 0 .. ResurfaceAt] /\ lately' \in [Keys -> Nat]
        /\ status' \in [Keys -> {"none", "active", "dismissed", "approved"}]
    BY <1>1, <2>1 DEF Dismiss, TypeOK
  <2> QED BY <1>1, <2>2 DEF Dismiss, TypeOK, ruleVars, countVars, routeVars, bounds
<1>2. CASE MarkApproved(k)
  BY <1>2 DEF MarkApproved, Approved, TypeOK, ruleVars, countVars, routeVars, bounds
<1>3. ASSUME NEW d \in Dests, Signal(k, d) PROVE TypeOK'
  <2>1. Counts(k, d) /\ Resurfacing(k) BY <1>3 DEF Signal
  <2>2. /\ counts' \in [Keys -> [Dests -> Nat]]
        /\ rank' \in [Keys -> [Dests -> 0 .. Cardinality(Dests)]]
        /\ dest' \in [Keys -> Dests \cup {NoDest}]
    BY <2>1, CountsType
  <2>3. /\ status' \in [Keys -> {"none", "active", "dismissed", "approved"}]
        /\ since' \in [Keys -> 0 .. ResurfaceAt]
    BY <2>1, ResurfacingType
  <2>4. lately' \in [Keys -> Nat] /\ logged' \in 0 .. MaxSignals BY <1>3 DEF Signal, TypeOK
  <2> QED BY <1>3, <2>2, <2>3, <2>4 DEF Signal, TypeOK, ruleVars, routeVars
<1> QED BY <1>1, <1>2, <1>3

\* The steps of an approval keep the types.
LEMMA ApprovalType ==
  ASSUME TypeOK, RouteInv,
         \/ \E k \in Keys : ApproveAppends(k) \/ \E t \in Ids : ApproveInserts(k, t)
         \/ Adds \/ Marks \/ Crash
  PROVE  TypeOK'
<1>1. ASSUME NEW k \in Keys, ApproveAppends(k) PROVE TypeOK'
  BY <1>1 DEF ApproveAppends, Starts, TypeOK, ruleVars, propVars, countVars, bounds
<1>2. ASSUME NEW k \in Keys, NEW t \in Ids, ApproveInserts(k, t) PROVE TypeOK'
  <2>1. rules' \in [Ids -> Rules] BY <1>2, ShiftedKeeps DEF ApproveInserts
  <2> QED BY <1>2, <2>1 DEF ApproveInserts, Starts, TypeOK, propVars, countVars, bounds
<1>3. CASE Adds
  <2>1. last < MaxRules BY <1>3 DEF Adds, RouteInv
  <2>2. PICK o \in Nat :
          /\ Rule(Criterion(routeKey), o, TRUE) \in Rules
          /\ rules' = [rules EXCEPT ![last + 1] = Rule(Criterion(routeKey), o, TRUE)]
    BY <1>3, AddsRule
  <2>3. last' = last + 1 /\ present' = present \cup {last + 1} BY <1>3 DEF Adds
  <2>4. /\ rules' \in [Ids -> Rules] /\ present' \subseteq Ids /\ last' \in 0 .. MaxRules
        /\ \A i \in present' : i <= last'
    BY <2>1, <2>2, <2>3, AddedRule
  <2> QED BY <1>3, <2>4 DEF Adds, TypeOK, propVars, countVars, bounds
<1>4. CASE Marks
  BY <1>4 DEF Marks, Approved, Rests, TypeOK, ruleVars, countVars, bounds
<1>5. CASE Crash
  BY <1>5 DEF Crash, Rests, TypeOK, ruleVars, propVars, countVars
<1> QED BY <1>1, <1>2, <1>3, <1>4, <1>5

\* A change of the rules in the web UI.
WebStep ==
  \/ \E c \in WebCriteria, o \in 0 .. MaxOrder :
       \/ WebAdd(c, o)
       \/ \E i \in Ids, e \in BOOLEAN : WebUpdate(i, c, o, e)
  \/ \E i \in Ids : WebDelete(i)
  \/ \E f \in [Ids -> 0 .. MaxOrder] : WebReorder(f)

\* It keeps the types, and only finds the routes at rest.
LEMMA WebType ==
  ASSUME TypeOK, WebStep
  PROVE  TypeOK' /\ AtRest /\ AtRest'
<1>1. ASSUME NEW c \in WebCriteria, NEW o \in 0 .. MaxOrder, WebAdd(c, o)
      PROVE  TypeOK' /\ AtRest /\ AtRest'
  <2>1. c \in Criteria /\ o \in Nat /\ TRUE \in BOOLEAN BY CriteriaAssumption
  <2>2. Rule(c, o, TRUE) \in Rules BY <2>1, RuleType
  <2>3. /\ last < MaxRules /\ last' = last + 1 /\ present' = present \cup {last + 1}
        /\ rules' = [rules EXCEPT ![last + 1] = Rule(c, o, TRUE)]
    BY <1>1 DEF WebAdd
  <2>4. /\ rules' \in [Ids -> Rules] /\ present' \subseteq Ids /\ last' \in 0 .. MaxRules
        /\ \A i \in present' : i <= last'
    BY <2>2, <2>3, AddedRule
  <2>5. /\ edits' \in 0 .. MaxEdits /\ AtRest /\ UNCHANGED << propVars, routeVars, logged, crashes >>
    BY <1>1 DEF WebAdd, Edits, TypeOK
  <2> QED BY <2>4, <2>5 DEF AtRest, TypeOK, propVars, countVars, routeVars
<1>2. ASSUME NEW c \in WebCriteria, NEW o \in 0 .. MaxOrder, NEW i \in Ids, NEW e \in BOOLEAN,
             WebUpdate(i, c, o, e)
      PROVE  TypeOK' /\ AtRest /\ AtRest'
  <2>1. Rule(c, o, e) \in Rules BY RuleType
  <2>2. rules' \in [Ids -> Rules] BY <1>2, <2>1 DEF WebUpdate, TypeOK
  <2> QED
    BY <1>2, <2>2 DEF WebUpdate, Edits, AtRest, TypeOK, propVars, countVars, routeVars
<1>3. ASSUME NEW i \in Ids, WebDelete(i)
      PROVE  TypeOK' /\ AtRest /\ AtRest'
  <2>1. rules' \in [Ids -> Rules] BY <1>3, BlankType DEF WebDelete, TypeOK
  <2> QED
    BY <1>3, <2>1 DEF WebDelete, Edits, AtRest, TypeOK, propVars, countVars, routeVars
<1>4. ASSUME NEW f \in [Ids -> 0 .. MaxOrder], WebReorder(f)
      PROVE  TypeOK' /\ AtRest /\ AtRest'
  <2>1. \A i \in Ids : rules[i] \in Rules /\ f[i] \in Nat BY DEF TypeOK
  <2>2. \A i \in Ids : (IF i \in present THEN [rules[i] EXCEPT !.order = f[i]] ELSE rules[i])
                         \in Rules
    BY <2>1, MovedType
  <2>3. rules' \in [Ids -> Rules] BY <1>4, <2>2 DEF WebReorder
  <2> QED
    BY <1>4, <2>3 DEF WebReorder, Edits, AtRest, TypeOK, propVars, countVars, routeVars
<1> QED BY <1>1, <1>2, <1>3, <1>4 DEF WebStep

\* The kinds of steps there are.
LEMMA NextCases ==
  ASSUME [Next]_vars
  PROVE  \/ \E k \in Keys :
              Dismiss(k) \/ MarkApproved(k) \/ \E d \in Dests : Signal(k, d)
         \/ \E k \in Keys : ApproveAppends(k) \/ \E t \in Ids : ApproveInserts(k, t)
         \/ Adds \/ Marks \/ Crash
         \/ WebStep
         \/ UNCHANGED vars
  BY DEF Next, WebStep

-----------------------------------------------------------------------------
(* The invariant.                                                          *)

\* What a signal, a dismissal and a mark do to the counters.
LEMMA SignalCounter ==
  ASSUME TypeOK, CounterInv, DestInv, NEW k \in Keys,
         Dismiss(k) \/ MarkApproved(k) \/ \E d \in Dests : Signal(k, d)
  PROVE  CounterInv' /\ DestInv'
<1>1. CASE Dismiss(k)
  <2>1. /\ status' = [status EXCEPT ![k] = "dismissed"] /\ since' = [since EXCEPT ![k] = 0]
        /\ lately' = [lately EXCEPT ![k] = 0] /\ UNCHANGED << counts, dest >>
        /\ status[k] # "none"
    BY <1>1 DEF Dismiss, countVars
  <2>2. CounterInv' BY <2>1 DEF CounterInv, TypeOK
  <2>3. DestInv' BY <2>1 DEF DestInv, TypeOK
  <2> QED BY <2>2, <2>3
<1>2. CASE MarkApproved(k)
  <2>1. /\ status' = [status EXCEPT ![k] = "approved"] /\ UNCHANGED << since, lately, counts, dest >>
        /\ status[k] # "none"
    BY <1>2 DEF MarkApproved, Approved, countVars
  <2>2. CounterInv' BY <2>1 DEF CounterInv, TypeOK
  <2>3. DestInv' BY <2>1 DEF DestInv, TypeOK
  <2> QED BY <2>2, <2>3
<1>3. ASSUME NEW d \in Dests, Signal(k, d) PROVE CounterInv' /\ DestInv'
  <2>1. Counts(k, d) /\ Resurfacing(k) /\ lately' = [lately EXCEPT ![k] = @ + 1]
    BY <1>3 DEF Signal
  <2>2. /\ since'[k] = IF status[k] = "dismissed" THEN since[k] + 1 ELSE since[k]
        /\ status'[k] = IF status[k] = "none" \/ (status[k] = "dismissed" /\ since'[k] >= ResurfaceAt)
                          THEN "active" ELSE status[k]
        /\ \A x \in Keys \ {k} : since'[x] = since[x] /\ status'[x] = status[x]
    BY <2>1, ResurfacingType
  <2>3. CounterInv'
    <3>1. since[k] \in Nat /\ lately[k] \in Nat /\ lately'[k] = lately[k] + 1 BY <2>1 DEF TypeOK
    <3>2. \A x \in Keys \ {k} : lately'[x] = lately[x] BY <2>1 DEF TypeOK
    <3>3. status[k] \in {"none", "active", "dismissed", "approved"} BY DEF TypeOK
    <3>4. /\ status'[k] = "dismissed" => since'[k] = lately'[k] /\ lately'[k] < ResurfaceAt
          /\ status'[k] = "active" /\ since'[k] > 0 => lately'[k] >= ResurfaceAt
          /\ status'[k] # "none"
      BY <2>2, <3>1, <3>3 DEF CounterInv
    <3> QED BY <2>2, <3>2, <3>4 DEF CounterInv
  <2>4. DestInv'
    <3>1. PICK e \in Dests : Dominant(e, counts'[k], rank'[k]) /\ dest' = [dest EXCEPT ![k] = e]
      BY <2>1 DEF Counts
    <3>2. counts' \in [Keys -> [Dests -> Nat]] BY <2>1, CountsType
    <3>3. dest'[k] = e /\ \A x \in Keys \ {k} : dest'[x] = dest[x] /\ counts'[x] = counts[x]
      BY <2>1, <3>1 DEF Counts, TypeOK
    <3>4. \A x \in Dests : counts'[k][x] <= counts'[k][e]
      BY <3>1, <3>2 DEF Dominant
    <3> QED BY <2>2, <3>1, <3>3, <3>4 DEF DestInv
  <2> QED BY <2>3, <2>4
<1> QED BY <1>1, <1>2, <1>3

\* Approvals leave the counters and the destinations alone.
LEMMA ApprovalCounter ==
  ASSUME TypeOK, RouteInv, CounterInv, DestInv,
         \/ \E k \in Keys : ApproveAppends(k) \/ \E t \in Ids : ApproveInserts(k, t)
         \/ Adds \/ Marks \/ Crash
  PROVE  CounterInv' /\ DestInv'
<1>1. CASE Marks
  <2>1. /\ status' = [status EXCEPT ![routeKey] = "approved"]
        /\ UNCHANGED << since, lately, counts, dest >>
        /\ routeKey \in Keys /\ status[routeKey] # "none"
    BY <1>1 DEF Marks, Approved, countVars, RouteInv
  <2>2. CounterInv' BY <2>1 DEF CounterInv, TypeOK
  <2>3. DestInv' BY <2>1 DEF DestInv, TypeOK
  <2> QED BY <2>2, <2>3
<1>2. CASE ~Marks
  <2>1. UNCHANGED << status, since, lately, counts, dest >>
    BY <1>2 DEF ApproveAppends, ApproveInserts, Adds, Crash, propVars, countVars
  <2> QED BY <2>1 DEF CounterInv, DestInv
<1> QED BY <1>1, <1>2

\* A new rule has no twin if no rule was exact; making room makes none.
LEMMA ApprovalTwins ==
  ASSUME TypeOK, RouteInv, NoTwins,
         \/ \E k \in Keys : ApproveAppends(k) \/ \E t \in Ids : ApproveInserts(k, t)
         \/ Adds \/ Marks \/ Crash
  PROVE  NoTwins'
<1>1. ASSUME NEW k \in Keys, NEW t \in Ids, ApproveInserts(k, t) PROVE NoTwins'
  <2>1. present' = present /\ rules' = Shifted(t) /\ t \in present
    BY <1>1 DEF ApproveInserts
  <2>2. \A i \in present : rules'[i].crit = rules[i].crit /\ rules'[i].enabled = rules[i].enabled
    BY <2>1, ShiftedKeeps DEF TypeOK
  <2> QED BY <2>1, <2>2 DEF NoTwins, Twins
<1>2. CASE Adds
  <2>1. last < MaxRules /\ routeKey \in Keys /\ \A i \in present : ~Exact(i, routeKey)
    BY <1>2 DEF Adds, RouteInv
  <2>2. PICK o \in Nat :
          /\ Rule(Criterion(routeKey), o, TRUE) \in Rules
          /\ rules' = [rules EXCEPT ![last + 1] = Rule(Criterion(routeKey), o, TRUE)]
    BY <1>2, AddsRule
  <2>3. last' = last + 1 /\ present' = present \cup {last + 1} BY <1>2 DEF Adds
  <2>4. /\ rules'[last + 1] = Rule(Criterion(routeKey), o, TRUE)
        /\ \A i \in present : rules'[i] = rules[i]
    BY <2>1, <2>2, <2>3, AddedRule
  <2>5. rules'[last + 1].crit = Criterion(routeKey) BY <2>4 DEF Rule
  <2>6. \A i \in present : ~(rules'[i].enabled /\ rules'[i].crit = Criterion(routeKey))
    BY <2>1, <2>4 DEF Exact
  <2>7. SUFFICES ASSUME NEW i \in present', NEW j \in present', Twins(i, j, rules') PROVE FALSE
    BY DEF NoTwins
  <2>8. i # j /\ rules'[i].enabled /\ rules'[j].enabled /\ rules'[i].crit = rules'[j].crit
    BY <2>7 DEF Twins
  <2>9. CASE i = last + 1 BY <2>3, <2>5, <2>6, <2>8, <2>9
  <2>10. CASE j = last + 1 BY <2>3, <2>5, <2>6, <2>8, <2>10
  <2>11. CASE i \in present /\ j \in present
    BY <2>4, <2>7, <2>11 DEF NoTwins, Twins
  <2> QED BY <2>3, <2>9, <2>10, <2>11
<1>3. CASE UNCHANGED << rules, present >>
  BY <1>3 DEF NoTwins, Twins
<1>4. ASSUME NEW k \in Keys, ApproveAppends(k) PROVE NoTwins'
  BY <1>3, <1>4 DEF ApproveAppends, ruleVars
<1>5. CASE Marks \/ Crash
  BY <1>3, <1>5 DEF Marks, Crash, ruleVars
<1> QED BY <1>1, <1>2, <1>4, <1>5

\* An approval goes on as it began.
LEMMA ApprovalRoute ==
  ASSUME TypeOK, RouteInv,
         \/ \E k \in Keys : ApproveAppends(k) \/ \E t \in Ids : ApproveInserts(k, t)
         \/ Adds \/ Marks \/ Crash
  PROVE  RouteInv'
<1>1. ASSUME NEW k \in Keys, ApproveAppends(k) PROVE RouteInv'
  <2>1. /\ status' = status /\ last' = last /\ present' = present /\ rules' = rules
        /\ route' = "add" /\ routeKey' = k /\ routeTarget' = NoRule
        /\ status[k] # "none" /\ last < MaxRules
        /\ \A i \in Ids : ~Exact(i, k)
    BY <1>1 DEF ApproveAppends, Starts, ruleVars, propVars
  <2>2. \A i \in present' : ~Exact(i, k)' BY <2>1 DEF Exact, TypeOK
  <2> QED BY <2>1, <2>2 DEF RouteInv
<1>2. ASSUME NEW k \in Keys, NEW t \in Ids, ApproveInserts(k, t) PROVE RouteInv'
  <2>1. /\ status' = status /\ last' = last /\ present' = present /\ rules' = Shifted(t)
        /\ route' = "add" /\ routeKey' = k /\ routeTarget' = t /\ t \in present
        /\ status[k] # "none" /\ last < MaxRules
        /\ \A i \in Ids : ~Exact(i, k)
    BY <1>2 DEF ApproveInserts, Starts, propVars
  <2>2. \A i \in present : rules'[i].crit = rules[i].crit /\ rules'[i].enabled = rules[i].enabled
    BY <2>1, ShiftedKeeps DEF TypeOK
  <2>3. \A i \in present' : ~Exact(i, k)' BY <2>1, <2>2 DEF Exact, TypeOK
  <2> QED BY <2>1, <2>3 DEF RouteInv
<1>3. CASE Adds
  <2>1. /\ route' = "mark" /\ routeKey' = routeKey /\ routeTarget' = routeTarget
        /\ status' = status /\ present \subseteq present' /\ route = "add"
    BY <1>3 DEF Adds, propVars
  <2> QED BY <2>1 DEF RouteInv
<1>4. CASE Marks \/ Crash
  BY <1>4 DEF Marks, Crash, Rests, RouteInv
<1> QED BY <1>1, <1>2, <1>3, <1>4

\* The web UI makes no twins, and edits while no approval is under way.
LEMMA WebKeeps ==
  ASSUME TypeOK, CounterInv, DestInv, NoTwins, WebStep
  PROVE  RouteInv' /\ CounterInv' /\ DestInv' /\ NoTwins'
<1>1. propVars' = propVars
  BY DEF WebStep, WebAdd, WebUpdate, WebDelete, WebReorder
<1>2. CounterInv' /\ DestInv'
  BY <1>1 DEF CounterInv, DestInv, propVars, countVars
<1>3. RouteInv' BY WebType DEF AtRest, RouteInv
<1>4. ASSUME NEW c \in WebCriteria, NEW o \in 0 .. MaxOrder, WebAdd(c, o) PROVE NoTwins'
  BY <1>4 DEF WebAdd, ByHand, NoTwins
<1>5. ASSUME NEW c \in WebCriteria, NEW o \in 0 .. MaxOrder, NEW i \in Ids, NEW e \in BOOLEAN,
             WebUpdate(i, c, o, e)
      PROVE  NoTwins'
  BY <1>5 DEF WebUpdate, ByHand, NoTwins
<1>6. ASSUME NEW i \in Ids, WebDelete(i) PROVE NoTwins'
  <2>1. present' = present \ {i} /\ rules' = [rules EXCEPT ![i] = Blank]
    BY <1>6 DEF WebDelete
  <2>2. \A j \in present' : j \in present /\ rules'[j] = rules[j] BY <2>1 DEF TypeOK
  <2> QED BY <2>2 DEF NoTwins, Twins
<1>7. ASSUME NEW f \in [Ids -> 0 .. MaxOrder], WebReorder(f) PROVE NoTwins'
  <2>1. /\ present' = present
        /\ \A i \in present : rules'[i] = [rules[i] EXCEPT !.order = f[i]]
    BY <1>7 DEF WebReorder, TypeOK
  <2>2. \A i \in present : rules[i] \in Rules /\ f[i] \in Nat BY DEF TypeOK
  <2>3. ASSUME NEW i \in present
        PROVE  rules'[i].crit = rules[i].crit /\ rules'[i].enabled = rules[i].enabled
    <3>1. rules'[i] = [rules[i] EXCEPT !.order = f[i]] BY <2>1
    <3>2. rules[i] \in Rules /\ f[i] \in Nat BY <2>2
    <3>3. /\ [rules[i] EXCEPT !.order = f[i]].crit = rules[i].crit
          /\ [rules[i] EXCEPT !.order = f[i]].enabled = rules[i].enabled
      BY <3>2 DEF Rules
    <3> QED BY <3>1, <3>3
  <2> QED BY <2>1, <2>3 DEF NoTwins, Twins
<1> QED BY <1>2, <1>3, <1>4, <1>5, <1>6, <1>7 DEF WebStep

\* Every step keeps the invariant.
LEMMA StepHolds == IInv /\ [Next]_vars => IInv'
<1> SUFFICES ASSUME IInv, [Next]_vars PROVE IInv' OBVIOUS
<1> USE DEF IInv
<1>1. ASSUME NEW k \in Keys,
             Dismiss(k) \/ MarkApproved(k) \/ \E d \in Dests : Signal(k, d)
      PROVE  IInv'
  <2>1. AtRest /\ UNCHANGED << rules, present, last, route, routeKey, routeTarget >>
    BY <1>1 DEF Dismiss, MarkApproved, Signal, ruleVars, routeVars
  <2>2. RouteInv' BY <2>1 DEF RouteInv, AtRest
  <2>3. NoTwins' BY <2>1 DEF NoTwins, Twins
  <2> QED BY <1>1, <2>2, <2>3, SignalType, SignalCounter
<1>2. CASE \/ \E k \in Keys : ApproveAppends(k) \/ \E t \in Ids : ApproveInserts(k, t)
           \/ Adds \/ Marks \/ Crash
  BY <1>2, ApprovalType, ApprovalCounter, ApprovalTwins, ApprovalRoute
<1>3. CASE WebStep BY <1>3, WebType, WebKeeps
<1>4. CASE UNCHANGED vars
  BY <1>4 DEF vars, ruleVars, propVars, countVars, routeVars, bounds, TypeOK, RouteInv, Exact,
              CounterInv, DestInv, NoTwins, Twins
<1> QED BY <1>1, <1>2, <1>3, <1>4, NextCases

\* The invariant holds in every state.
LEMMA AlwaysHolds == Spec => []IInv
<1>1. Init => IInv BY InitHolds
<1>2. IInv /\ [Next]_vars => IInv' BY StepHolds
<1> QED BY <1>1, <1>2, PTL DEF Spec

-----------------------------------------------------------------------------
(* Theorems.                                                               *)

\* Types are kept: the counter of a dismissed proposal never passes the number
\* of signals that brings it back (upsertProposal()).
THEOREM TypeCorrect == Spec => []TypeOK
<1>1. IInv => TypeOK BY DEF IInv
<1> QED BY <1>1, AlwaysHolds, PTL

\* Approvals, retried after whatever crash, make no two rules with the same
\* criteria (checkProposalConflict()).
THEOREM ApprovedOnce == Spec => []NoTwins
<1>1. IInv => NoTwins BY DEF IInv
<1> QED BY <1>1, AlwaysHolds, PTL

\* A dismissed proposal comes back after so many new signals and not before
\* (upsertProposal()).
THEOREM ComesBackInTime == Spec => []Resurfaces
<1>1. IInv => Resurfaces BY DEF IInv, CounterInv, Resurfaces
<1> QED BY <1>1, AlwaysHolds, PTL

\* No destination has more signals than the one proposed (upsertProposal()).
THEOREM MostSignals == Spec => []DominantIsRight
<1>1. IInv => DominantIsRight BY DEF IInv, DestInv, DominantIsRight
<1> QED BY <1>1, AlwaysHolds, PTL

-----------------------------------------------------------------------------
(* Who gets the messages.                                                  *)

\* What KeepsMessages says of one step.
Keeps ==
  \A k \in Keys : \A i \in present :
    Wins(i, k) => Wins(i, k)' \/ (routeTarget # NoRule /\ Wins(last, k)')

\* Making room changes no winner.
LEMMA InsertKeeps ==
  ASSUME TypeOK, NEW k \in Keys, NEW t \in Ids, ApproveInserts(k, t)
  PROVE  Keeps
<1>1. present' = present /\ rules' = Shifted(t) /\ t \in present /\ present \subseteq Ids
  BY DEF ApproveInserts, TypeOK
<1>2. /\ \A i \in present : rules'[i].crit = rules[i].crit /\ rules'[i].enabled = rules[i].enabled
      /\ \A i, j \in present : Before(i, j) => Before(i, j)'
  BY <1>1, ShiftedKeeps DEF Before
<1>3. \A i \in present, x \in Keys : Catches(i, x)' <=> Catches(i, x)
  BY <1>2 DEF Catches
<1>4. \A x \in Keys : \A i \in present : Wins(i, x) => Wins(i, x)'
  BY <1>1, <1>2, <1>3 DEF Wins
<1> QED BY <1>4 DEF Keeps

\* The new rule takes from the others only if it was put before one of them.
LEMMA AddKeeps ==
  ASSUME TypeOK, RouteInv, Adds
  PROVE  Keeps
<1>0. PICK n \in Nat : n = last + 1 BY DEF TypeOK
<1>1. last < MaxRules BY DEF Adds, RouteInv
<1>2. PICK o \in Nat :
        /\ Rule(Criterion(routeKey), o, TRUE) \in Rules
        /\ rules' = [rules EXCEPT ![last + 1] = Rule(Criterion(routeKey), o, TRUE)]
        /\ routeTarget = NoRule => \A j \in present : rules[j].order < o
  BY AddsRule
<1>3. last' = last + 1 /\ present' = present \cup {last + 1} BY DEF Adds
<1>4. /\ rules'[n] = Rule(Criterion(routeKey), o, TRUE) /\ n \notin present
      /\ \A i \in present : rules'[i] = rules[i] /\ i < n
  BY <1>1, <1>0, <1>2, <1>3, AddedRule
<1>5. rules'[n].order = o BY <1>4 DEF Rule
<1>6. \A i \in present : rules[i].order \in Nat /\ i \in Nat BY DEF TypeOK, Rules, Ids
<1>7. n \in Nat /\ last' = n /\ present' = present \cup {n} BY <1>0, <1>3
<1>8. /\ \A i \in present, x \in Keys : Catches(i, x)' <=> Catches(i, x)
      /\ \A i, j \in present : Before(i, j)' <=> Before(i, j)
  BY <1>4 DEF Catches, Before
<1>9. \A i \in present : /\ Before(i, n)' <=> rules[i].order <= o
                         /\ Before(n, i)' <=> o < rules[i].order
  <2> SUFFICES ASSUME NEW i \in present
               PROVE  /\ Before(i, n)' <=> rules[i].order <= o
                      /\ Before(n, i)' <=> o < rules[i].order
    OBVIOUS
  <2>1. rules'[i] = rules[i] /\ i < n /\ ~(n < i) BY <1>4, <1>6, <1>7
  <2>2. rules[i].order \in Nat BY <1>6
  <2>3. Before(i, n)' <=> rules[i].order < o \/ rules[i].order = o
    BY <1>5, <2>1 DEF Before
  <2>4. Before(n, i)' <=> o < rules[i].order
    BY <1>5, <2>1 DEF Before
  <2> QED BY <2>2, <2>3, <2>4
<1>10. SUFFICES ASSUME NEW k \in Keys, NEW i \in present, Wins(i, k)
                PROVE  Wins(i, k)' \/ (routeTarget # NoRule /\ Wins(n, k)')
  BY <1>7 DEF Keeps
<1>11. Catches(i, k)' /\ \A j \in present : Catches(j, k)' => j = i \/ Before(i, j)'
  BY <1>8, <1>10 DEF Wins
<1>12. CASE ~Catches(n, k)' \/ Before(i, n)'
  BY <1>7, <1>11, <1>12 DEF Wins
<1>13. CASE Catches(n, k)' /\ ~Before(i, n)'
  <2>1. o < rules[i].order BY <1>2, <1>6, <1>9, <1>13
  <2>2. routeTarget # NoRule
    BY <1>2, <1>6, <2>1
  <2>3. ASSUME NEW j \in present, Catches(j, k)' PROVE Before(n, j)'
    <3>1. j = i \/ Before(i, j) BY <1>8, <1>11, <2>3
    <3>2. rules[i].order <= rules[j].order BY <1>6, <3>1 DEF Before
    <3>3. o < rules[j].order BY <1>6, <2>1, <3>2
    <3> QED BY <1>9, <3>3
  <2>4. Wins(n, k)' BY <1>7, <1>13, <2>3 DEF Wins
  <2> QED BY <2>2, <2>4
<1> QED BY <1>12, <1>13

\* A step that leaves the rules alone changes no winner.
LEMMA SameKeeps ==
  ASSUME UNCHANGED << rules, present >>
  PROVE  Keeps
<1>1. \A i \in present, k \in Keys : Wins(i, k)' <=> Wins(i, k) BY DEF Wins, Catches, Before
<1> QED BY <1>1 DEF Keeps

\* An approval leaves every message to the rule that had it, except that a rule
\* put before another takes its own.
THEOREM ApprovalsKeepMessages == Spec => KeepsMessages
<1>1. IInv /\ [Next]_vars =>
        [~AtRest \/ ~AtRest' => \A k \in Keys : \A i \in present :
            Wins(i, k) => Wins(i, k)' \/ (routeTarget # NoRule /\ Wins(last, k)')]_vars
  <2> SUFFICES ASSUME IInv, [Next]_vars, ~AtRest \/ ~AtRest' PROVE Keeps
    BY DEF Keeps
  <2>1. TypeOK /\ RouteInv BY DEF IInv
  <2>2. CASE UNCHANGED << rules, present >> BY <2>2, SameKeeps
  <2>3. ASSUME NEW k \in Keys,
               Dismiss(k) \/ MarkApproved(k) \/ (\E d \in Dests : Signal(k, d)) \/ ApproveAppends(k)
        PROVE  Keeps
    BY <2>2, <2>3 DEF Dismiss, MarkApproved, Signal, ApproveAppends, ruleVars
  <2>4. ASSUME NEW k \in Keys, NEW t \in Ids, ApproveInserts(k, t) PROVE Keeps
    BY <2>1, <2>4, InsertKeeps
  <2>5. CASE Adds BY <2>1, <2>5, AddKeeps
  <2>6. CASE Marks \/ Crash BY <2>2, <2>6 DEF Marks, Crash, ruleVars
  <2>7. CASE WebStep BY <2>1, <2>7, WebType
  <2>8. CASE UNCHANGED vars BY <2>2, <2>8 DEF vars, ruleVars
  <2> QED BY <2>3, <2>4, <2>5, <2>6, <2>7, <2>8, NextCases
<1> QED BY <1>1, AlwaysHolds, PTL DEF Spec, KeepsMessages

=============================================================================
