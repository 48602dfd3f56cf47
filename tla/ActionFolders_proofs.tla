----------------------- MODULE ActionFolders_proofs -----------------------
(***************************************************************************)
(* Theorems about the action folders, for any number of messages, senders, *)
(* pollers, settings and restarts.                                         *)
(***************************************************************************)
EXTENDS ActionFolders, FiniteSetTheorems, SequenceTheorems, WellFoundedInduction, TLAPS

\* A scan in progress has a folder at hand, and processMessage() a message.
ScanOK(r) ==
  /\ r.pc # "idle" => r.todo # << >>
  /\ r.pc \in {"adding", "moving", "moved", "missed"} => r.batch # {}

\* What the calls rely on: the batches hold messages that were in a folder.
ScanInv ==
  \A p \in Pollers : /\ ScanOK(scan[p])
                     /\ \A m \in scan[p].batch : place[m] # "unseen"

Inv == TypeOK /\ ScanInv

-----------------------------------------------------------------------------
\* The registry's folders that are in use, in order.
LEMMA RegistryType == Registry \in Seq(Actions) /\ Registry # << >>
<1> DEFINE vb == InUse("vip") \o InUse("block")
           vbu == vb \o InUse("undoVip")
<1>1. \A a : InUse(a) \in Seq(Actions) /\ Len(InUse(a)) = (IF a \in Actions THEN 1 ELSE 0)
  BY DEF InUse
<1>2. vb \in Seq(Actions) /\ Len(vb) = Len(InUse("vip")) + Len(InUse("block"))
  BY <1>1, ConcatProperties
<1>3. vbu \in Seq(Actions) /\ Len(vbu) = Len(vb) + Len(InUse("undoVip"))
  <2> HIDE DEF vb
  <2> QED
    BY <1>1, <1>2, ConcatProperties
<1>4. Registry \in Seq(Actions) /\ Len(Registry) = Len(vbu) + Len(InUse("unblock"))
  <2> HIDE DEF vbu
  <2>1. vbu \o InUse("unblock") \in Seq(Actions)
    BY <1>1, <1>3
  <2>2. Len(vbu \o InUse("unblock")) = Len(vbu) + Len(InUse("unblock"))
    BY <1>1, <1>3, ConcatProperties
  <2>3. Registry = vbu \o InUse("unblock")
    BY DEF Registry, vbu
  <2> QED
    BY <2>1, <2>2, <2>3
<1>5. \E a \in Actions : a \in {"vip", "block", "undoVip", "unblock"}
  BY ActionAssumption
<1>6. Len(Registry) > 0
  <2> HIDE DEF vb, vbu
  <2> QED
    BY <1>1, <1>2, <1>3, <1>4, <1>5
<1> QED
  BY <1>4, <1>6

\* A nonempty set of naturals has a least element.
LEMMA LeastOfNats ==
  ASSUME NEW S, S \subseteq Nat, S # {}
  PROVE  \E m \in S : \A n \in S : m <= n
  <1> DEFINE R == {ss \in Nat \X Nat : ss[1] < ss[2]}
  <1>1. IsWellFoundedOn(R, Nat)
    BY NatLessThanWellFounded DEF OpToRel
  <1> HIDE DEF R
  <1>2. PICK m \in S : \A n \in S : << n, m >> \notin R
    BY <1>1, WFMin
  <1>3. \A n \in S : m <= n
    <2> TAKE n \in S
    <2>1. n \in Nat /\ m \in Nat
      OBVIOUS
    <2>2. ~(n < m)
      BY <1>2, <2>1 DEF R
    <2> QED
      BY <2>1, <2>2
  <1> QED
    BY <1>3

\* processMessage() works on a message of the batch.
LEMMA CurrentInBatch ==
  ASSUME TypeOK, NEW p \in Pollers, scan[p].batch # {}
  PROVE  Current(p) \in scan[p].batch /\ Current(p) \in Messages
<1> DEFINE uids == {uid[m] : m \in scan[p].batch}
<1>1. scan[p].batch \subseteq Messages
  BY DEF TypeOK, Scans
<1>2. uids \subseteq Nat /\ uids # {}
  BY <1>1 DEF TypeOK
<1>3. PICK least \in uids : \A u \in uids : least <= u
  BY <1>2, LeastOfNats
<1>4. PICK m \in scan[p].batch : least = uid[m]
  BY <1>3
<1>5. m \in Earliest(p)
  BY <1>3, <1>4 DEF Earliest
<1>6. Current(p) \in Earliest(p)
  BY <1>5 DEF Current
<1> QED
  BY <1>1, <1>6 DEF Earliest

-----------------------------------------------------------------------------
\* How the scan of a poller may change, for Inv to go on.
ScanStep(p, r) ==
  /\ p \in Pollers /\ r \in Scans /\ ScanOK(r)
  /\ \A m \in r.batch : place[m] # "unseen"
  /\ scan' = [scan EXCEPT ![p] = r]

\* One poller's scan changes, and no message becomes unseen.
LEMMA ScanStepKeeps ==
  ASSUME Inv, UNCHANGED place, NEW p, NEW r, ScanStep(p, r)
  PROVE  scan' \in [Pollers -> Scans] /\ ScanInv'
BY DEF Inv, TypeOK, ScanInv, ScanStep

\* A scan that turns to a folder.
LEMMA TurnedType ==
  ASSUME NEW todo \in Seq(Actions), todo # << >>, NEW g \in 1 .. MaxGen,
         NEW r, r = ScanOf("status", todo, g)
  PROVE  r \in Scans /\ ScanOK(r) /\ r.batch = {}
BY BoundAssumption DEF ScanOf, ScanOK, Scans, Calling

\* A poller at rest.
LEMMA NoScanType == NoScan \in Scans /\ ScanOK(NoScan) /\ NoScan.batch = {}
<1>1. << >> \in Seq(Actions)
  BY EmptySeq
<1> QED
  BY <1>1, BoundAssumption DEF NoScan, ScanOf, ScanOK, Scans

\* What has elements is not the empty sequence.
LEMMA NotEmpty ==
  ASSUME NEW S, NEW s \in Seq(S), Len(s) > 0
  PROVE  s # << >>
BY EmptySeq

\* The next folder, or the end of the scan.
LEMMA NextFolderKeeps ==
  ASSUME Inv, UNCHANGED place, NEW p \in Pollers, scan[p].pc # "idle", NextFolder(p)
  PROVE  scan' \in [Pollers -> Scans] /\ ScanInv'
<1>1. CASE Len(scan[p].todo) > 1
  <2>1. scan[p].todo \in Seq(Actions) /\ scan[p].gen \in 1 .. MaxGen
    BY DEF Inv, TypeOK, Scans
  <2>2. Tail(scan[p].todo) \in Seq(Actions) /\ Len(Tail(scan[p].todo)) > 0
    BY <1>1, <2>1, HeadTailProperties, EmptySeq
  <2>3. Tail(scan[p].todo) # << >>
    BY <2>2, NotEmpty
  <2>4. scan' = [scan EXCEPT ![p] = ScanOf("status", Tail(scan[p].todo), scan[p].gen)]
    BY <1>1 DEF NextFolder, Inv, TypeOK
  <2> QED
    BY <2>1, <2>2, <2>3, <2>4, TurnedType, ScanStepKeeps DEF ScanStep
<1>2. CASE ~(Len(scan[p].todo) > 1)
  <2>1. scan' = [scan EXCEPT ![p] = NoScan]
    BY <1>2 DEF NextFolder, Inv, TypeOK
  <2> QED
    BY <2>1, NoScanType, ScanStepKeeps DEF ScanStep
<1> QED
  BY <1>1, <1>2

\* Only the program counter changes.
LEMMA GotoKeeps ==
  ASSUME Inv, UNCHANGED place, NEW p \in Pollers, NEW c \in Calling \cup Running,
         scan[p].pc # "idle", c \in {"adding", "moving", "moved", "missed"} => scan[p].batch # {},
         Goto(p, c)
  PROVE  scan' \in [Pollers -> Scans] /\ ScanInv'
<1> DEFINE r == [scan[p] EXCEPT !.pc = c]
<1>1. r \in Scans /\ ScanOK(r) /\ r.batch = scan[p].batch
  BY DEF Inv, TypeOK, ScanInv, Scans, ScanOK
<1>2. scan' = [scan EXCEPT ![p] = r]
  BY DEF Goto, Inv, TypeOK
<1> QED
  BY <1>1, <1>2, ScanStepKeeps DEF ScanStep, Inv, ScanInv

\* scanAll() starts on the folders of the registry, or does nothing.
LEMMA BeginKeeps ==
  ASSUME Inv, UNCHANGED place, NEW p \in Pollers, Begin(p)
  PROVE  scan' \in [Pollers -> Scans] /\ ScanInv'
<1>1. CASE enabled
  <2>1. gen \in 1 .. MaxGen
    BY DEF Inv, TypeOK
  <2>2. scan' = [scan EXCEPT ![p] = ScanOf("status", Registry, gen)]
    BY <1>1 DEF Begin, Inv, TypeOK
  <2> QED
    BY <2>1, <2>2, RegistryType, TurnedType, ScanStepKeeps DEF ScanStep
<1>2. CASE ~enabled
  BY <1>2 DEF Begin, Inv, TypeOK, ScanInv
<1> QED
  BY <1>1, <1>2

\* The MOVE of the message at hand is sent.
LEMMA SendMoveKeeps ==
  ASSUME Inv, UNCHANGED place, NEW p \in Pollers, NEW rows \in BOOLEAN,
         scan[p].pc # "idle", scan[p].batch # {}, SendMove(p, rows)
  PROVE  scan' \in [Pollers -> Scans] /\ ScanInv'
<1> DEFINE r == [scan[p] EXCEPT !.pc = "moving", !.target = gen, !.rows = rows]
<1>1. r \in Scans /\ ScanOK(r) /\ r.batch = scan[p].batch
  BY DEF Inv, TypeOK, ScanInv, Scans, ScanOK, Calling
<1>2. scan' = [scan EXCEPT ![p] = r]
  BY DEF SendMove, Inv, TypeOK
<1> QED
  BY <1>1, <1>2, ScanStepKeeps DEF ScanStep, Inv, ScanInv

\* The opposite rule is gone, and the new one is about to be added.
LEMMA ReadyToAddKeeps ==
  ASSUME Inv, UNCHANGED place, NEW p \in Pollers, NEW rows \in BOOLEAN,
         scan[p].pc # "idle", scan[p].batch # {}, ReadyToAdd(p, rows)
  PROVE  scan' \in [Pollers -> Scans] /\ ScanInv'
<1> DEFINE r == [scan[p] EXCEPT !.pc = "adding", !.rows = rows]
<1>1. r \in Scans /\ ScanOK(r) /\ r.batch = scan[p].batch
  BY DEF Inv, TypeOK, ScanInv, Scans, ScanOK, Running
<1>2. scan' = [scan EXCEPT ![p] = r]
  BY DEF ReadyToAdd, Inv, TypeOK
<1> QED
  BY <1>1, <1>2, ScanStepKeeps DEF ScanStep, Inv, ScanInv

\* processMessage() returns.
LEMMA ReturnsKeeps ==
  ASSUME Inv, UNCHANGED place, NEW p \in Pollers, scan[p].pc # "idle", Returns(p)
  PROVE  scan' \in [Pollers -> Scans] /\ ScanInv'
<1> DEFINE r == [scan[p] EXCEPT !.pc = "next", !.batch = @ \ {Current(p)}, !.rows = FALSE]
<1>1. r \in Scans /\ ScanOK(r) /\ r.batch \subseteq scan[p].batch
  BY DEF Inv, TypeOK, ScanInv, Scans, ScanOK, Running
<1>2. scan' = [scan EXCEPT ![p] = r]
  BY DEF Returns, Inv, TypeOK
<1> QED
  BY <1>1, <1>2, ScanStepKeeps DEF ScanStep, Inv, ScanInv

-----------------------------------------------------------------------------
\* Every action type is about one kind of rule and against the other.
LEMMA RegistryTypes ==
  ASSUME NEW a \in Actions
  PROVE  RuleAction(a) \in RuleActions /\ Opposite(RuleAction(a)) \in RuleActions
BY DEF RuleAction, RuleActions, Opposite

\* What processMessage() has at hand while it runs.
LEMMA AtHand ==
  ASSUME Inv, NEW p \in Pollers, scan[p].pc # "idle"
  PROVE  /\ Action(p) \in Actions
         /\ scan[p].batch # {} => Current(p) \in Messages /\ Sender(p) \in Senders \cup {NoSender}
<1>1. scan[p].todo \in Seq(Actions) /\ scan[p].todo # << >>
  BY DEF Inv, TypeOK, ScanInv, Scans, ScanOK
<1> QED
  BY <1>1, CurrentInBatch, HeadTailProperties DEF Inv, TypeOK, Action, Sender

\* Rows are about the message at hand.
LEMMA LogRowsType ==
  ASSUME Inv, NEW p, Current(p) \in Messages, NEW success \in BOOLEAN, LogRows(p, success)
  PROVE  logged' \subseteq Messages \X BOOLEAN
<1>1. << Current(p), success >> \in Messages \X BOOLEAN
  OBVIOUS
<1> QED
  BY <1>1 DEF LogRows, Inv, TypeOK

\* The effect on the rules is noted, and the move sent.
LEMMA DoneKeeps ==
  ASSUME Inv, UNCHANGED place, NEW p \in Pollers, NEW rows \in BOOLEAN,
         scan[p].pc # "idle", scan[p].batch # {}, Sender(p) # NoSender, Done(p, rows)
  PROVE  /\ scan' \in [Pollers -> Scans] /\ ScanInv'
         /\ applied' \subseteq Messages
         /\ last' \in [Senders -> Actions \cup {"web", "none"}]
BY AtHand, SendMoveKeeps DEF Done, Inv, TypeOK

-----------------------------------------------------------------------------
\* The process starts with well-typed state.
LEMMA InitInv == Init => Inv
<1>1. 0 \in 0 .. MaxRules /\ 0 \in 0 .. MaxPuts /\ 0 \in 0 .. MaxFails
      /\ 0 \in 0 .. MaxCrashes /\ 1 \in 1 .. MaxGen
  BY BoundAssumption
<1> QED
  BY <1>1, NoScanType DEF Init, Inv, TypeOK, ScanInv, RuleCounts

\* Every step keeps it, whoever takes it.
LEMMA StepInv == Inv /\ [Next]_vars => Inv'
<1> SUFFICES ASSUME Inv, [Next]_vars
             PROVE  Inv'
  OBVIOUS
<1> USE DEF mailVars, ruleVars, configVars, rootVars
<1>1. ASSUME NEW m \in Messages, Drop(m)
      PROVE  Inv'
  <2> DEFINE there == {n \in Messages : place'[n] # "unseen" /\ box[n] = box[m]}
  <2>1. Cardinality(there) \in Nat
    <3>1. there \subseteq Messages
      OBVIOUS
    <3> QED
      BY <3>1, MessageAssumption, FS_Subset, FS_CardinalityType
  <2>2. uid' = [uid EXCEPT ![m] = Cardinality(there)]
    BY <1>1 DEF Drop
  <2> HIDE DEF there
  <2>3. TypeOK'
    BY <1>1, <2>1, <2>2 DEF Drop, Inv, TypeOK
  <2>4. ScanInv'
    BY <1>1 DEF Drop, Inv, TypeOK, ScanInv, ScanOK
  <2> QED
    BY <1>1, <2>3, <2>4 DEF Drop, Inv
<1>2. ASSUME NEW m \in Messages, TakeBack(m)
      PROVE  Inv'
  BY <1>2 DEF TakeBack, Inv, TypeOK, ScanInv, ScanOK
<1>3. ASSUME NEW s \in Senders, NEW k \in RuleActions, WebEdit(s, k)
      PROVE  Inv'
  <2>1. rules[s][k] \in 0 .. MaxRules
    BY DEF Inv, TypeOK, RuleCounts
  <2>2. rules' \in RuleCounts
    <3>1. CASE rules[s][k] < MaxRules /\ rules' = [rules EXCEPT ![s][k] = @ + 1]
      BY <3>1, <2>1, BoundAssumption DEF Inv, TypeOK, RuleCounts
    <3>2. CASE rules[s][k] > 0 /\ rules' = [rules EXCEPT ![s][k] = @ - 1]
      BY <3>2, <2>1, BoundAssumption DEF Inv, TypeOK, RuleCounts
    <3> QED
      BY <1>3, <3>1, <3>2 DEF WebEdit
  <2> QED
    BY <1>3, <2>2 DEF WebEdit, Inv, TypeOK, ScanInv, ScanOK
<1>4. ASSUME PutConfig
      PROVE  Inv'
  BY <1>4, BoundAssumption DEF PutConfig, Inv, TypeOK, ScanInv, ScanOK
<1>5. ASSUME FirstStart
      PROVE  Inv'
  <2>1. current \in Pollers
    BY <1>5 DEF FirstStart, Inv, TypeOK
  <2> QED
    BY <1>5, <2>1 DEF FirstStart, Inv, TypeOK, ScanInv, ScanOK
<1>6. ASSUME EnsureFails
      PROVE  Inv'
  BY <1>6, BoundAssumption DEF EnsureFails, Inv, TypeOK, ScanInv, ScanOK
<1>7. ASSUME NEW p \in Pollers, FirstScan(p)
      PROVE  Inv'
  <2>1. scan' \in [Pollers -> Scans] /\ ScanInv'
    BY <1>7, BeginKeeps DEF FirstScan
  <2> QED
    BY <1>7, <2>1 DEF FirstScan, Inv, TypeOK
<1>8. ASSUME NEW p \in Pollers, Rebuilt(p)
      PROVE  Inv'
  BY <1>8 DEF Rebuilt, Inv, TypeOK, ScanInv, ScanOK
<1>9. ASSUME NEW p \in Pollers, Tick(p)
      PROVE  Inv'
  <2>1. scan' \in [Pollers -> Scans] /\ ScanInv'
    BY <1>9, BeginKeeps DEF Tick
  <2> QED
    BY <1>9, <2>1 DEF Tick, Inv, TypeOK
<1>10. ASSUME NEW p \in Pollers, StatusAnswered(p)
       PROVE  Inv'
  <2>1. scan' \in [Pollers -> Scans] /\ ScanInv'
    BY <1>10, NextFolderKeeps, GotoKeeps DEF StatusAnswered, At, Calling
  <2> QED
    BY <1>10, <2>1 DEF StatusAnswered, Inv, TypeOK
<1>11. ASSUME NEW p \in Pollers, FetchAnswered(p)
       PROVE  Inv'
  <2>1. scan' \in [Pollers -> Scans] /\ ScanInv'
    <3> DEFINE r == [scan[p] EXCEPT !.pc = "next", !.batch = InBox(Box(p))]
    <3>1. InBox(Box(p)) \subseteq Messages
          /\ \A m \in InBox(Box(p)) : place[m] # "unseen"
      BY DEF InBox
    <3>2. r \in Scans /\ ScanOK(r) /\ r.batch = InBox(Box(p))
      <4>1. scan[p] \in Scans /\ scan[p].todo # << >>
        BY <1>11 DEF FetchAnswered, At, Inv, TypeOK, ScanInv, ScanOK
      <4> QED
        BY <3>1, <4>1 DEF Scans, ScanOK, Running
    <3>3. CASE scan' = [scan EXCEPT ![p].pc = "next", ![p].batch = InBox(Box(p))]
      <4>1. scan' = [scan EXCEPT ![p] = r]
        BY <3>3 DEF Inv, TypeOK
      <4> QED
        BY <1>11, <3>1, <3>2, <4>1, ScanStepKeeps DEF ScanStep, FetchAnswered
    <3>4. CASE NextFolder(p)
      BY <1>11, <3>4, NextFolderKeeps DEF FetchAnswered, At
    <3> QED
      BY <1>11, <3>3, <3>4 DEF FetchAnswered
  <2> QED
    BY <1>11, <2>1 DEF FetchAnswered, Inv, TypeOK
<1>12. ASSUME NEW p \in Pollers, PassDone(p)
       PROVE  Inv'
  <2>1. scan' \in [Pollers -> Scans] /\ ScanInv'
    BY <1>12, GotoKeeps DEF PassDone, At, Calling
  <2> QED
    BY <1>12, <2>1 DEF PassDone, Inv, TypeOK
<1>13. ASSUME NEW p \in Pollers, Rechecked(p)
       PROVE  Inv'
  <2>1. scan' \in [Pollers -> Scans] /\ ScanInv'
    <3> DEFINE r == [scan[p] EXCEPT !.pc = "fetching", !.pass = 2]
    <3>1. r \in Scans /\ ScanOK(r) /\ r.batch = scan[p].batch
      <4>1. scan[p] \in Scans /\ scan[p].todo # << >>
        BY <1>13 DEF Rechecked, At, Inv, TypeOK, ScanInv, ScanOK
      <4>2. r.todo = scan[p].todo /\ r.batch = scan[p].batch /\ r.pc = "fetching"
        BY <4>1 DEF Scans
      <4>3. r \in Scans
        BY <4>1, 2 \in 1 .. 2 DEF Scans, Calling
      <4> QED
        BY <4>1, <4>2, <4>3 DEF ScanOK
    <3>2. CASE scan' = [scan EXCEPT ![p].pc = "fetching", ![p].pass = 2]
      <4>1. scan' = [scan EXCEPT ![p] = r]
        BY <3>2 DEF Inv, TypeOK
      <4> QED
        BY <1>13, <3>1, <4>1, ScanStepKeeps DEF ScanStep, Rechecked, Inv, ScanInv
    <3>3. CASE NextFolder(p)
      BY <1>13, <3>3, NextFolderKeeps DEF Rechecked, At
    <3> QED
      BY <1>13, <3>2, <3>3 DEF Rechecked
  <2> QED
    BY <1>13, <2>1 DEF Rechecked, Inv, TypeOK
<1>14. ASSUME NEW p \in Pollers, FinalChecked(p)
       PROVE  Inv'
  <2>1. scan' \in [Pollers -> Scans] /\ ScanInv'
    BY <1>14, NextFolderKeeps DEF FinalChecked, At
  <2> QED
    BY <1>14, <2>1 DEF FinalChecked, Inv, TypeOK
<1>15. ASSUME NEW p \in Pollers, ScanFails(p)
       PROVE  Inv'
  <2>1. scan' \in [Pollers -> Scans] /\ ScanInv'
    BY <1>15, NextFolderKeeps DEF ScanFails
  <2> QED
    BY <1>15, <2>1, BoundAssumption DEF ScanFails, Inv, TypeOK
<1>16. ASSUME NEW p \in Pollers, TakeUnparseable(p)
       PROVE  Inv'
  <2>1. scan' \in [Pollers -> Scans] /\ ScanInv'
    BY <1>16, SendMoveKeeps DEF TakeUnparseable, TakesOne, At
  <2> QED
    BY <1>16, <2>1 DEF TakeUnparseable, Inv, TypeOK
<1>17. ASSUME NEW p \in Pollers, TakeCreate(p)
       PROVE  Inv'
  <2>1. scan[p].pc # "idle" /\ scan[p].batch # {} /\ UNCHANGED place
    BY <1>17 DEF TakeCreate, TakesOne, At
  <2>2. Action(p) \in Actions /\ Sender(p) \in Senders
    BY <1>17, <2>1, AtHand DEF TakeCreate
  <2> DEFINE k == Opposite(RuleAction(Action(p)))
  <2>3. k \in RuleActions
    BY <2>2, RegistryTypes
  <2>4. last' = [last EXCEPT ![Sender(p)] = "none"] /\ UNCHANGED applied
    BY <1>17 DEF TakeCreate, Save, ReadyToAdd
  <2>5. rules' \in RuleCounts
    <3>1. rules[Sender(p)][k] \in 0 .. MaxRules
      BY <2>2, <2>3 DEF Inv, TypeOK, RuleCounts
    <3>2. CASE UNCHANGED rules
      BY <3>2 DEF Inv, TypeOK
    <3>3. CASE rules[Sender(p)][k] > 0 /\ rules' = [rules EXCEPT ![Sender(p)][k] = @ - 1]
      <4> HIDE DEF k
      <4> QED
        BY <2>2, <2>3, <3>1, <3>3, BoundAssumption DEF Inv, TypeOK, RuleCounts
    <3> QED
      BY <1>17, <3>2, <3>3 DEF TakeCreate
  <2>6. disk' \in RuleCounts
    BY <1>17, <2>5 DEF TakeCreate, Save, Inv, TypeOK
  <2>7. ReadyToAdd(p, TRUE) \/ ReadyToAdd(p, FALSE) \/ NextFolder(p)
    BY <1>17 DEF TakeCreate, Save
  <2>8. scan' \in [Pollers -> Scans] /\ ScanInv'
    BY <2>1, <2>7, ReadyToAddKeeps, NextFolderKeeps
  <2> QED
    BY <1>17, <2>4, <2>5, <2>6, <2>8 DEF TakeCreate, Inv, TypeOK
<1>18. ASSUME NEW p \in Pollers, Add(p)
       PROVE  Inv'
  <2>1. scan[p].pc # "idle" /\ scan[p].batch # {} /\ UNCHANGED place
    BY <1>18 DEF Add, At, Inv, ScanInv, ScanOK
  <2>2. Action(p) \in Actions /\ Current(p) \in Messages
    BY <2>1, AtHand
  <2> DEFINE k == RuleAction(Action(p))
  <2>3. k \in RuleActions
    BY <2>2, RegistryTypes
  <2>4. rules' \in RuleCounts
    <3>1. CASE UNCHANGED rules
      BY <3>1 DEF Inv, TypeOK
    <3>2. CASE ~(rules[Sender(p)][k] > 0) /\ rules' = [rules EXCEPT ![Sender(p)][k] = @ + 1]
      <4> HIDE DEF k
      <4>1. CASE Sender(p) \in Senders
        <5>1. rules[Sender(p)][k] = 0
          BY <2>3, <3>2, <4>1 DEF Inv, TypeOK, RuleCounts
        <5> QED
          BY <2>3, <3>2, <4>1, <5>1, BoundAssumption DEF Inv, TypeOK, RuleCounts
      <4>2. CASE Sender(p) \notin Senders
        BY <3>2, <4>2 DEF Inv, TypeOK, RuleCounts
      <4> QED
        BY <4>1, <4>2
    <3> QED
      BY <1>18, <3>1, <3>2 DEF Add
  <2>5. disk' \in RuleCounts
    BY <1>18, <2>4 DEF Add, Save, Inv, TypeOK
  <2>6. Done(p, TRUE) \/ (NextFolder(p) /\ UNCHANGED applied
                          /\ last' = [last EXCEPT ![Sender(p)] = "none"])
    BY <1>18 DEF Add, Save
  <2>7. scan' \in [Pollers -> Scans] /\ ScanInv'
    BY <2>1, <2>6, SendMoveKeeps, NextFolderKeeps DEF Done
  <2>8. applied' \subseteq Messages /\ last' \in [Senders -> Actions \cup {"web", "none"}]
    BY <2>2, <2>6 DEF Done, Inv, TypeOK
  <2> QED
    BY <1>18, <2>4, <2>5, <2>7, <2>8 DEF Add, Inv, TypeOK
<1>19. ASSUME NEW p \in Pollers, TakeRemove(p)
       PROVE  Inv'
  <2>1. scan[p].pc # "idle" /\ scan[p].batch # {} /\ UNCHANGED place
    BY <1>19 DEF TakeRemove, TakesOne, At
  <2>2. Action(p) \in Actions /\ Sender(p) \in Senders /\ Current(p) \in Messages
    BY <1>19, <2>1, AtHand DEF TakeRemove
  <2> DEFINE k == RuleAction(Action(p))
  <2>3. k \in RuleActions
    BY <2>2, RegistryTypes
  <2>4. rules' \in RuleCounts
    <3>1. rules[Sender(p)][k] \in 0 .. MaxRules
      BY <2>2, <2>3 DEF Inv, TypeOK, RuleCounts
    <3>2. CASE UNCHANGED rules
      BY <3>2 DEF Inv, TypeOK
    <3>3. CASE rules[Sender(p)][k] > 0 /\ rules' = [rules EXCEPT ![Sender(p)][k] = @ - 1]
      <4> HIDE DEF k
      <4> QED
        BY <2>2, <2>3, <3>1, <3>3, BoundAssumption DEF Inv, TypeOK, RuleCounts
    <3> QED
      BY <1>19, <3>2, <3>3 DEF TakeRemove
  <2>5. disk' \in RuleCounts
    BY <1>19, <2>4 DEF TakeRemove, Save, Inv, TypeOK
  <2>6. \/ Done(p, TRUE) \/ Done(p, FALSE)
        \/ NextFolder(p) /\ UNCHANGED applied /\ last' = [last EXCEPT ![Sender(p)] = "none"]
    BY <1>19 DEF TakeRemove, Save
  <2>7. scan' \in [Pollers -> Scans] /\ ScanInv'
    BY <2>1, <2>6, SendMoveKeeps, NextFolderKeeps DEF Done
  <2>8. applied' \subseteq Messages /\ last' \in [Senders -> Actions \cup {"web", "none"}]
    BY <2>2, <2>6 DEF Done, Inv, TypeOK
  <2> QED
    BY <1>19, <2>4, <2>5, <2>7, <2>8 DEF TakeRemove, Inv, TypeOK
<1>20. ASSUME NEW p \in Pollers, Moves(p)
       PROVE  Inv'
  <2> DEFINE pc == IF Addressed(p) = {} THEN "missed" ELSE "moved"
             r == [scan[p] EXCEPT !.pc = pc]
  <2>1. scan[p] \in Scans /\ ScanOK(scan[p]) /\ scan[p].todo # << >> /\ scan[p].batch # {}
    BY <1>20 DEF Moves, At, Inv, TypeOK, ScanInv, ScanOK
  <2>2. r \in Scans /\ ScanOK(r) /\ r.batch = scan[p].batch
    BY <2>1 DEF Scans, ScanOK, Calling
  <2>3. scan' = [scan EXCEPT ![p] = r]
    BY <1>20 DEF Moves, Goto, Inv, TypeOK
  <2>4. \A m \in Messages : place'[m] \in {place[m], "inbox", "trash"}
    BY <1>20 DEF Moves, Destination
  <2>5. place' \in [Messages -> {"unseen", "folder", "inbox", "trash", "user"}]
    BY <1>20, <2>4 DEF Moves, Inv, TypeOK
  <2>6. scan' \in [Pollers -> Scans]
    BY <2>2, <2>3 DEF Inv, TypeOK
  <2>7. \A q \in Pollers : scan[q].batch \subseteq Messages
    BY DEF Inv, TypeOK, Scans
  <2>8. ScanInv'
    <3> HIDE DEF r
    <3> QED
      BY <2>2, <2>3, <2>4, <2>7 DEF Inv, TypeOK, ScanInv
  <2> QED
    BY <1>20, <2>5, <2>6, <2>8 DEF Moves, Inv, TypeOK
<1>21. ASSUME NEW p \in Pollers, MoveAnswered(p)
       PROVE  Inv'
  <2>1. scan[p].pc # "idle" /\ scan[p].batch # {} /\ UNCHANGED place
    BY <1>21 DEF MoveAnswered, At, Inv, ScanInv, ScanOK
  <2>2. Current(p) \in Messages
    BY <2>1, AtHand
  <2>3. scan' \in [Pollers -> Scans] /\ ScanInv'
    BY <1>21, <2>1, ReturnsKeeps DEF MoveAnswered
  <2>4. logged' \subseteq Messages \X BOOLEAN
    BY <1>21, <2>2, LogRowsType DEF MoveAnswered
  <2> QED
    BY <1>21, <2>3, <2>4 DEF MoveAnswered, Inv, TypeOK
<1>22. ASSUME NEW p \in Pollers, MoveMissed(p) \/ MoveFails(p)
       PROVE  Inv'
  <2>1. scan[p].pc # "idle" /\ scan[p].batch # {} /\ UNCHANGED place /\ Unmoved(p)
    BY <1>22 DEF MoveMissed, MoveFails, At, Inv, ScanInv, ScanOK
  <2>2. Current(p) \in Messages
    BY <2>1, AtHand
  <2>3. scan' \in [Pollers -> Scans] /\ ScanInv'
    BY <2>1, ReturnsKeeps, NextFolderKeeps DEF Unmoved
  <2>4. logged' \subseteq Messages \X BOOLEAN
    BY <2>1, <2>2, LogRowsType DEF Unmoved
  <2> QED
    BY <1>22, <2>3, <2>4, BoundAssumption DEF MoveMissed, MoveFails, Inv, TypeOK
<1>23. ASSUME Crash \/ StartFails
       PROVE  Inv'
  BY <1>23, NoScanType, BoundAssumption DEF Crash, StartFails, Restarts, Inv, TypeOK, ScanInv
<1>24. ASSUME UNCHANGED vars
       PROVE  Inv'
  BY <1>24 DEF vars, Inv, TypeOK, ScanInv, ScanOK
<1> QED
  BY <1>1, <1>2, <1>3, <1>4, <1>5, <1>6, <1>7, <1>8, <1>9, <1>10, <1>11, <1>12, <1>13, <1>14,
     <1>15, <1>16, <1>17, <1>18, <1>19, <1>20, <1>21, <1>22, <1>23, <1>24
  DEF Next, Answered, Processes

\* The configuration, the scans and the log keep their types over any overlap
\* of scans, changes and restarts.
THEOREM TypeCorrect == Spec => []TypeOK
<1>1. Inv => TypeOK
  BY DEF Inv
<1> QED
  BY InitInv, StepInv, <1>1, PTL DEF Spec

-----------------------------------------------------------------------------
\* Only one processMessage() is between two awaits.
OneRunning ==
  \A p, q \in Pollers : scan[p].pc \in Running /\ scan[q].pc \in Running => p = q

\* When a rule is about to be added there is none of the opposite kind.
AddingInv ==
  \A p \in Pollers : scan[p].pc = "adding" =>
    /\ Creates(Action(p)) /\ Sender(p) # NoSender
    /\ rules[Sender(p)][Opposite(RuleAction(Action(p)))] = 0

\* Without failing writes the file is up to date, and the last action holds.
SavedInv == ~DiskFails => disk = rules /\ LastActionHolds

RuleInv == OneRunning /\ AddingInv /\ OneRulePerSender /\ SavedInv

\* The step is p's, and p does not begin to run while another does.
OnlyScanOf(p) ==
  /\ p \in Pollers
  /\ \A q \in Pollers \ {p} : scan'[q] = scan[q]
  /\ AtRest \/ scan[p].pc \in Running \/ scan'[p].pc \notin Running

LEMMA OneRunningStays ==
  ASSUME OneRunning, NEW p, OnlyScanOf(p)
  PROVE  OneRunning'
BY DEF OneRunning, OnlyScanOf, AtRest

\* The message at hand does not change under a call.
LEMMA CurrentStays ==
  ASSUME NEW p \in Pollers, UNCHANGED from, scan'[p] = scan[p],
         \A m \in scan[p].batch : uid'[m] = uid[m]
  PROVE  Current(p)' = Current(p) /\ Sender(p)' = Sender(p) /\ Action(p)' = Action(p)
<1>1. Earliest(p)' = Earliest(p)
  BY DEF Earliest
<1> QED
  BY <1>1 DEF Current, Sender, Action

\* A step of p that leaves the rules alone, and does not go on to add one.
LEMMA QuietStep ==
  ASSUME RuleInv, NEW p, OnlyScanOf(p), UNCHANGED << rules, disk, last, from, uid >>,
         scan'[p].pc # "adding"
  PROVE  RuleInv'
<1>1. OneRunning'
  BY OneRunningStays DEF RuleInv
<1>2. AddingInv'
  <2> SUFFICES ASSUME NEW q \in Pollers, scan'[q].pc = "adding"
               PROVE  /\ Creates(Action(q)') /\ Sender(q)' # NoSender
                      /\ rules[Sender(q)'][Opposite(RuleAction(Action(q)'))] = 0
    BY DEF AddingInv, RuleInv, Creates, RuleAction
  <2>1. scan'[q] = scan[q]
    BY DEF OnlyScanOf
  <2> QED
    BY <2>1, CurrentStays DEF RuleInv, AddingInv
<1>3. OneRulePerSender' /\ SavedInv'
  BY DEF RuleInv, OneRulePerSender, SavedInv, LastActionHolds
<1> QED
  BY <1>1, <1>2, <1>3 DEF RuleInv

\* A step in which no scan moves.
LEMMA StillStep ==
  ASSUME Inv, RuleInv, UNCHANGED << rules, disk, last, from, scan >>,
         \A m \in Messages : place[m] # "unseen" => uid'[m] = uid[m]
  PROVE  RuleInv'
<1>1. AddingInv'
  <2> SUFFICES ASSUME NEW q \in Pollers, scan[q].pc = "adding"
               PROVE  /\ Creates(Action(q)') /\ Sender(q)' # NoSender
                      /\ rules[Sender(q)'][Opposite(RuleAction(Action(q)'))] = 0
    BY DEF AddingInv, RuleInv, Creates, RuleAction
  <2>1. \A m \in scan[q].batch : uid'[m] = uid[m]
    BY DEF Inv, TypeOK, Scans, ScanInv
  <2> QED
    BY <2>1, CurrentStays DEF RuleInv, AddingInv
<1>2. OneRunning' /\ OneRulePerSender' /\ SavedInv'
  BY DEF RuleInv, OneRunning, OneRulePerSender, SavedInv, LastActionHolds
<1> QED
  BY <1>1, <1>2 DEF RuleInv

\* How the scan of p moves in each way.
LEMMA ScanMoves ==
  ASSUME Inv, NEW p \in Pollers
  PROVE  /\ NextFolder(p) => /\ \A q \in Pollers \ {p} : scan'[q] = scan[q]
                             /\ scan'[p].pc \in {"status", "idle"}
         /\ \A pc : Goto(p, pc) => /\ \A q \in Pollers \ {p} : scan'[q] = scan[q]
                                  /\ scan'[p].pc = pc
         /\ Begin(p) => /\ \A q \in Pollers \ {p} : scan'[q] = scan[q]
                        /\ scan'[p].pc \in {scan[p].pc, "status"}
         /\ \A rows : SendMove(p, rows) => /\ \A q \in Pollers \ {p} : scan'[q] = scan[q]
                                          /\ scan'[p].pc = "moving"
         /\ Returns(p) => /\ \A q \in Pollers \ {p} : scan'[q] = scan[q]
                          /\ scan'[p].pc = "next"
<1>1. scan \in [Pollers -> Scans] /\ scan[p] \in Scans
  BY DEF Inv, TypeOK
<1>2. NextFolder(p) => /\ \A q \in Pollers \ {p} : scan'[q] = scan[q]
                       /\ scan'[p].pc \in {"status", "idle"}
  BY <1>1 DEF NextFolder, NoScan, ScanOf
<1>3. Begin(p) => /\ \A q \in Pollers \ {p} : scan'[q] = scan[q]
                  /\ scan'[p].pc \in {scan[p].pc, "status"}
  BY <1>1 DEF Begin, ScanOf
<1>4. ASSUME NEW pc, Goto(p, pc)
      PROVE  (\A q \in Pollers \ {p} : scan'[q] = scan[q]) /\ scan'[p].pc = pc
  BY <1>1, <1>4 DEF Goto, Scans
<1>5. ASSUME NEW rows, SendMove(p, rows)
      PROVE  (\A q \in Pollers \ {p} : scan'[q] = scan[q]) /\ scan'[p].pc = "moving"
  BY <1>1, <1>5 DEF SendMove, Scans
<1>6. ASSUME Returns(p)
      PROVE  (\A q \in Pollers \ {p} : scan'[q] = scan[q]) /\ scan'[p].pc = "next"
  BY <1>1, <1>6 DEF Returns, Scans
<1> QED
  BY <1>2, <1>3, <1>4, <1>5, <1>6

\* One rule of a sender is added or removed, and saved unless that fails.
RuleChange(s, k) ==
  \/ UNCHANGED << rules, disk >>
  \/ /\ \/ rules[s][k] > 0 /\ rules' = [rules EXCEPT ![s][k] = @ - 1]
        \/ /\ rules[s][k] = 0 /\ rules[s][Opposite(k)] = 0
           /\ rules' = [rules EXCEPT ![s][k] = @ + 1]
     /\ disk' = rules' \/ (DiskFails /\ disk' = disk)

\* A sender has one rule of a kind, or none of it, and not one of each.
LEMMA OneOrNone ==
  ASSUME Inv, RuleInv, NEW s \in Senders, NEW k \in RuleActions
  PROVE  rules[s][k] \in {0, 1} /\ (rules[s][k] = 1 => rules[s][Opposite(k)] = 0)
<1>1. rules[s]["skip"] \in Nat /\ rules[s]["delete"] \in Nat
      /\ rules[s]["skip"] + rules[s]["delete"] <= 1
  BY DEF RuleInv, OneRulePerSender, Inv, TypeOK, RuleCounts, RuleActions
<1>2. CASE k = "skip"
  BY <1>1, <1>2 DEF Opposite
<1>3. CASE k = "delete"
  BY <1>1, <1>3 DEF Opposite
<1> QED
  BY <1>2, <1>3 DEF RuleActions

\* The values of last that are no action.
LEMMA NoneIsNoAction == "none" \notin Actions /\ "web" \notin Actions
BY ActionAssumption

\* The last action holds afterwards if it is none, or if it holds of the new
\* rules of its sender.
LEMMA RuleChangeKeeps ==
  ASSUME Inv, RuleInv, NEW s \in Senders, NEW k \in RuleActions, RuleChange(s, k),
         NEW a, last' = [last EXCEPT ![s] = a],
         a \in Actions /\ ~DiskFails => Holds(a, rules'[s])
  PROVE  OneRulePerSender' /\ SavedInv'
<1>1. \A t \in Senders \ {s} : rules'[t] = rules[t]
  BY DEF RuleChange, Inv, TypeOK, RuleCounts
<1>2. rules'[s]["skip"] + rules'[s]["delete"] <= 1
  <2>1. rules \in [Senders -> [RuleActions -> 0 .. MaxRules]]
        /\ rules[s] \in [RuleActions -> 0 .. MaxRules]
    BY DEF Inv, TypeOK, RuleCounts
  <2>2. rules[s]["skip"] \in Nat /\ rules[s]["delete"] \in Nat
        /\ rules[s]["skip"] + rules[s]["delete"] <= 1
    BY <2>1, BoundAssumption DEF RuleInv, OneRulePerSender, RuleActions
  <2>3. CASE UNCHANGED rules
    BY <2>2, <2>3
  <2>4. CASE rules[s][k] > 0 /\ rules' = [rules EXCEPT ![s][k] = @ - 1]
    <3>1. rules'[s] = [rules[s] EXCEPT ![k] = @ - 1]
      BY <2>1, <2>4
    <3>2. CASE k = "skip"
      BY <2>1, <2>2, <3>1, <3>2 DEF RuleCounts, RuleActions
    <3>3. CASE k = "delete"
      BY <2>1, <2>2, <3>1, <3>3 DEF RuleCounts, RuleActions
    <3> QED
      BY <3>2, <3>3 DEF RuleActions
  <2>5. CASE /\ rules[s][k] = 0 /\ rules[s][Opposite(k)] = 0
             /\ rules' = [rules EXCEPT ![s][k] = @ + 1]
    <3>1. rules'[s] = [rules[s] EXCEPT ![k] = @ + 1]
      BY <2>1, <2>5
    <3>2. CASE k = "skip"
      BY <2>1, <2>2, <2>5, <3>1, <3>2 DEF RuleCounts, RuleActions, Opposite
    <3>3. CASE k = "delete"
      BY <2>1, <2>2, <2>5, <3>1, <3>3 DEF RuleCounts, RuleActions, Opposite
    <3> QED
      BY <3>2, <3>3 DEF RuleActions
  <2> QED
    BY <2>3, <2>4, <2>5 DEF RuleChange
<1>3. disk' = rules' \/ disk' = disk
  BY DEF RuleChange
<1>4. OneRulePerSender'
  BY <1>1, <1>2, <1>3 DEF RuleInv, OneRulePerSender
<1>5. ~DiskFails => disk' = rules'
  BY DEF RuleChange, RuleInv, SavedInv
<1>6. ~DiskFails => LastActionHolds'
  BY <1>1 DEF RuleInv, SavedInv, LastActionHolds, Inv, TypeOK
<1> QED
  BY <1>4, <1>5, <1>6 DEF SavedInv

\* There are no rules, and no scan, to begin with.
LEMMA InitRule == Init => RuleInv
BY ActionAssumption DEF Init, RuleInv, OneRunning, AddingInv, OneRulePerSender, SavedInv,
   LastActionHolds, NoScan, ScanOf, Running, RuleActions

\* No step breaks the rules, if the web UI makes no duplicates.
LEMMA StepRule ==
  ASSUME Inv, RuleInv, [Next]_vars, ~WebDuplicates
  PROVE  RuleInv'
<1> USE DEF mailVars, ruleVars, configVars, rootVars
<1>1. ASSUME NEW m \in Messages, Drop(m)
      PROVE  RuleInv'
  <2>1. \A n \in Messages : place[n] # "unseen" => uid'[n] = uid[n]
    BY <1>1 DEF Drop, Inv, TypeOK
  <2> QED
    BY <1>1, <2>1, StillStep DEF Drop
<1>2. ASSUME NEW m \in Messages, TakeBack(m)
      PROVE  RuleInv'
  BY <1>2, StillStep DEF TakeBack
<1>4. ASSUME PutConfig
      PROVE  RuleInv'
  BY <1>4, StillStep DEF PutConfig
<1>5. ASSUME FirstStart
      PROVE  RuleInv'
  BY <1>5, StillStep DEF FirstStart
<1>6. ASSUME EnsureFails
      PROVE  RuleInv'
  BY <1>6, StillStep DEF EnsureFails
<1>8. ASSUME NEW p \in Pollers, Rebuilt(p)
      PROVE  RuleInv'
  BY <1>8, StillStep DEF Rebuilt
<1>7. ASSUME NEW p \in Pollers, FirstScan(p)
       PROVE  RuleInv'
  <2>1. OnlyScanOf(p) /\ scan'[p].pc # "adding"
    BY <1>7, ScanMoves DEF FirstScan, Unused, At, OnlyScanOf
  <2> QED
    BY <1>7, <2>1, QuietStep DEF FirstScan
<1>9. ASSUME NEW p \in Pollers, Tick(p)
       PROVE  RuleInv'
  <2>1. OnlyScanOf(p) /\ scan'[p].pc # "adding"
    BY <1>9, ScanMoves DEF Tick, At, OnlyScanOf
  <2> QED
    BY <1>9, <2>1, QuietStep DEF Tick
<1>10. ASSUME NEW p \in Pollers, StatusAnswered(p)
       PROVE  RuleInv'
  <2>1. OnlyScanOf(p) /\ scan'[p].pc # "adding"
    BY <1>10, ScanMoves DEF StatusAnswered, OnlyScanOf
  <2> QED
    BY <1>10, <2>1, QuietStep DEF StatusAnswered
<1>12. ASSUME NEW p \in Pollers, PassDone(p)
       PROVE  RuleInv'
  <2>1. OnlyScanOf(p) /\ scan'[p].pc # "adding"
    BY <1>12, ScanMoves DEF PassDone, OnlyScanOf, At, Running
  <2> QED
    BY <1>12, <2>1, QuietStep DEF PassDone
<1>14. ASSUME NEW p \in Pollers, FinalChecked(p)
       PROVE  RuleInv'
  <2>1. OnlyScanOf(p) /\ scan'[p].pc # "adding"
    BY <1>14, ScanMoves DEF FinalChecked, OnlyScanOf
  <2> QED
    BY <1>14, <2>1, QuietStep DEF FinalChecked
<1>15. ASSUME NEW p \in Pollers, ScanFails(p)
       PROVE  RuleInv'
  <2>1. OnlyScanOf(p) /\ scan'[p].pc # "adding"
    BY <1>15, ScanMoves DEF ScanFails, OnlyScanOf
  <2> QED
    BY <1>15, <2>1, QuietStep DEF ScanFails
<1>16. ASSUME NEW p \in Pollers, TakeUnparseable(p)
       PROVE  RuleInv'
  <2>1. OnlyScanOf(p) /\ scan'[p].pc # "adding"
    BY <1>16, ScanMoves DEF TakeUnparseable, OnlyScanOf, Running
  <2> QED
    BY <1>16, <2>1, QuietStep DEF TakeUnparseable
<1>20. ASSUME NEW p \in Pollers, Moves(p)
       PROVE  RuleInv'
  <2>1. OnlyScanOf(p) /\ scan'[p].pc # "adding"
    BY <1>20, ScanMoves DEF Moves, OnlyScanOf, Running
  <2> QED
    BY <1>20, <2>1, QuietStep DEF Moves
<1>21. ASSUME NEW p \in Pollers, MoveAnswered(p)
       PROVE  RuleInv'
  <2>1. OnlyScanOf(p) /\ scan'[p].pc # "adding"
    BY <1>21, ScanMoves DEF MoveAnswered, OnlyScanOf
  <2> QED
    BY <1>21, <2>1, QuietStep DEF MoveAnswered
<1>22. ASSUME NEW p \in Pollers, MoveMissed(p) \/ MoveFails(p)
       PROVE  RuleInv'
  <2>1. OnlyScanOf(p) /\ scan'[p].pc # "adding"
    BY <1>22, ScanMoves DEF MoveMissed, MoveFails, Unmoved, OnlyScanOf
  <2> QED
    BY <1>22, <2>1, QuietStep DEF MoveMissed, MoveFails
<1>11. ASSUME NEW p \in Pollers, FetchAnswered(p)
       PROVE  RuleInv'
  <2>1. CASE NextFolder(p)
    <3>1. OnlyScanOf(p) /\ scan'[p].pc # "adding"
      BY <1>11, <2>1, ScanMoves DEF FetchAnswered, OnlyScanOf
    <3> QED
      BY <1>11, <3>1, QuietStep DEF FetchAnswered
  <2>2. CASE scan' = [scan EXCEPT ![p].pc = "next", ![p].batch = InBox(Box(p))]
    <3>1. OnlyScanOf(p) /\ scan'[p].pc # "adding"
      BY <1>11, <2>2 DEF FetchAnswered, OnlyScanOf, Inv, TypeOK, Scans
    <3> QED
      BY <1>11, <3>1, QuietStep DEF FetchAnswered
  <2> QED
    BY <1>11, <2>1, <2>2 DEF FetchAnswered
<1>13. ASSUME NEW p \in Pollers, Rechecked(p)
       PROVE  RuleInv'
  <2>1. CASE NextFolder(p)
    <3>1. OnlyScanOf(p) /\ scan'[p].pc # "adding"
      BY <1>13, <2>1, ScanMoves DEF Rechecked, OnlyScanOf
    <3> QED
      BY <1>13, <3>1, QuietStep DEF Rechecked
  <2>2. CASE scan' = [scan EXCEPT ![p].pc = "fetching", ![p].pass = 2]
    <3>1. OnlyScanOf(p) /\ scan'[p].pc # "adding"
      BY <1>13, <2>2 DEF Rechecked, OnlyScanOf, Inv, TypeOK, Scans
    <3> QED
      BY <1>13, <3>1, QuietStep DEF Rechecked
  <2> QED
    BY <1>13, <2>1, <2>2 DEF Rechecked
<1>23. ASSUME Crash \/ StartFails
       PROVE  RuleInv'
  <2>1. \A p \in Pollers : scan'[p].pc = "idle"
    BY <1>23 DEF Crash, StartFails, Restarts, NoScan, ScanOf
  <2>2. OneRunning' /\ AddingInv'
    BY <2>1 DEF OneRunning, AddingInv, Running
  <2>3. OneRulePerSender' /\ SavedInv'
    BY <1>23 DEF Crash, StartFails, Restarts, RuleInv, OneRulePerSender, SavedInv, LastActionHolds
  <2> QED
    BY <2>2, <2>3 DEF RuleInv
<1>24. ASSUME UNCHANGED vars
       PROVE  RuleInv'
  BY <1>24, StillStep DEF vars
<1>3. ASSUME NEW s \in Senders, NEW k \in RuleActions, WebEdit(s, k)
      PROVE  RuleInv'
  <2>1. \A p \in Pollers : scan[p].pc # "adding"
    BY <1>3 DEF WebEdit, AtRest, Running
  <2>2. OneRunning' /\ AddingInv'
    BY <1>3, <2>1 DEF WebEdit, RuleInv, OneRunning, AddingInv
  <2>3. rules'[s]["skip"] + rules'[s]["delete"] <= 1
        /\ \A t \in Senders \ {s} : rules'[t] = rules[t]
    <3>1. rules[s]["skip"] \in Nat /\ rules[s]["delete"] \in Nat
          /\ rules[s]["skip"] + rules[s]["delete"] <= 1
      BY DEF RuleInv, OneRulePerSender, Inv, TypeOK, RuleCounts, RuleActions
    <3>2. CASE rules[s][k] + rules[s][Opposite(k)] = 0 /\ rules' = [rules EXCEPT ![s][k] = @ + 1]
      BY <3>1, <3>2 DEF Inv, TypeOK, RuleCounts, RuleActions, Opposite
    <3>3. CASE rules[s][k] > 0 /\ rules' = [rules EXCEPT ![s][k] = @ - 1]
      BY <3>1, <3>3 DEF Inv, TypeOK, RuleCounts, RuleActions
    <3> QED
      BY <1>3, <3>2, <3>3 DEF WebEdit
  <2>4. disk' = rules' \/ (DiskFails /\ disk' = disk)
    BY <1>3 DEF WebEdit
  <2>5. OneRulePerSender'
    BY <2>3, <2>4 DEF RuleInv, OneRulePerSender
  <2>6. last' = [last EXCEPT ![s] = "web"]
    BY <1>3 DEF WebEdit
  <2>7. SavedInv'
    BY <2>3, <2>4, <2>6, ActionAssumption DEF RuleInv, SavedInv, LastActionHolds, Inv, TypeOK
  <2> QED
    BY <2>2, <2>5, <2>7 DEF RuleInv
<1>17. ASSUME NEW p \in Pollers, TakeCreate(p)
       PROVE  RuleInv'
  <2>1. scan[p].pc = "next" /\ scan[p].batch # {} /\ Creates(Action(p)) /\ Sender(p) # NoSender
        /\ UNCHANGED << from, uid >>
    BY <1>17 DEF TakeCreate, TakesOne, At
  <2>2. Action(p) \in Actions /\ Sender(p) \in Senders
    BY <2>1, AtHand
  <2> DEFINE s == Sender(p)
             k == Opposite(RuleAction(Action(p)))
  <2>3. k \in RuleActions
    BY <2>2, RegistryTypes
  <2>4. RuleChange(s, k)
    <3>1. CASE UNCHANGED << rules, disk >>
      BY <3>1 DEF RuleChange
    <3>2. CASE /\ rules[s][k] > 0 /\ rules' = [rules EXCEPT ![s][k] = @ - 1]
               /\ disk' = rules' \/ (DiskFails /\ disk' = disk)
      BY <3>2 DEF RuleChange
    <3> QED
      BY <1>17, <3>1, <3>2 DEF TakeCreate, Save
  <2>5. rules'[s][k] = 0
    <3>1. CASE ~(rules[s][k] > 0) /\ UNCHANGED rules
      BY <2>2, <2>3, <3>1 DEF Inv, TypeOK, RuleCounts
    <3>2. CASE rules[s][k] > 0 /\ rules' = [rules EXCEPT ![s][k] = @ - 1]
      <4> HIDE DEF k
      <4> QED
        BY <2>2, <2>3, <3>2, OneOrNone DEF Inv, TypeOK, RuleCounts
    <3> QED
      BY <1>17, <3>1, <3>2 DEF TakeCreate
  <2>6. last' = [last EXCEPT ![s] = "none"]
    BY <1>17 DEF TakeCreate, Save, ReadyToAdd
  <2>7. /\ \A q \in Pollers \ {p} : scan'[q] = scan[q]
        /\ \/ scan'[p].pc = "adding" /\ scan'[p].batch = scan[p].batch
              /\ scan'[p].todo = scan[p].todo
           \/ scan'[p].pc \in {"status", "idle"}
    <3>1. CASE NextFolder(p)
      BY <3>1, ScanMoves
    <3>2. ASSUME NEW rows, ReadyToAdd(p, rows)
          PROVE  /\ \A q \in Pollers \ {p} : scan'[q] = scan[q]
                 /\ scan'[p].pc = "adding" /\ scan'[p].batch = scan[p].batch
                 /\ scan'[p].todo = scan[p].todo
      BY <3>2 DEF ReadyToAdd, Inv, TypeOK, Scans
    <3> QED
      BY <1>17, <3>1, <3>2 DEF TakeCreate, Save
  <2>8. OneRunning'
    BY <2>1, <2>7, OneRunningStays DEF OnlyScanOf, Running, RuleInv
  <2>9. AddingInv'
    <3> SUFFICES ASSUME NEW q \in Pollers, scan'[q].pc = "adding"
                 PROVE  /\ Creates(Action(q)') /\ Sender(q)' # NoSender
                        /\ rules'[Sender(q)'][Opposite(RuleAction(Action(q)'))] = 0
      BY DEF AddingInv, Creates, RuleAction
    <3>1. q = p
      BY <2>1, <2>7 DEF RuleInv, OneRunning, Running
    <3>2. Earliest(p)' = Earliest(p)
      BY <2>1, <2>7, <3>1 DEF Earliest
    <3>3. Sender(p)' = Sender(p) /\ Action(p)' = Action(p)
      BY <2>1, <2>7, <3>1, <3>2 DEF Sender, Current, Action
    <3> QED
      BY <2>1, <2>5, <3>1, <3>3
  <2>10. OneRulePerSender' /\ SavedInv'
    BY <2>2, <2>3, <2>4, <2>6, RuleChangeKeeps, NoneIsNoAction DEF Inv, TypeOK
  <2> QED
    BY <2>8, <2>9, <2>10 DEF RuleInv
<1>18. ASSUME NEW p \in Pollers, Add(p)
       PROVE  RuleInv'
  <2> DEFINE s == Sender(p)
             k == RuleAction(Action(p))
  <2>1. scan[p].pc = "adding" /\ scan[p].batch # {}
    BY <1>18 DEF Add, At, Inv, ScanInv, ScanOK
  <2>2. Action(p) \in Actions /\ s \in Senders /\ Creates(Action(p))
        /\ rules[s][Opposite(k)] = 0
    BY <2>1, AtHand DEF RuleInv, AddingInv
  <2>3. k \in RuleActions
    BY <2>2, RegistryTypes
  <2>4. rules[s][k] \in {0, 1} /\ rules[s][Opposite(k)] \in {0, 1} /\ Opposite(k) # k
    BY <2>2, <2>3, RegistryTypes, OneOrNone DEF RuleActions, Opposite
  <2>5. RuleChange(s, k) /\ rules'[s][k] > 0 /\ rules'[s][Opposite(k)] = 0
    <3>1. CASE rules[s][k] > 0 /\ UNCHANGED << rules, disk >>
      BY <2>2, <3>1 DEF RuleChange
    <3>2. CASE /\ ~(rules[s][k] > 0) /\ rules' = [rules EXCEPT ![s][k] = @ + 1]
               /\ disk' = rules' \/ (DiskFails /\ disk' = disk)
      <4> HIDE DEF k, s
      <4> QED
        BY <2>2, <2>3, <2>4, <3>2 DEF RuleChange, Inv, TypeOK, RuleCounts
    <3> QED
      BY <1>18, <3>1, <3>2 DEF Add, Save
  <2>6. Holds(Action(p), rules'[s])
    BY <2>2, <2>5 DEF Holds
  <2>7. PICK a : /\ last' = [last EXCEPT ![s] = a]
                 /\ a = Action(p) \/ a = "none"
    BY <1>18 DEF Add, Save, Done
  <2>8. OneRulePerSender' /\ SavedInv'
    <3> HIDE DEF k, s
    <3> QED
      BY <2>2, <2>3, <2>5, <2>6, <2>7, RuleChangeKeeps, NoneIsNoAction
  <2>9. /\ \A q \in Pollers \ {p} : scan'[q] = scan[q]
        /\ scan'[p].pc \in {"status", "idle", "moving"}
    BY <1>18, ScanMoves DEF Add, Save, Done
  <2>10. OneRunning'
    BY <2>1, <2>9, OneRunningStays DEF OnlyScanOf, Running, RuleInv
  <2>11. AddingInv'
    BY <2>1, <2>9 DEF AddingInv, RuleInv, OneRunning, Running
  <2> QED
    BY <2>8, <2>10, <2>11 DEF RuleInv
<1>19. ASSUME NEW p \in Pollers, TakeRemove(p)
       PROVE  RuleInv'
  <2> DEFINE s == Sender(p)
             k == RuleAction(Action(p))
  <2>1. scan[p].pc = "next" /\ scan[p].batch # {} /\ s # NoSender /\ ~Creates(Action(p))
    BY <1>19 DEF TakeRemove, TakesOne, At
  <2>2. Action(p) \in Actions /\ s \in Senders
    BY <2>1, AtHand
  <2>3. k \in RuleActions
    BY <2>2, RegistryTypes
  <2>4. rules[s][k] \in {0, 1}
    BY <2>2, <2>3, OneOrNone
  <2>5. RuleChange(s, k) /\ rules'[s][k] = 0
    <3>1. CASE ~(rules[s][k] > 0) /\ UNCHANGED << rules, disk >>
      BY <2>4, <3>1 DEF RuleChange
    <3>2. CASE /\ rules[s][k] > 0 /\ rules' = [rules EXCEPT ![s][k] = @ - 1]
               /\ disk' = rules' \/ (DiskFails /\ disk' = disk)
      <4> HIDE DEF k, s
      <4> QED
        BY <2>2, <2>3, <2>4, <3>2 DEF RuleChange, Inv, TypeOK, RuleCounts
    <3> QED
      BY <1>19, <3>1, <3>2 DEF TakeRemove, Save
  <2>6. Holds(Action(p), rules'[s])
    BY <2>1, <2>5 DEF Holds
  <2>7. PICK a : /\ last' = [last EXCEPT ![s] = a]
                 /\ a = Action(p) \/ a = "none"
    BY <1>19 DEF TakeRemove, Save, Done
  <2>8. OneRulePerSender' /\ SavedInv'
    <3> HIDE DEF k, s
    <3> QED
      BY <2>2, <2>3, <2>5, <2>6, <2>7, RuleChangeKeeps, NoneIsNoAction
  <2>9. /\ \A q \in Pollers \ {p} : scan'[q] = scan[q]
        /\ scan'[p].pc \in {"status", "idle", "moving"}
    BY <1>19, ScanMoves DEF TakeRemove, Save, Done
  <2>10. OneRunning'
    BY <2>1, <2>9, OneRunningStays DEF OnlyScanOf, Running, RuleInv
  <2>11. AddingInv'
    BY <2>1, <2>9 DEF AddingInv, RuleInv, OneRunning, Running
  <2> QED
    BY <2>8, <2>10, <2>11 DEF RuleInv
<1> QED
  BY <1>1, <1>2, <1>3, <1>4, <1>5, <1>6, <1>7, <1>8, <1>9, <1>10, <1>11, <1>12, <1>13, <1>14,
     <1>15, <1>16, <1>17, <1>18, <1>19, <1>20, <1>21, <1>22, <1>23, <1>24
  DEF Next, Answered, Processes

\* Action folders, retries, restarts and overlapping scans leave no sender with
\* two rules, if the web UI gives it no second one.
THEOREM AtMostOneRule == ASSUME ~WebDuplicates PROVE Spec => []OneRulePerSender
<1>1. RuleInv => OneRulePerSender
  BY DEF RuleInv
<1>2. Inv /\ RuleInv /\ [Next]_vars => RuleInv'
  BY StepRule
<1> QED
  BY InitInv, StepInv, InitRule, <1>1, <1>2, PTL DEF Spec

\* The last message processed for a sender has its effect on the rules, unless
\* a write of the configuration failed or the web UI made duplicates.
THEOREM LastActionAlwaysHolds ==
  ASSUME ~WebDuplicates, ~DiskFails
  PROVE  Spec => []LastActionHolds
<1>1. RuleInv => LastActionHolds
  BY DEF RuleInv, SavedInv
<1>2. Inv /\ RuleInv /\ [Next]_vars => RuleInv'
  BY StepRule
<1> QED
  BY InitInv, StepInv, InitRule, <1>1, <1>2, PTL DEF Spec

-----------------------------------------------------------------------------
(* What is moved, and what is logged.                                      *)

\* The names of the folders do not change while a scan is in progress.
NamesStay == \A p \in Pollers : ~At(p, "idle") => scan[p].gen = gen

\* A uid is never given twice in a folder: the next one is above them all.
Dropped(b) == {m \in Messages : place[m] # "unseen" /\ box[m] = b}
UidInv ==
  \A m \in Messages : place[m] # "unseen" =>
    /\ uid[m] <= Cardinality(Dropped(box[m]))
    /\ \A n \in Messages : place[n] # "unseen" /\ box[n] = box[m] /\ uid[n] = uid[m] => n = m

\* The messages of a batch are of the folder at hand.  The MOVE that was sent
\* is for that folder, and for a message that has had its effect.
Mine(p) ==
  /\ \A m \in scan[p].batch : box[m] = Box(p)
  /\ scan[p].pc \in {"moving", "moved"} =>
       /\ scan[p].target = scan[p].gen
       /\ Sender(p) # NoSender => Current(p) \in applied
       /\ scan[p].pc = "moved" => place[Current(p)] # "folder"

\* SuccessIsTrue, with what keeps it so: nothing moved is dropped later.
LoggedInv ==
  \A m \in Messages : << m, TRUE >> \in logged => place[m] \notin {"unseen", "folder"}

MoveInv ==
  /\ UidInv
  /\ \A p \in Pollers : Mine(p)
  /\ NothingMovedUnread
  /\ LoggedInv

\* The message at hand is the same while the batch is.
LEMMA CurrentKept ==
  ASSUME NEW p \in Pollers, UNCHANGED << from, uid >>, scan'[p].batch = scan[p].batch
  PROVE  Current(p)' = Current(p) /\ Sender(p)' = Sender(p)
<1>1. Earliest(p)' = Earliest(p)
  BY DEF Earliest
<1> QED
  BY <1>1 DEF Current, Sender

\* Steps of others, of the user and of the web UI.
LEMMA MineStays ==
  ASSUME Inv, NEW p \in Pollers, Mine(p), scan'[p] = scan[p], UNCHANGED << box, from >>,
         applied \subseteq applied',
         \A m \in Messages : place[m] # "unseen" =>
           uid'[m] = uid[m] /\ (place[m] # "folder" => place'[m] # "folder")
  PROVE  Mine(p)'
<1>1. /\ scan[p].batch \subseteq Messages
      /\ \A m \in scan[p].batch : place[m] # "unseen"
      /\ scan[p].pc \in {"moving", "moved"} => scan[p].batch # {}
  BY DEF Inv, TypeOK, Scans, ScanInv, ScanOK
<1>2. Current(p)' = Current(p) /\ Sender(p)' = Sender(p) /\ Action(p)' = Action(p)
  BY <1>1, CurrentStays
<1>3. Box(p)' = Box(p)
  BY <1>2 DEF Box
<1>4. scan[p].batch # {} => Current(p) \in scan[p].batch
  BY CurrentInBatch DEF Inv
<1> QED
  BY <1>1, <1>2, <1>3, <1>4 DEF Mine

\* A step of p that goes on with its folder, or leaves it.
LEMMA MineGoesOn ==
  ASSUME NEW p \in Pollers, Mine(p), UNCHANGED box,
         scan'[p].pc \notin {"moving", "moved"},
         \/ scan'[p].batch = {}
         \/ /\ scan'[p].batch \subseteq scan[p].batch
            /\ scan'[p].todo = scan[p].todo /\ scan'[p].gen = scan[p].gen
  PROVE  Mine(p)'
<1>1. CASE scan'[p].batch = {}
  BY <1>1 DEF Mine
<1>2. CASE scan'[p].todo = scan[p].todo /\ scan'[p].gen = scan[p].gen
  <2>1. Box(p)' = Box(p)
    BY <1>2 DEF Box, Action
  <2> QED
    BY <1>2, <2>1 DEF Mine
<1> QED
  BY <1>1, <1>2

\* The MOVE is sent for the folder the message is in.
LEMMA MineSends ==
  ASSUME Inv, NEW p \in Pollers, Mine(p), NamesStay, UNCHANGED mailVars, NEW rows,
         scan[p].pc # "idle", SendMove(p, rows), Sender(p) # NoSender => Current(p) \in applied'
  PROVE  Mine(p)'
<1>1. /\ scan'[p].batch = scan[p].batch /\ scan'[p].todo = scan[p].todo
      /\ scan'[p].gen = scan[p].gen /\ scan'[p].pc = "moving" /\ scan'[p].target = gen
  BY DEF SendMove, Inv, TypeOK, Scans
<1>2. Current(p)' = Current(p) /\ Sender(p)' = Sender(p)
  BY <1>1, CurrentKept DEF mailVars
<1>3. Box(p)' = Box(p)
  BY <1>1 DEF Box, Action
<1> QED
  BY <1>1, <1>2, <1>3 DEF Mine, NamesStay, At, mailVars

\* How the scan of p changes in each way, with its batch.
LEMMA BatchMoves ==
  ASSUME Inv, NEW p \in Pollers
  PROVE  /\ NextFolder(p) => scan'[p].batch = {}
         /\ Begin(p) => scan'[p] = scan[p] \/ scan'[p].batch = {}
         /\ \A pc : Goto(p, pc) => /\ scan'[p].batch = scan[p].batch
                                  /\ scan'[p].todo = scan[p].todo /\ scan'[p].gen = scan[p].gen
                                  /\ scan'[p].target = scan[p].target
         /\ Returns(p) => /\ scan'[p].batch \subseteq scan[p].batch
                          /\ scan'[p].todo = scan[p].todo /\ scan'[p].gen = scan[p].gen
         /\ \A rows : ReadyToAdd(p, rows) =>
              /\ scan'[p].batch = scan[p].batch /\ scan'[p].pc = "adding"
              /\ scan'[p].todo = scan[p].todo /\ scan'[p].gen = scan[p].gen
<1>1. scan \in [Pollers -> Scans] /\ scan[p] \in Scans
  BY DEF Inv, TypeOK
<1>2. NextFolder(p) => scan'[p].batch = {}
  BY <1>1 DEF NextFolder, NoScan, ScanOf
<1>3. Begin(p) => scan'[p] = scan[p] \/ scan'[p].batch = {}
  BY <1>1 DEF Begin, ScanOf
<1>4. ASSUME NEW pc, Goto(p, pc)
      PROVE  /\ scan'[p].batch = scan[p].batch
             /\ scan'[p].todo = scan[p].todo /\ scan'[p].gen = scan[p].gen
             /\ scan'[p].target = scan[p].target
  BY <1>1, <1>4 DEF Goto, Scans
<1>5. ASSUME Returns(p)
      PROVE  /\ scan'[p].batch \subseteq scan[p].batch
             /\ scan'[p].todo = scan[p].todo /\ scan'[p].gen = scan[p].gen
  BY <1>1, <1>5 DEF Returns, Scans
<1>6. ASSUME NEW rows, ReadyToAdd(p, rows)
      PROVE  /\ scan'[p].batch = scan[p].batch /\ scan'[p].pc = "adding"
             /\ scan'[p].todo = scan[p].todo /\ scan'[p].gen = scan[p].gen
  BY <1>1, <1>6 DEF ReadyToAdd, Scans
<1> QED
  BY <1>2, <1>3, <1>4, <1>5, <1>6

\* The uids hold a step that gives none.
LEMMA UidStays ==
  ASSUME Inv, UidInv, UNCHANGED << box, uid >>,
         \A m \in Messages : place'[m] = "unseen" <=> place[m] = "unseen"
  PROVE  UidInv'
<1>1. \A b : Dropped(b)' = Dropped(b)
  BY DEF Dropped
<1> QED
  BY <1>1 DEF UidInv

\* A message that is dropped gets the next uid of its folder.
LEMMA UidDrop ==
  ASSUME Inv, UidInv, NEW m \in Messages, Drop(m)
  PROVE  UidInv'
<1>1. /\ place[m] = "unseen" /\ place' = [place EXCEPT ![m] = "folder"]
      /\ uid' = [uid EXCEPT ![m] =
                   Cardinality({n \in Messages : place'[n] # "unseen" /\ box[n] = box[m]})]
      /\ box' = box
  BY DEF Drop
<1> DEFINE D(b) == {n \in Messages : place[n] # "unseen" /\ box[n] = b}
           E(b) == {n \in Messages : place'[n] # "unseen" /\ box[n] = b}
<1>2. /\ \A n \in Messages : place'[n] # "unseen" <=> place[n] # "unseen" \/ n = m
      /\ uid \in [Messages -> Nat]
  BY <1>1 DEF Inv, TypeOK
<1>3. E(box[m]) = D(box[m]) \cup {m} /\ \A b : b # box[m] => E(b) = D(b)
  BY <1>2
<1>4. \A b : IsFiniteSet(D(b)) /\ Cardinality(D(b)) \in Nat
  <2> TAKE b
  <2>1. D(b) \subseteq Messages
    OBVIOUS
  <2> HIDE DEF D
  <2> QED
    BY <2>1, MessageAssumption, FS_Subset, FS_CardinalityType
<1>5. Cardinality(E(box[m])) = Cardinality(D(box[m])) + 1
  <2>1. m \notin D(box[m])
    BY <1>1
  <2> HIDE DEF D, E
  <2> QED
    BY <1>3, <1>4, <2>1, FS_AddElement
<1>6. /\ uid'[m] = Cardinality(D(box[m])) + 1
      /\ \A n \in Messages : n # m => uid'[n] = uid[n]
  <2>1. uid' = [uid EXCEPT ![m] = Cardinality(E(box[m]))]
    BY <1>1
  <2> HIDE DEF D, E
  <2> QED
    BY <1>2, <1>5, <2>1
<1>7. \A n \in Messages : place[n] # "unseen" =>
        /\ uid[n] <= Cardinality(D(box[n]))
        /\ \A k \in Messages : place[k] # "unseen" /\ box[k] = box[n] /\ uid[k] = uid[n] => k = n
  BY DEF UidInv, Dropped
<1>8. \A b : Dropped(b)' = E(b)
  BY <1>1 DEF Dropped
<1> HIDE DEF D, E
<1>9. \A n \in Messages : place'[n] # "unseen" =>
        /\ uid'[n] <= Cardinality(E(box[n]))
        /\ \A k \in Messages : place'[k] # "unseen" /\ box[k] = box[n] /\ uid'[k] = uid'[n] => k = n
  <2> TAKE n \in Messages
  <2> HAVE place'[n] # "unseen"
  <2>1. uid'[n] <= Cardinality(E(box[n]))
    <3>1. CASE n = m
      BY <1>4, <1>5, <1>6, <3>1
    <3>2. CASE n # m /\ box[n] = box[m]
      BY <1>2, <1>4, <1>5, <1>6, <1>7, <3>2
    <3>3. CASE box[n] # box[m]
      BY <1>2, <1>3, <1>6, <1>7, <3>3
    <3> QED
      BY <3>1, <3>2, <3>3
  <2>2. ASSUME NEW k \in Messages, place'[k] # "unseen", box[k] = box[n], uid'[k] = uid'[n]
        PROVE  k = n
    BY <1>2, <1>4, <1>6, <1>7, <2>2
  <2> QED
    BY <2>1, <2>2
<1> QED
  BY <1>1, <1>8, <1>9 DEF UidInv

\* The server moves the message at hand, or nothing.
LEMMA MovesKeeps ==
  ASSUME Inv, MoveInv, NEW p \in Pollers, Moves(p)
  PROVE  MoveInv'
<1> DEFINE c == Current(p)
           pc == IF Addressed(p) = {} THEN "missed" ELSE "moved"
<1>1. /\ scan[p].pc = "moving" /\ scan[p].batch # {} /\ scan[p].target = scan[p].gen
      /\ c \in scan[p].batch /\ c \in Messages /\ box[c] = Box(p) /\ place[c] # "unseen"
      /\ Sender(p) # NoSender => c \in applied
      /\ Action(p) \in Actions
  BY CurrentInBatch, AtHand DEF Moves, At, Inv, ScanInv, ScanOK, MoveInv, Mine
<1>2. /\ UNCHANGED << box, uid, from, applied, logged >>
      /\ Goto(p, pc)
      /\ \A q \in Pollers \ {p} : scan'[q] = scan[q]
      /\ scan'[p].pc = pc /\ pc \in {"moved", "missed"} /\ scan'[p].batch = scan[p].batch
      /\ scan'[p].todo = scan[p].todo /\ scan'[p].gen = scan[p].gen
      /\ scan'[p].target = scan[p].target
  BY ScanMoves, BatchMoves DEF Moves, ruleVars
<1>3. \A m \in Addressed(p) : m = c
  <2> SUFFICES ASSUME NEW m \in Addressed(p) PROVE m = c
    OBVIOUS
  <2>1. m \in Messages /\ place[m] = "folder" /\ box[m] = Box(p) /\ uid[m] = uid[c]
    BY <1>1 DEF Addressed, InBox, Box
  <2> QED
    BY <1>1, <2>1 DEF MoveInv, UidInv
<1>4. place[c] = "folder" => c \in Addressed(p)
  BY <1>1 DEF Addressed, InBox, Box
<1>5. /\ \A m \in Messages : m # c => place'[m] = place[m]
      /\ place[c] = "folder" => place'[c] \in {"inbox", "trash"}
      /\ place[c] # "folder" => place'[c] = place[c]
  <2>1. \A m \in Messages : place'[m] =
          IF m \notin Addressed(p) THEN place[m]
          ELSE IF Sender(p) = NoSender THEN "inbox" ELSE Destination(Action(p))
    BY DEF Moves
  <2>2. c \in Addressed(p) => place[c] = "folder"
    BY DEF Addressed, InBox
  <2>3. Destination(Action(p)) \in {"inbox", "trash"}
    BY DEF Destination
  <2> HIDE DEF c
  <2> QED
    BY <1>1, <1>3, <1>4, <2>1, <2>2, <2>3
<1>6. UidInv'
  BY <1>1, <1>2, <1>5, UidStays DEF MoveInv
<1>7. ASSUME NEW q \in Pollers PROVE Mine(q)'
  <2>1. CASE q = p
    <3>1. Current(p)' = c /\ Sender(p)' = Sender(p)
      BY <1>2, CurrentKept
    <3>2. Box(p)' = Box(p)
      BY <1>2 DEF Box, Action
    <3>3. place'[c] # "folder"
      BY <1>5
    <3> HIDE DEF c
    <3> QED
      BY <1>1, <1>2, <2>1, <3>1, <3>2, <3>3 DEF MoveInv, Mine
  <2>2. CASE q # p
    <3>1. \A m \in Messages : place[m] # "unseen" =>
            uid'[m] = uid[m] /\ (place[m] # "folder" => place'[m] # "folder")
      BY <1>2, <1>5
    <3> QED
      BY <1>2, <2>2, <3>1, MineStays DEF MoveInv
  <2> QED
    BY <2>1, <2>2
<1>8. NothingMovedUnread' /\ LoggedInv'
  <2>1. Sender(p) = from[c]
    BY DEF Sender
  <2> HIDE DEF c
  <2> QED
    BY <1>1, <1>2, <1>5, <2>1 DEF MoveInv, NothingMovedUnread, LoggedInv
<1> QED
  BY <1>6, <1>7, <1>8 DEF MoveInv

\* A step that moves no message, with the scans taken apart.
LEMMA NoMoveKeeps ==
  ASSUME Inv, MoveInv, UNCHANGED mailVars, applied \subseteq applied',
         \A p \in Pollers : Mine(p)', LoggedInv'
  PROVE  MoveInv'
<1>1. UidInv'
  BY UidStays DEF MoveInv, mailVars
<1>2. NothingMovedUnread'
  BY DEF MoveInv, NothingMovedUnread, mailVars
<1> QED
  BY <1>1, <1>2 DEF MoveInv

\* And those of them that are a step of p.
LEMMA ScanKeeps ==
  ASSUME Inv, MoveInv, NEW p \in Pollers, UNCHANGED << mailVars, logged >>,
         applied \subseteq applied', \A q \in Pollers \ {p} : scan'[q] = scan[q], Mine(p)'
  PROVE  MoveInv'
<1>1. ASSUME NEW q \in Pollers PROVE Mine(q)'
  <2>1. CASE q # p
    BY <2>1, MineStays DEF MoveInv, mailVars
  <2> QED
    BY <2>1
<1>2. LoggedInv'
  BY DEF MoveInv, LoggedInv, mailVars
<1> QED
  BY <1>1, <1>2, NoMoveKeeps

\* A call that ends, with rows about the message at hand.
LEMMA LoggedKeeps ==
  ASSUME Inv, LoggedInv, NEW p \in Pollers, NEW success \in BOOLEAN, LogRows(p, success),
         UNCHANGED place, Current(p) \in Messages,
         success => place[Current(p)] \notin {"unseen", "folder"}
  PROVE  LoggedInv'
<1> SUFFICES ASSUME NEW m \in Messages, << m, TRUE >> \in logged'
             PROVE  place[m] \notin {"unseen", "folder"}
  BY DEF LoggedInv
<1>1. CASE << m, TRUE >> \in logged
  BY <1>1 DEF LoggedInv
<1>2. CASE << m, TRUE >> = << Current(p), success >>
  BY <1>2
<1> QED
  BY <1>1, <1>2 DEF LogRows

\* Every step, as long as the names stay.
LEMMA MoveStep ==
  ASSUME Inv, MoveInv, NamesStay, [Next]_vars
  PROVE  MoveInv'
<1>1. ASSUME NEW m \in Messages, Drop(m)
      PROVE  MoveInv'
  <2>1. /\ UNCHANGED << box, from, applied, logged, scan >> /\ place[m] = "unseen"
        /\ \A n \in Messages : n # m => uid'[n] = uid[n] /\ place'[n] = place[n]
        /\ place'[m] = "folder"
    BY <1>1 DEF Drop, ruleVars, Inv, TypeOK
  <2>2. \A p \in Pollers : Mine(p)'
    BY <2>1, MineStays DEF MoveInv
  <2>3. NothingMovedUnread' /\ LoggedInv'
    BY <2>1 DEF MoveInv, NothingMovedUnread, LoggedInv
  <2> QED
    BY <1>1, <2>2, <2>3, UidDrop DEF MoveInv
<1>2. ASSUME NEW m \in Messages, TakeBack(m)
      PROVE  MoveInv'
  <2>1. /\ UNCHANGED << box, uid, from, applied, logged, scan >> /\ place[m] = "folder"
        /\ \A n \in Messages : n # m => place'[n] = place[n]
        /\ place'[m] = "user"
    BY <1>2 DEF TakeBack, ruleVars, Inv, TypeOK
  <2>2. \A p \in Pollers : Mine(p)'
    <3>1. \A n \in Messages : place[n] # "unseen" =>
            uid'[n] = uid[n] /\ (place[n] # "folder" => place'[n] # "folder")
      BY <2>1
    <3> QED
      BY <2>1, <3>1, MineStays DEF MoveInv
  <2>3. NothingMovedUnread' /\ LoggedInv'
    BY <2>1 DEF MoveInv, NothingMovedUnread, LoggedInv
  <2> QED
    BY <2>1, <2>2, <2>3, UidStays DEF MoveInv
<1>3. CASE UNCHANGED << mailVars, applied, scan, logged >>
  <2>1. \A p \in Pollers : Mine(p)'
    BY <1>3, MineStays DEF MoveInv, mailVars
  <2> QED
    BY <1>3, <2>1, NoMoveKeeps DEF MoveInv, LoggedInv, mailVars
<1>4. CASE (\E s \in Senders, k \in RuleActions : WebEdit(s, k)) \/ PutConfig \/ FirstStart
           \/ EnsureFails \/ \E p \in Pollers : Rebuilt(p)
  BY <1>3, <1>4 DEF WebEdit, PutConfig, FirstStart, EnsureFails, Rebuilt, ruleVars
<1>5. CASE UNCHANGED vars
  BY <1>3, <1>5 DEF vars, ruleVars
<1>6. ASSUME NEW p \in Pollers, FirstScan(p) \/ Tick(p)
      PROVE  MoveInv'
  <2>1. UNCHANGED << mailVars, applied, logged >> /\ Begin(p)
    BY <1>6 DEF FirstScan, Tick, ruleVars
  <2>2. \A q \in Pollers \ {p} : scan'[q] = scan[q]
    BY <2>1, ScanMoves
  <2>3. Mine(p)'
    <3>1. CASE scan'[p] = scan[p]
      BY <2>1, <3>1, MineStays DEF MoveInv, mailVars
    <3>2. CASE scan'[p].batch = {}
      <4>1. scan'[p].pc \in {"idle", "status"}
        BY <1>6, <2>1, ScanMoves DEF FirstScan, Tick, Unused, At
      <4> QED
        BY <2>1, <3>2, <4>1, MineGoesOn DEF MoveInv, mailVars
    <3> QED
      BY <2>1, <3>1, <3>2, BatchMoves
  <2> QED
    BY <2>1, <2>2, <2>3, ScanKeeps
<1>7. ASSUME NEW p \in Pollers, NextFolder(p), UNCHANGED << mailVars, logged >>,
             applied \subseteq applied'
      PROVE  MoveInv'
  <2>1. /\ \A q \in Pollers \ {p} : scan'[q] = scan[q]
        /\ scan'[p].batch = {} /\ scan'[p].pc \in {"status", "idle"}
    BY <1>7, ScanMoves, BatchMoves
  <2>2. Mine(p)'
    BY <1>7, <2>1, MineGoesOn DEF MoveInv, mailVars
  <2> QED
    BY <1>7, <2>1, <2>2, ScanKeeps
<1>8. ASSUME NEW p \in Pollers, NEW pc \in {"fetching", "recheck", "final"}, Goto(p, pc),
             UNCHANGED << mailVars, logged, applied >>
      PROVE  MoveInv'
  <2>1. /\ \A q \in Pollers \ {p} : scan'[q] = scan[q]
        /\ scan'[p].batch = scan[p].batch /\ scan'[p].pc = pc
        /\ scan'[p].todo = scan[p].todo /\ scan'[p].gen = scan[p].gen
    BY <1>8, ScanMoves, BatchMoves
  <2>2. Mine(p)'
    BY <1>8, <2>1, MineGoesOn DEF MoveInv, mailVars
  <2> QED
    BY <1>8, <2>1, <2>2, ScanKeeps
<1>9. ASSUME NEW p \in Pollers, StatusAnswered(p) \/ PassDone(p) \/ FinalChecked(p) \/ ScanFails(p)
      PROVE  MoveInv'
  <2>1. UNCHANGED << mailVars, logged, applied >>
    BY <1>9 DEF StatusAnswered, PassDone, FinalChecked, ScanFails, ruleVars
  <2>2. NextFolder(p) \/ \E pc \in {"fetching", "recheck", "final"} : Goto(p, pc)
    BY <1>9 DEF StatusAnswered, PassDone, FinalChecked, ScanFails
  <2> QED
    BY <1>7, <1>8, <2>1, <2>2
<1>10. ASSUME NEW p \in Pollers, FetchAnswered(p)
       PROVE  MoveInv'
  <2>1. UNCHANGED << mailVars, logged, applied >>
    BY <1>10 DEF FetchAnswered, ruleVars
  <2>2. CASE scan' = [scan EXCEPT ![p].pc = "next", ![p].batch = InBox(Box(p))]
    <3>1. /\ \A q \in Pollers \ {p} : scan'[q] = scan[q]
          /\ scan'[p].batch = InBox(Box(p)) /\ scan'[p].pc = "next"
          /\ scan'[p].todo = scan[p].todo /\ scan'[p].gen = scan[p].gen
      BY <2>2 DEF Inv, TypeOK, Scans
    <3>2. Box(p)' = Box(p)
      BY <3>1 DEF Box, Action
    <3>3. Mine(p)'
      BY <2>1, <3>1, <3>2 DEF Mine, InBox, mailVars
    <3> QED
      BY <2>1, <3>1, <3>3, ScanKeeps
  <2> QED
    BY <1>7, <1>10, <2>1, <2>2 DEF FetchAnswered
<1>11. ASSUME NEW p \in Pollers, Rechecked(p)
       PROVE  MoveInv'
  <2>1. UNCHANGED << mailVars, logged, applied >>
    BY <1>11 DEF Rechecked, ruleVars
  <2>2. CASE scan' = [scan EXCEPT ![p].pc = "fetching", ![p].pass = 2]
    <3>1. /\ \A q \in Pollers \ {p} : scan'[q] = scan[q]
          /\ scan'[p].batch = scan[p].batch /\ scan'[p].pc = "fetching"
          /\ scan'[p].todo = scan[p].todo /\ scan'[p].gen = scan[p].gen
      BY <2>2 DEF Inv, TypeOK, Scans
    <3>2. Mine(p)'
      BY <2>1, <3>1, MineGoesOn DEF MoveInv, mailVars
    <3> QED
      BY <2>1, <3>1, <3>2, ScanKeeps
  <2> QED
    BY <1>7, <1>11, <2>1, <2>2 DEF Rechecked
<1>12. ASSUME NEW p \in Pollers, NEW rows \in BOOLEAN, scan[p].pc # "idle",
              UNCHANGED << mailVars, logged >>, SendMove(p, rows),
              applied \subseteq applied', Sender(p) # NoSender => Current(p) \in applied'
       PROVE  MoveInv'
  <2>1. \A q \in Pollers \ {p} : scan'[q] = scan[q]
    BY <1>12, ScanMoves
  <2>2. Mine(p)'
    BY <1>12, MineSends DEF MoveInv
  <2> QED
    BY <1>12, <2>1, <2>2, ScanKeeps
<1>13. ASSUME NEW p \in Pollers, TakeUnparseable(p)
       PROVE  MoveInv'
  BY <1>12, <1>13 DEF TakeUnparseable, TakesOne, At, ruleVars
<1>14. ASSUME NEW p \in Pollers, NEW rows \in BOOLEAN, ReadyToAdd(p, rows),
              UNCHANGED << mailVars, logged >>
       PROVE  MoveInv'
  <2>1. UNCHANGED applied /\ \A q \in Pollers \ {p} : scan'[q] = scan[q]
    BY <1>14 DEF ReadyToAdd, Inv, TypeOK
  <2>2. Mine(p)'
    BY <1>14, BatchMoves, MineGoesOn DEF MoveInv, mailVars
  <2> QED
    BY <1>14, <2>1, <2>2, ScanKeeps
<1>15. ASSUME NEW p \in Pollers, TakeCreate(p)
       PROVE  MoveInv'
  <2>1. UNCHANGED << mailVars, logged >>
    BY <1>15 DEF TakeCreate
  <2>2. (\E rows \in BOOLEAN : ReadyToAdd(p, rows)) \/ (NextFolder(p) /\ UNCHANGED applied)
    BY <1>15 DEF TakeCreate, Save
  <2> QED
    BY <1>7, <1>14, <2>1, <2>2
<1>16. ASSUME NEW p \in Pollers, Add(p) \/ TakeRemove(p)
       PROVE  MoveInv'
  <2>1. UNCHANGED << mailVars, logged >> /\ scan[p].pc # "idle"
    BY <1>16 DEF Add, TakeRemove, TakesOne, At
  <2>2. (\E rows \in BOOLEAN : Done(p, rows)) \/ (NextFolder(p) /\ UNCHANGED applied)
    BY <1>16 DEF Add, TakeRemove, Save
  <2> QED
    BY <1>7, <1>12, <2>1, <2>2 DEF Done
<1>17. ASSUME NEW p \in Pollers, MoveAnswered(p) \/ MoveMissed(p) \/ MoveFails(p)
       PROVE  MoveInv'
  <2>1. /\ UNCHANGED << mailVars, applied >> /\ scan[p].pc \in {"moving", "moved", "missed"}
        /\ NextFolder(p) \/ Returns(p)
    BY <1>17 DEF MoveAnswered, MoveMissed, MoveFails, Unmoved, ruleVars, At
  <2>2. Current(p) \in Messages /\ Current(p) \in scan[p].batch
    BY <2>1, CurrentInBatch DEF Inv, ScanInv, ScanOK
  <2>3. LoggedInv'
    <3>1. CASE MoveAnswered(p)
      <4>1. place[Current(p)] \notin {"unseen", "folder"}
        BY <2>2, <3>1 DEF MoveAnswered, At, Inv, ScanInv, MoveInv, Mine
      <4> QED
        BY <2>1, <2>2, <3>1, <4>1, LoggedKeeps DEF MoveAnswered, MoveInv, mailVars
    <3>2. CASE MoveMissed(p) \/ MoveFails(p)
      BY <2>1, <2>2, <3>2, LoggedKeeps DEF MoveMissed, MoveFails, Unmoved, MoveInv, mailVars
    <3> QED
      BY <1>17, <3>1, <3>2
  <2>4. /\ \A q \in Pollers \ {p} : scan'[q] = scan[q]
        /\ scan'[p].pc \notin {"moving", "moved"}
        /\ \/ scan'[p].batch = {}
           \/ /\ scan'[p].batch \subseteq scan[p].batch
              /\ scan'[p].todo = scan[p].todo /\ scan'[p].gen = scan[p].gen
    BY <2>1, ScanMoves, BatchMoves
  <2>5. Mine(p)'
    BY <2>1, <2>4, MineGoesOn DEF MoveInv, mailVars
  <2>6. \A q \in Pollers : Mine(q)'
    BY <2>1, <2>4, <2>5, MineStays DEF MoveInv, mailVars
  <2> QED
    BY <2>1, <2>3, <2>6, NoMoveKeeps
<1>18. CASE Crash \/ StartFails
  <2>1. /\ UNCHANGED << mailVars, applied, logged >>
        /\ \A p \in Pollers : scan'[p].batch = {} /\ scan'[p].pc = "idle"
    BY <1>18 DEF Crash, StartFails, Restarts, NoScan, ScanOf
  <2>2. \A p \in Pollers : Mine(p)'
    BY <2>1, MineGoesOn DEF MoveInv, mailVars
  <2> QED
    BY <2>1, <2>2, NoMoveKeeps DEF MoveInv, LoggedInv, mailVars
<1> QED
  BY <1>1, <1>2, <1>4, <1>5, <1>6, <1>9, <1>10, <1>11, <1>13, <1>15, <1>16, <1>17, <1>18, MovesKeeps
  DEF Next, Answered, Processes

\* Nothing is dropped, in hand or logged to begin with.
LEMMA InitMove == Init => MoveInv
BY DEF Init, MoveInv, UidInv, Mine, NothingMovedUnread, LoggedInv, NoScan, ScanOf

\* With one name for each folder there is nothing that could change.
LEMMA OneNameStays == Inv /\ MaxGen = 1 => NamesStay
BY DEF Inv, TypeOK, Scans, NamesStay

\* While no scan is in progress when the names of the folders change, MoveInv is
\* kept.
LEMMA MoveInvAlways == Spec /\ []NamesStay => []MoveInv
<1>1. Inv /\ MoveInv /\ NamesStay /\ [Next]_vars => MoveInv'
  BY MoveStep
<1> QED
  BY InitInv, StepInv, InitMove, <1>1, PTL DEF Spec

\* A message leaves its action folder for INBOX or the trash only after it has
\* had its effect on the rules, for any overlap of scans, lost answers and
\* restarts, and whatever the user takes back, as long as no scan is in progress
\* when the names of the folders change.
THEOREM NothingIsMovedUnread == Spec /\ []NamesStay => []NothingMovedUnread
<1>1. MoveInv => NothingMovedUnread
  BY DEF MoveInv
<1> QED
  BY MoveInvAlways, <1>1, PTL

\* A row of success in the log is true, under the same condition: the message it
\* names has left the folder it was in.
THEOREM SuccessIsAlwaysTrue == Spec /\ []NamesStay => []SuccessIsTrue
<1>1. MoveInv => SuccessIsTrue
  BY DEF MoveInv, LoggedInv, SuccessIsTrue
<1> QED
  BY MoveInvAlways, <1>1, PTL

\* Both hold without a condition where the user never renames a folder.
THEOREM MovesAreRight ==
  ASSUME MaxGen = 1
  PROVE  Spec => [](NothingMovedUnread /\ SuccessIsTrue)
<1>1. Inv => NamesStay
  BY OneNameStays
<1> QED
  BY InitInv, StepInv, NothingIsMovedUnread, SuccessIsAlwaysTrue, <1>1, PTL DEF Spec
=============================================================================
