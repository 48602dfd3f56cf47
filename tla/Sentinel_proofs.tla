-------------------------- MODULE Sentinel_proofs --------------------------
(***************************************************************************)
(* Proofs about Sentinel, for any mailboxes, references, calls and healers *)
(* and any number of edits, moves, faults and sentinels: the types, that   *)
(* an untouched sentinel is left alone, and that every folder in use is    *)
(* guarded.                                                                *)
(***************************************************************************)
EXTENDS Sentinel, TLAPS

ScanStates == [pc : {"idle", "fast", "list", "deep"}, todo : SUBSET Pairs,
               cur : SUBSET Pairs, list : SUBSET (Paths \cup {INBOX}),
               left : SUBSET Paths, found : SUBSET Results]
HealStates == [pc : {"idle", "next", "list", "replant", "notify"},
               todo : SUBSET Results, cur : SUBSET Results,
               list : SUBSET (Paths \cup {INBOX})]

CallTypes ==
  /\ plant \in [Calls -> SUBSET Paths]
  /\ drop \in [Calls -> SUBSET Pairs]
  /\ deleting \in [Calls -> SUBSET Pairs]
  /\ loose \subseteq Paths /\ misnamed \subseteq Paths

-----------------------------------------------------------------------------
(* Type correctness.                                                       *)

LEMMA MishapType ==
  ASSUME TypeOK, Mishap
  PROVE  faults' \in 0 .. MaxFaults
  BY BoundAssumption DEF TypeOK, Mishap

LEMMA ActType ==
  ASSUME TypeOK, Act
  PROVE  acts' \in 0 .. MaxActs
  BY BoundAssumption DEF TypeOK, Act

LEMMA AppendType ==
  ASSUME TypeOK, NEW f \in Paths, Append(f)
  PROVE  /\ place' \in [Ids -> Paths \cup {INBOX, NoFolder, Gone}]
         /\ row' \in [Ids -> Paths \cup {NoFolder}]
         /\ loose' \subseteq Paths /\ touched' \subseteq Ids /\ UNCHANGED misnamed
         /\ faults' \in 0 .. MaxFaults
  BY MishapType DEF TypeOK, Append, historyVars

\* What a reconciliation starts from is typed.
LEMMA ReconcileType ==
  ASSUME TypeOK, NEW r \in Calls, Reconcile(r), ref' \in [Refs -> Paths], on' \subseteq Refs
  PROVE  CallTypes'
  <1>1. Tracked' \subseteq Paths
    BY DEF Tracked
  <1>2. \A i \in Rows : Row(i) \in Pairs
    BY DEF Rows, Row, Pairs, TypeOK
  <1> QED
    BY <1>1, <1>2 DEF Reconcile, CallTypes, TypeOK

LEMMA ScanOnType ==
  ASSUME TypeOK, NEW todo \in SUBSET Pairs, NEW list \in SUBSET (Paths \cup {INBOX}),
         NEW found \in SUBSET Results, ScanOn(todo, list, found)
  PROVE  scan' \in ScanStates /\ heal' \in [Healers -> HealStates]
  <1>0. NoScan \in ScanStates
    BY DEF NoScan, ScanStates
  <1>1. scan' \in ScanStates
    BY <1>0 DEF ScanOn, ScanStates
  <1>2. heal \in [Healers -> HealStates]
    BY DEF TypeOK, HealStates
  <1>3. [NoHeal EXCEPT !.pc = "next", !.todo = found] \in HealStates
    BY DEF NoHeal, HealStates
  <1>4. heal' \in [Healers -> HealStates]
    BY <1>2, <1>3 DEF ScanOn
  <1> QED
    BY <1>1, <1>4

LEMMA DeepOnType ==
  ASSUME TypeOK, NEW s \in Pairs, NEW todo \in SUBSET Pairs,
         NEW list \in SUBSET (Paths \cup {INBOX}), NEW left \in SUBSET Paths,
         NEW found \in SUBSET Results, DeepOn(s, todo, list, left, found)
  PROVE  scan' \in ScanStates /\ heal' \in [Healers -> HealStates]
  <1>1. [id |-> s[1], from |-> s[2], to |-> NoFolder] \in Results
    BY DEF Pairs, Results
  <1>2. CASE left = {}
    BY <1>1, <1>2, ScanOnType DEF DeepOn
  <1>3. CASE left # {}
    BY <1>3 DEF DeepOn, TypeOK, ScanStates, HealStates
  <1> QED
    BY <1>2, <1>3

LEMMA ScanStepType ==
  ASSUME TypeOK, ScanStep
  PROVE  TypeOK'
  <1>1. scan \in ScanStates
    BY DEF TypeOK, ScanStates
  <1>2. CASE ScanStart
    <2>1. {Row(i) : i \in Rows} \in SUBSET Pairs
      BY DEF Rows, Row, Pairs, TypeOK
    <2>2. scan' \in ScanStates /\ heal' \in [Healers -> HealStates]
      BY <1>2, <2>1, ScanOnType DEF ScanStart
    <2> QED
      BY <1>2, <2>2 DEF ScanStart, TypeOK, scanFrame, serverVars, configVars, bootVars,
         recVars, historyVars, ScanStates, HealStates
  <1>3. ASSUME NEW s \in scan.todo, FastAnswered(s) PROVE TypeOK'
    <2>1. s \in Pairs /\ scan.todo \ {s} \in SUBSET Pairs
      BY <1>1, <1>3 DEF ScanStates
    <2>2. scan.list \in SUBSET (Paths \cup {INBOX}) /\ scan.found \in SUBSET Results
          /\ scan.list \ {INBOX, s[2]} \in SUBSET Paths
      BY <1>1 DEF ScanStates
    <2>3. scan' \in ScanStates /\ heal' \in [Healers -> HealStates]
      <3>1. CASE ScanOn(scan.todo \ {s}, scan.list, scan.found)
        BY <2>1, <2>2, <3>1, ScanOnType
      <3>2. CASE DeepOn(s, scan.todo \ {s}, scan.list, scan.list \ {INBOX, s[2]}, scan.found)
        BY <2>1, <2>2, <3>2, DeepOnType
      <3>3. CASE /\ scan' = [scan EXCEPT !.pc = "list", !.todo = scan.todo \ {s}, !.cur = {s}]
                 /\ UNCHANGED heal
        BY <1>1, <2>1, <3>3 DEF ScanStates, TypeOK, HealStates
      <3>4. CASE scan' = NoScan /\ UNCHANGED heal
        BY <3>4 DEF NoScan, ScanStates, TypeOK, HealStates
      <3> QED
        BY <1>3, <3>1, <3>2, <3>3, <3>4 DEF FastAnswered, GoesDeep
    <2>4. faults' \in 0 .. MaxFaults
      BY <1>3, MishapType DEF FastAnswered, NotSeen, TypeOK
    <2>5. touched' \subseteq Ids
      BY <1>3, <2>1 DEF FastAnswered, NotSeen, Pairs, TypeOK
    <2> QED
      BY <1>3, <2>3, <2>4, <2>5 DEF FastAnswered, TypeOK, scanFrame, serverVars, configVars,
         bootVars, recVars, historyVars, ScanStates, HealStates
  <1>4. ASSUME NEW s \in scan.cur, ListAnswered(s) PROVE TypeOK'
    <2>1. s \in Pairs /\ scan.todo \in SUBSET Pairs /\ scan.found \in SUBSET Results
      BY <1>1, <1>4 DEF ScanStates
    <2>2. folders \cup {INBOX} \in SUBSET (Paths \cup {INBOX}) /\ folders \ {s[2]} \in SUBSET Paths
      BY DEF TypeOK
    <2>3. scan' \in ScanStates /\ heal' \in [Healers -> HealStates]
      <3>1. CASE DeepOn(s, scan.todo, folders \cup {INBOX}, folders \ {s[2]}, scan.found)
        BY <2>1, <2>2, <3>1, DeepOnType
      <3>2. CASE scan' = NoScan /\ UNCHANGED heal
        BY <3>2 DEF NoScan, ScanStates, TypeOK, HealStates
      <3> QED
        BY <1>4, <3>1, <3>2 DEF ListAnswered
    <2>4. faults' \in 0 .. MaxFaults
      BY <1>4, MishapType DEF ListAnswered, TypeOK
    <2> QED
      BY <1>4, <2>3, <2>4 DEF ListAnswered, TypeOK, scanFrame, serverVars, configVars,
         bootVars, recVars, historyVars, ScanStates, HealStates
  <1>5. ASSUME NEW s \in scan.cur, NEW g \in scan.left, DeepAnswered(s, g) PROVE TypeOK'
    <2>1. /\ s \in Pairs /\ scan.todo \in SUBSET Pairs /\ scan.found \in SUBSET Results
          /\ scan.list \in SUBSET (Paths \cup {INBOX}) /\ scan.left \ {g} \in SUBSET Paths
          /\ g \in Paths
      BY <1>1, <1>5 DEF ScanStates
    <2>2. scan.found \cup {[id |-> s[1], from |-> s[2], to |-> g]} \in SUBSET Results
      BY <2>1 DEF Pairs, Results
    <2>3. scan' \in ScanStates /\ heal' \in [Healers -> HealStates]
      <3>1. CASE ScanOn(scan.todo, scan.list,
                        scan.found \cup {[id |-> s[1], from |-> s[2], to |-> g]})
        BY <2>1, <2>2, <3>1, ScanOnType
      <3>2. CASE DeepOn(s, scan.todo, scan.list, scan.left \ {g}, scan.found)
        BY <2>1, <3>2, DeepOnType
      <3> QED
        BY <1>5, <3>1, <3>2 DEF DeepAnswered
    <2>4. faults' \in 0 .. MaxFaults
      BY <1>5, MishapType DEF DeepAnswered, TypeOK
    <2> QED
      BY <1>5, <2>3, <2>4 DEF DeepAnswered, TypeOK, scanFrame, serverVars, configVars,
         bootVars, recVars, historyVars, ScanStates, HealStates
  <1> QED
    BY <1>2, <1>3, <1>4, <1>5 DEF ScanStep

LEMMA PathFacts ==
  /\ \A f \in Paths : f # NoFolder /\ f # Gone /\ f # INBOX
  /\ NoFolder # Gone
  BY FolderAssumption DEF Paths

\* The healer rewrites references, rules and rows with paths.
LEMMA RenameType ==
  ASSUME TypeOK, NEW x \in Results, x.to # NoFolder, Rename(x)
  PROVE  /\ ref' \in [Refs -> Paths] /\ on' \subseteq Refs
         /\ saved' \in [ref : [Refs -> Paths], on : SUBSET Refs]
         /\ row' \in [Ids -> Paths \cup {NoFolder}]
         /\ loose' \subseteq Paths /\ misnamed' \subseteq Paths
         /\ faults' \in 0 .. MaxFaults
  <1>1. x.to \in Paths /\ x.id \in Ids
    BY DEF Results
  <1>2. \A y \in Refs : NewPath(y, x.to) \in Paths
    BY <1>1 DEF NewPath, Paths
  <1>3. ref' \in [Refs -> Paths] /\ on' \subseteq Refs
    BY <1>2 DEF Rename, TypeOK
  <1>4. misnamed' \subseteq Paths
    BY <1>2 DEF Rename, Strays, Refs, TypeOK
  <1>5. loose' \subseteq Paths
    BY DEF Rename, TypeOK
  <1>6. saved' \in [ref : [Refs -> Paths], on : SUBSET Refs]
    BY <1>3 DEF Rename, TypeOK
  <1>7. row' \in [Ids -> Paths \cup {NoFolder}]
    BY <1>1 DEF Rename, TypeOK
  <1>8. faults' \in 0 .. MaxFaults
    BY MishapType DEF Rename, TypeOK
  <1> QED
    BY <1>3, <1>4, <1>5, <1>6, <1>7, <1>8

LEMMA HealOnType ==
  ASSUME TypeOK, NEW h \in Healers, NEW x,
         NEW list \in SUBSET (Paths \cup {INBOX}), NEW cur \in SUBSET Results,
         NEW p \in {"idle", "next", "list", "replant", "notify"},
         HealOn(h, x, p, cur, list)
  PROVE  heal' \in [Healers -> HealStates]
  BY DEF HealOn, TypeOK, HealStates

LEMMA NotFoundType ==
  ASSUME TypeOK, NEW h \in Healers, NEW x \in Results,
         NEW list \in SUBSET (Paths \cup {INBOX}), NotFound(h, x, list)
  PROVE  /\ on' \subseteq Refs
         /\ UNCHANGED ref => saved' \in [ref : [Refs -> Paths], on : SUBSET Refs]
         /\ row' \in [Ids -> Paths \cup {NoFolder}]
         /\ heal' \in [Healers -> HealStates]
         /\ loose' \subseteq Paths
         /\ faults' \in 0 .. MaxFaults
  <1>1. heal \in [Healers -> HealStates]
    BY DEF TypeOK, HealStates
  <1>2. on' \subseteq Refs
    BY DEF NotFound, TypeOK
  <1>3. UNCHANGED ref => saved' \in [ref : [Refs -> Paths], on : SUBSET Refs]
    BY <1>2 DEF NotFound, TypeOK
  <1>4. row' \in [Ids -> Paths \cup {NoFolder}]
    BY DEF NotFound, TypeOK
  <1>5. loose' \subseteq Paths
    BY DEF NotFound, TypeOK
  <1>6. faults' \in 0 .. MaxFaults
    BY MishapType DEF NotFound, TypeOK
  <1>7. heal' \in [Healers -> HealStates]
    BY HealOnType DEF NotFound
  <1> QED
    BY <1>2, <1>3, <1>4, <1>5, <1>6, <1>7

LEMMA HealStepType ==
  ASSUME TypeOK, NEW h \in Healers, HealStep(h)
  PROVE  TypeOK'
  <1>0. heal \in [Healers -> HealStates] /\ heal[h] \in HealStates
    BY DEF TypeOK, HealStates
  <1>1. /\ heal[h].todo \in SUBSET Results /\ heal[h].cur \in SUBSET Results
        /\ heal[h].list \in SUBSET (Paths \cup {INBOX})
    BY <1>0 DEF HealStates
  <1>2. CASE HealNext(h)
    <2>1. CASE /\ heal' = [heal EXCEPT ![h] = NoHeal]
               /\ UNCHANGED << row, configVars, loose, misnamed, faults >>
      <3>1. NoHeal \in HealStates
        BY DEF NoHeal, HealStates
      <3>2. heal' \in [Healers -> HealStates]
        BY <1>0, <2>1, <3>1
      <3> QED
        BY <1>2, <2>1, <3>2 DEF HealNext, healFrame, TypeOK, configVars, bootVars, recVars,
           HealStates
    <2>2. ASSUME NEW x \in heal[h].todo, x.to # NoFolder, Rename(x),
                 HealOn(h, x, "next", {}, heal[h].list)
          PROVE  TypeOK'
      <3>1. x \in Results
        BY <1>1, <2>2
      <3>2. heal' \in [Healers -> HealStates]
        BY <1>1, <2>2, HealOnType
      <3>3. /\ ref' \in [Refs -> Paths] /\ on' \subseteq Refs
            /\ saved' \in [ref : [Refs -> Paths], on : SUBSET Refs]
            /\ row' \in [Ids -> Paths \cup {NoFolder}]
            /\ loose' \subseteq Paths /\ misnamed' \subseteq Paths
            /\ faults' \in 0 .. MaxFaults
        BY <2>2, <3>1, RenameType
      <3> QED
        BY <1>2, <3>2, <3>3 DEF HealNext, healFrame, TypeOK, bootVars, recVars, HealStates
    <2>3. ASSUME NEW x \in heal[h].todo, HealOn(h, x, "list", {x}, {}),
                 UNCHANGED << row, configVars, loose, misnamed, faults >>
          PROVE  TypeOK'
      <3>1. {x} \in SUBSET Results
        BY <1>1, <2>3
      <3>2. heal' \in [Healers -> HealStates]
        BY <2>3, <3>1, HealOnType
      <3> QED
        BY <1>2, <2>3, <3>2 DEF HealNext, healFrame, TypeOK, configVars, bootVars, recVars,
           HealStates
    <2>4. ASSUME NEW x \in heal[h].todo, NotFound(h, x, heal[h].list),
                 UNCHANGED << ref, misnamed >>
          PROVE  TypeOK'
      <3>1. x \in Results
        BY <1>1, <2>4
      <3>2. /\ on' \subseteq Refs
            /\ saved' \in [ref : [Refs -> Paths], on : SUBSET Refs]
            /\ row' \in [Ids -> Paths \cup {NoFolder}]
            /\ heal' \in [Healers -> HealStates]
            /\ loose' \subseteq Paths
            /\ faults' \in 0 .. MaxFaults
        BY <1>1, <2>4, <3>1, NotFoundType
      <3> QED
        BY <1>2, <2>4, <3>2 DEF HealNext, healFrame, TypeOK, bootVars, recVars, HealStates
    <2> QED
      BY <1>2, <2>1, <2>2, <2>3, <2>4 DEF HealNext
  <1>3. ASSUME NEW x \in heal[h].cur, HealListed(h, x) PROVE TypeOK'
    <2>1. x \in Results /\ folders \cup {INBOX} \in SUBSET (Paths \cup {INBOX})
      BY <1>1, <1>3 DEF TypeOK
    <2>2. /\ on' \subseteq Refs
          /\ saved' \in [ref : [Refs -> Paths], on : SUBSET Refs]
          /\ row' \in [Ids -> Paths \cup {NoFolder}]
          /\ heal' \in [Healers -> HealStates]
          /\ loose' \subseteq Paths
          /\ faults' \in 0 .. MaxFaults
      <3>1. CASE NotFound(h, x, folders \cup {INBOX})
        BY <1>3, <2>1, <3>1, NotFoundType DEF HealListed
      <3>2. CASE /\ Mishap
                 /\ HealOn(h, x, "next", {}, {})
                 /\ UNCHANGED << row, on, saved, loose >>
        <4>1. heal' \in [Healers -> HealStates]
          BY <3>2, HealOnType
        <4> QED
          BY <3>2, <4>1, MishapType DEF TypeOK
      <3> QED
        BY <1>3, <3>1, <3>2 DEF HealListed
    <2> QED
      BY <1>3, <2>2 DEF HealListed, healFrame, TypeOK, bootVars, recVars, HealStates
  <1>4. ASSUME NEW x \in heal[h].cur, Replanted(h, x) PROVE TypeOK'
    <2>1. x.from \in Paths
      BY <1>1, <1>4 DEF Results
    <2>2. heal' \in [Healers -> HealStates]
      BY <1>1, <1>4, HealOnType DEF Replanted
    <2>3. /\ place' \in [Ids -> Paths \cup {INBOX, NoFolder, Gone}]
          /\ row' \in [Ids -> Paths \cup {NoFolder}]
          /\ loose' \subseteq Paths /\ touched' \subseteq Ids /\ UNCHANGED misnamed
          /\ faults' \in 0 .. MaxFaults
      BY <1>4, <2>1, AppendType DEF Replanted
    <2> QED
      BY <1>4, <2>2, <2>3 DEF Replanted, healFrame, TypeOK, configVars, bootVars, recVars,
         HealStates
  <1>5. ASSUME NEW x \in heal[h].cur, Notified(h, x) PROVE TypeOK'
    <2>1. heal' \in [Healers -> HealStates]
      BY <1>1, <1>5, HealOnType DEF Notified
    <2>2. row' \in [Ids -> Paths \cup {NoFolder}] /\ loose' \subseteq Paths
      BY <1>5 DEF Notified, TypeOK
    <2> QED
      BY <1>5, <2>1, <2>2 DEF Notified, healFrame, TypeOK, configVars, bootVars, recVars,
         HealStates
  <1> QED
    BY <1>2, <1>3, <1>4, <1>5 DEF HealStep

\* A step of a reconciliation takes from what it has to do.
LEMMA RecStepType ==
  ASSUME TypeOK, NEW r \in Calls, RecStep(r)
  PROVE  TypeOK'
  <1>1. ASSUME NEW f \in plant[r], Planted(r, f) PROVE TypeOK'
    <2>1. f \in Paths
      BY <1>1 DEF TypeOK
    <2>2. /\ place' \in [Ids -> Paths \cup {INBOX, NoFolder, Gone}]
          /\ row' \in [Ids -> Paths \cup {NoFolder}]
          /\ loose' \subseteq Paths /\ touched' \subseteq Ids /\ UNCHANGED misnamed
          /\ faults' \in 0 .. MaxFaults
      BY <1>1, <2>1, AppendType DEF Planted
    <2>3. plant' \in [Calls -> SUBSET Paths]
      BY <1>1 DEF Planted, TypeOK
    <2> QED
      BY <1>1, <2>2, <2>3 DEF Planted, TypeOK, configVars, bootVars
  <1>2. ASSUME NEW s \in drop[r], Searched(r, s) PROVE TypeOK'
    <2>1. s \in Pairs /\ s[1] \in Ids
      BY <1>2 DEF TypeOK, Pairs
    <2>2. drop' \in [Calls -> SUBSET Pairs] /\ deleting' \in [Calls -> SUBSET Pairs]
      BY <1>2, <2>1 DEF Searched, TypeOK
    <2>3. row' \in [Ids -> Paths \cup {NoFolder}]
      BY <1>2, <2>1 DEF Searched, TypeOK
    <2>4. faults' \in 0 .. MaxFaults
      BY <1>2, MishapType DEF Searched, NotSeen, TypeOK
    <2>5. touched' \subseteq Ids
      BY <1>2, <2>1 DEF Searched, NotSeen, TypeOK
    <2> QED
      BY <1>2, <2>2, <2>3, <2>4, <2>5 DEF Searched, TypeOK, serverVars, configVars, bootVars
  <1>3. ASSUME NEW s \in deleting[r], Deleted(r, s) PROVE TypeOK'
    <2>1. s \in Pairs /\ s[1] \in Ids
      BY <1>3 DEF TypeOK, Pairs
    <2>2. [place EXCEPT ![s[1]] = IF @ = s[2] THEN Gone ELSE @]
            \in [Ids -> Paths \cup {INBOX, NoFolder, Gone}]
      BY DEF TypeOK
    <2>3. place' \in [Ids -> Paths \cup {INBOX, NoFolder, Gone}]
      BY <1>3, <2>2 DEF Deleted, TypeOK
    <2>4. /\ row' \in [Ids -> Paths \cup {NoFolder}] /\ touched' \subseteq Ids
          /\ deleting' \in [Calls -> SUBSET Pairs]
      BY <1>3, <2>1 DEF Deleted, TypeOK
    <2>5. faults' \in 0 .. MaxFaults
      BY <1>3, MishapType DEF Deleted, TypeOK
    <2> QED
      BY <1>3, <2>3, <2>4, <2>5 DEF Deleted, TypeOK, configVars, bootVars
  <1> QED
    BY <1>1, <1>2, <1>3 DEF RecStep

\* What users do to folders and sentinels, and main()'s own steps.
LEMMA UserType ==
  ASSUME TypeOK,
         \/ \E i \in Ids : \E to \in Folders \cup {INBOX, Gone} : MoveSentinel(i, to)
         \/ \E f \in Folders : MakeFolder(f) \/ \E to \in Folders \cup {Gone} : RenameFolder(f, to)
  PROVE  TypeOK'
  <1>1. ASSUME NEW i \in Ids, NEW to \in Folders \cup {INBOX, Gone}, MoveSentinel(i, to)
        PROVE  TypeOK'
    <2>1. acts' \in 0 .. MaxActs
      BY <1>1, ActType DEF MoveSentinel
    <2>2. place' \in [Ids -> Paths \cup {INBOX, NoFolder, Gone}] /\ touched' \subseteq Ids
      BY <1>1 DEF MoveSentinel, TypeOK, Paths
    <2> QED
      BY <1>1, <2>1, <2>2 DEF MoveSentinel, TypeOK, configVars, bootVars, recVars
  <1>2. ASSUME NEW f \in Folders, MakeFolder(f) PROVE TypeOK'
    <2>1. acts' \in 0 .. MaxActs /\ folders' \subseteq Paths
      BY <1>2, ActType DEF MakeFolder, TypeOK, Paths
    <2> QED
      BY <1>2, <2>1 DEF MakeFolder, TypeOK, configVars, bootVars, recVars, historyVars
  <1>3. ASSUME NEW f \in Folders, NEW to \in Folders \cup {Gone}, RenameFolder(f, to)
        PROVE  TypeOK'
    <2>1. acts' \in 0 .. MaxActs
      BY <1>3, ActType DEF RenameFolder
    <2>2. folders' \subseteq Paths /\ touched' \subseteq Ids
      BY <1>3 DEF RenameFolder, TypeOK, Paths
    <2>3. place' \in [Ids -> Paths \cup {INBOX, NoFolder, Gone}]
      BY <1>3 DEF RenameFolder, TypeOK, Paths
    <2> QED
      BY <1>3, <2>1, <2>2, <2>3 DEF RenameFolder, TypeOK, configVars, bootVars, recVars
  <1> QED
    BY <1>1, <1>2, <1>3

LEMMA EnsureType ==
  ASSUME TypeOK, EnsureActionFolders
  PROVE  folders' \subseteq Paths
  BY DEF EnsureActionFolders, TypeOK

LEMMA MainType ==
  ASSUME TypeOK, SelfTest \/ MainReconcile \/ Restart
  PROVE  TypeOK'
  <1>1. CASE SelfTest
    <2>1. faults' \in 0 .. MaxFaults
      BY <1>1, MishapType DEF SelfTest, TypeOK
    <2> QED
      BY <1>1, <2>1 DEF SelfTest, TypeOK, serverVars, configVars, recVars, historyVars
  <1>2. CASE MainReconcile
    <2>1. Main \in Calls /\ ref' \in [Refs -> Paths] /\ on' \subseteq Refs
      BY <1>2 DEF MainReconcile, TypeOK, Calls
    <2>2. CallTypes'
      BY <1>2, <2>1, ReconcileType DEF MainReconcile
    <2>3. folders' \subseteq Paths
      BY <1>2, EnsureType DEF MainReconcile
    <2> QED
      BY <1>2, <2>2, <2>3 DEF MainReconcile, CallTypes, TypeOK, countVars
  <1>3. CASE Restart
    <2>1. faults' \in 0 .. MaxFaults
      BY <1>3, MishapType DEF Restart
    <2>2. scan' \in ScanStates
      BY <1>3 DEF Restart, NoScan, ScanStates
    <2>3. heal' \in [Healers -> HealStates]
      BY <1>3 DEF Restart, NoHeal, HealStates
    <2> QED
      BY <1>3, <2>1, <2>2, <2>3 DEF Restart, TypeOK, serverVars, historyVars, ScanStates,
         HealStates
  <1> QED
    BY <1>1, <1>2, <1>3

LEMMA EditType ==
  ASSUME TypeOK, NEW f \in Folders,
         \/ \E x \in Rules : EditRule(x, f)
         \/ \E x \in Fixed : EditSettings(x, f, "review")
         \/ \E x \in Actions : EditSettings(x, f, "actions")
  PROVE  TypeOK'
  <1>1. ASSUME NEW x \in Rules, EditRule(x, f) PROVE TypeOK'
    <2>1. acts' \in 0 .. MaxActs
      BY <1>1, ActType DEF EditRule
    <2>2. faults' \in 0 .. MaxFaults
      BY <1>1, MishapType DEF EditRule, TypeOK
    <2>3. ref' \in [Refs -> Paths] /\ on' \subseteq Refs
      BY <1>1 DEF EditRule, TypeOK, Refs, Paths
    <2>4. saved' \in [ref : [Refs -> Paths], on : SUBSET Refs]
      BY <1>1, <2>3 DEF EditRule, TypeOK
    <2>5. CallTypes'
      <3>1. ASSUME NEW r \in Recs, Reconcile(r) PROVE CallTypes'
        BY <2>3, <3>1, ReconcileType DEF Calls
      <3>2. CASE loose' = Paths /\ UNCHANGED << recVars, misnamed >>
        BY <3>2 DEF CallTypes, TypeOK, recVars
      <3> QED
        BY <1>1, <3>1, <3>2 DEF EditRule, recVars
    <2> QED
      BY <1>1, <2>1, <2>2, <2>3, <2>4, <2>5 DEF EditRule, CallTypes, TypeOK, serverVars, bootVars
  <1>2. ASSUME NEW x \in Fixed \cup Actions, NEW which \in {"review", "actions"},
               EditSettings(x, f, which)
        PROVE  TypeOK'
    <2>1. acts' \in 0 .. MaxActs
      BY <1>2, ActType DEF EditSettings
    <2>2. faults' \in 0 .. MaxFaults
      BY <1>2, MishapType DEF EditSettings, TypeOK
    <2>3. ref' \in [Refs -> Paths] /\ on' \subseteq Refs
      BY <1>2 DEF EditSettings, TypeOK, Refs, Paths
    <2>4. saved' \in [ref : [Refs -> Paths], on : SUBSET Refs]
      BY <1>2, <2>3 DEF EditSettings, TypeOK
    <2>5. loose' \subseteq Paths /\ due' \subseteq {"review", "actions"}
      BY <1>2 DEF EditSettings, TypeOK
    <2> QED
      BY <1>2, <2>1, <2>2, <2>3, <2>4, <2>5 DEF EditSettings, TypeOK, serverVars, bootVars,
         recVars
  <1> QED
    BY <1>1, <1>2

LEMMA ListenerType ==
  ASSUME TypeOK, NEW which \in {"review", "actions"}, Listener(which)
  PROVE  TypeOK'
  <1>1. faults' \in 0 .. MaxFaults
    BY MishapType DEF Listener, TypeOK
  <1>2. folders' \subseteq Paths
    BY EnsureType DEF Listener, TypeOK
  <1>3. ref' \in [Refs -> Paths] /\ on' \subseteq Refs /\ due' \subseteq {"review", "actions"}
    BY DEF Listener, TypeOK
  <1>4. CallTypes'
    <2>1. ASSUME NEW r \in Recs, Reconcile(r) PROVE CallTypes'
      BY <1>3, <2>1, ReconcileType DEF Calls
    <2>2. CASE loose' = Paths /\ UNCHANGED << recVars, misnamed >>
      BY <2>2 DEF CallTypes, TypeOK, recVars
    <2> QED
      BY <2>1, <2>2 DEF Listener
  <1> QED
    BY <1>1, <1>2, <1>3, <1>4 DEF Listener, CallTypes, TypeOK, bootVars

LEMMA InitType == Init => TypeOK
  <1> SUFFICES ASSUME Init PROVE TypeOK
    OBVIOUS
  <1>1. PICK b \in Boots : folders = b.folders /\ ref = b.ref /\ on = b.on
    BY DEF Init
  <1>2. folders \subseteq Paths /\ ref \in [Refs -> Paths] /\ on \subseteq Refs
    BY <1>1, BootAssumption DEF Paths, Refs
  <1>3. scan \in ScanStates
    BY DEF Init, NoScan, ScanStates
  <1>4. heal \in [Healers -> HealStates]
    BY DEF Init, NoHeal, HealStates
  <1>5. saved \in [ref : [Refs -> Paths], on : SUBSET Refs]
    BY <1>2 DEF Init
  <1>6. acts \in 0 .. MaxActs /\ faults \in 0 .. MaxFaults
    BY BoundAssumption DEF Init
  <1>7. /\ place \in [Ids -> Paths \cup {INBOX, NoFolder, Gone}]
        /\ row \in [Ids -> Paths \cup {NoFolder}]
        /\ plant \in [Calls -> SUBSET Paths]
        /\ drop \in [Calls -> SUBSET Pairs]
        /\ deleting \in [Calls -> SUBSET Pairs]
    BY DEF Init
  <1>8. enabled \in BOOLEAN /\ phase \in {"test", "first", "up"} /\ due = {}
        /\ loose = {} /\ misnamed = {} /\ touched = {}
    BY DEF Init
  <1> QED
    BY <1>2, <1>3, <1>4, <1>5, <1>6, <1>7, <1>8 DEF TypeOK, ScanStates, HealStates

\* The server, the table, the configuration, the scan and every call keep their
\* types, for any number of healers, reconciliations, edits and faults.
THEOREM TypeCorrect == Spec => []TypeOK
  <1>1. TypeOK /\ [Next]_vars => TypeOK'
    <2> SUFFICES ASSUME TypeOK, [Next]_vars PROVE TypeOK'
      OBVIOUS
    <2>1. CASE UNCHANGED vars
      BY <2>1 DEF vars, serverVars, configVars, bootVars, recVars, historyVars, countVars,
         TypeOK
    <2>2. CASE Next
      BY <2>2, UserType, RecStepType, MainType, EditType, ListenerType, ScanStepType,
         HealStepType DEF Next
    <2> QED
      BY <2>1, <2>2
  <1> QED
    BY <1>1, InitType, PTL DEF Spec

-----------------------------------------------------------------------------
(* A sentinel that nobody touches is left alone.                           *)

Born(i) == place[i] # NoFolder

\* What a reconciliation or a scan has read of a row is true yet, or somebody
\* has touched the message, or the row is gone.
PairFine(s) == Born(s[1]) /\ (s[1] \in touched \/ row[s[1]] \in {s[2], NoFolder})

\* A message that a scan misses was touched, or its row is gone.
Missed(i) == Born(i) /\ (i \in touched \/ row[i] = NoFolder)

CoreFine == LeftAlone /\ \A i \in Ids : i \in touched \/ row[i] # NoFolder => Born(i)
RecFine == \A r \in Calls : \A s \in drop[r] \cup deleting[r] : PairFine(s)
ScanFine ==
  /\ \A s \in scan.todo : PairFine(s)
  /\ \A s \in scan.cur : Missed(s[1])
  /\ \A x \in scan.found : Missed(x.id)
HealFine == \A h \in Healers : \A x \in heal[h].todo \cup heal[h].cur : Missed(x.id)
AloneInv == CoreFine /\ RecFine /\ ScanFine /\ HealFine

\* A step that keeps what is known of messages: none is unborn or untouched
\* again, and the row of one that is there changes only if somebody touched it
\* or if it goes.
Calm ==
  /\ touched \subseteq touched'
  /\ \A i \in Ids : Born(i) => /\ Born(i)'
                               /\ i \in touched' \/ row'[i] \in {row[i], NoFolder}

LEMMA CalmPair ==
  ASSUME Calm, NEW s \in Pairs, PairFine(s)
  PROVE  PairFine(s)'
  <1>1. s[1] \in Ids
    BY DEF Pairs
  <1> QED
    BY <1>1 DEF Calm, PairFine

LEMMA CalmMissed ==
  ASSUME Calm, NEW i \in Ids, Missed(i)
  PROVE  Missed(i)'
  BY DEF Calm, Missed

\* What a calm step leaves alone stays fine.
LEMMA CalmKeeps ==
  ASSUME TypeOK, AloneInv, Calm
  PROVE  /\ UNCHANGED << drop, deleting >> => RecFine'
         /\ UNCHANGED scan => ScanFine'
         /\ UNCHANGED heal => HealFine'
  <1>1. ASSUME UNCHANGED << drop, deleting >> PROVE RecFine'
    <2>1. ASSUME NEW r \in Calls, NEW s \in drop[r] \cup deleting[r] PROVE PairFine(s)'
      <3>1. s \in Pairs /\ PairFine(s)
        BY <2>1 DEF TypeOK, AloneInv, RecFine
      <3> QED
        BY <3>1, CalmPair
    <2> QED
      BY <1>1, <2>1 DEF RecFine
  <1>2. ASSUME UNCHANGED scan PROVE ScanFine'
    <2>0. scan \in ScanStates
      BY DEF TypeOK, ScanStates
    <2>1. ASSUME NEW s \in scan.todo PROVE PairFine(s)'
      <3>1. s \in Pairs /\ PairFine(s)
        BY <2>0, <2>1 DEF ScanStates, AloneInv, ScanFine
      <3> QED
        BY <3>1, CalmPair
    <2>2. ASSUME NEW s \in scan.cur PROVE Missed(s[1])'
      <3>1. s[1] \in Ids /\ Missed(s[1])
        BY <2>0, <2>2 DEF ScanStates, Pairs, AloneInv, ScanFine
      <3>2. PICK i \in Ids : i = s[1]
        BY <3>1
      <3>3. Missed(i)'
        BY <3>1, <3>2, CalmMissed
      <3> QED
        BY <3>2, <3>3
    <2>3. ASSUME NEW x \in scan.found PROVE Missed(x.id)'
      <3>1. x.id \in Ids /\ Missed(x.id)
        BY <2>0, <2>3 DEF ScanStates, Results, AloneInv, ScanFine
      <3> QED
        BY <3>1, CalmMissed
    <2> QED
      BY <1>2, <2>1, <2>2, <2>3 DEF ScanFine
  <1>3. ASSUME UNCHANGED heal PROVE HealFine'
    <2>0. heal \in [Healers -> HealStates]
      BY DEF TypeOK, HealStates
    <2>1. ASSUME NEW h \in Healers, NEW x \in heal[h].todo \cup heal[h].cur PROVE Missed(x.id)'
      <3>1. x.id \in Ids /\ Missed(x.id)
        BY <2>0, <2>1 DEF HealStates, Results, AloneInv, HealFine
      <3> QED
        BY <3>1, CalmMissed
    <2> QED
      BY <1>3, <2>1 DEF HealFine
  <1> QED
    BY <1>1, <1>2, <1>3

LEMMA StillCalm ==
  ASSUME TypeOK, CoreFine, UNCHANGED << place, row, touched >>
  PROVE  Calm /\ CoreFine'
  BY DEF Calm, CoreFine, LeftAlone, Born

\* A step that moves no message and no row, though a command may have failed.
MoreTouched ==
  /\ UNCHANGED << place, row >>
  /\ touched \subseteq touched'
  /\ \A i \in Ids : i \in touched' => i \in touched \/ Born(i)

LEMMA MoreCalm ==
  ASSUME TypeOK, CoreFine, MoreTouched
  PROVE  Calm /\ CoreFine'
  BY DEF MoreTouched, Calm, CoreFine, LeftAlone, Born

\* A reconciliation reads the rows as they are.
LEMMA ReconcileAlone ==
  ASSUME TypeOK, AloneInv, UNCHANGED << place, row, touched >>, NEW r \in Calls, Reconcile(r)
  PROVE  RecFine'
  <1>1. Calm
    BY StillCalm DEF AloneInv
  <1>2. ASSUME NEW q \in Calls, NEW s \in drop'[q] \cup deleting'[q] PROVE PairFine(s)'
    <2>1. CASE s \in drop[q] \cup deleting[q]
      <3>1. s \in Pairs /\ PairFine(s)
        BY <2>1 DEF TypeOK, AloneInv, RecFine
      <3> QED
        BY <1>1, <3>1, CalmPair
    <2>2. CASE s \notin drop[q] \cup deleting[q]
      <3>1. PICK i \in Rows : s = << i, row[i] >>
        BY <1>2, <2>2 DEF Reconcile, Row, TypeOK
      <3>2. s[1] = i /\ s[2] = row[i] /\ i \in Ids /\ row[i] # NoFolder
        BY <3>1 DEF Rows
      <3>3. Born(i)
        BY <3>2 DEF AloneInv, CoreFine
      <3> QED
        BY <3>2, <3>3 DEF PairFine, Born
    <2> QED
      BY <2>1, <2>2
  <1> QED
    BY <1>2 DEF RecFine

\* The scan goes on with rows that are true and reports only what is missed.
LEMMA ScanOnAlone ==
  ASSUME TypeOK, AloneInv, MoreTouched,
         NEW todo \in SUBSET Pairs, \A s \in todo : PairFine(s),
         NEW list, NEW found \in SUBSET Results, \A x \in found : Missed(x.id)',
         ScanOn(todo, list, found)
  PROVE  ScanFine' /\ HealFine'
  <1>1. \A s \in todo : PairFine(s)'
    BY DEF MoreTouched, PairFine, Born
  <1>2. \A x \in found : Missed(x.id)'
    OBVIOUS
  <1>3. Calm
    BY MoreCalm DEF AloneInv
  <1>4. ScanFine'
    <2>1. CASE todo # {}
      <3>1. scan'.todo = todo /\ scan'.cur = {} /\ scan'.found = found
        BY <2>1 DEF ScanOn, NoScan
      <3> QED
        BY <1>1, <1>2, <3>1 DEF ScanFine
    <2>2. CASE todo = {}
      <3>1. scan'.todo = {} /\ scan'.cur = {} /\ scan'.found = {}
        BY <2>2 DEF ScanOn, NoScan
      <3> QED
        BY <3>1 DEF ScanFine
    <2> QED
      BY <2>1, <2>2
  <1>5. HealFine'
    <2>1. CASE UNCHANGED heal
      BY <1>3, <2>1, CalmKeeps
    <2>2. ASSUME NEW h \in Healers,
                 heal' = [heal EXCEPT ![h] = [NoHeal EXCEPT !.pc = "next", !.todo = found]]
          PROVE  HealFine'
      <3>0. heal \in [Healers -> HealStates]
        BY DEF TypeOK, HealStates
      <3>1. heal'[h].todo = found /\ heal'[h].cur = {}
        BY <2>2, <3>0 DEF NoHeal
      <3>2. ASSUME NEW g \in Healers, g # h PROVE heal'[g] = heal[g]
        BY <2>2, <3>0, <3>2
      <3>3. ASSUME NEW g \in Healers, NEW x \in heal[g].todo \cup heal[g].cur
            PROVE  Missed(x.id)'
        <4>1. Missed(x.id)
          BY <3>3 DEF AloneInv, HealFine
        <4> QED
          BY <4>1 DEF MoreTouched, Missed, Born
      <3> QED
        BY <1>2, <3>1, <3>2, <3>3 DEF HealFine
    <2> QED
      BY <2>1, <2>2 DEF ScanOn
  <1> QED
    BY <1>4, <1>5

LEMMA DeepOnAlone ==
  ASSUME TypeOK, AloneInv, MoreTouched,
         NEW s \in Pairs, Missed(s[1])',
         NEW todo \in SUBSET Pairs, \A q \in todo : PairFine(q),
         NEW list, NEW left, NEW found \in SUBSET Results, \A x \in found : Missed(x.id)',
         DeepOn(s, todo, list, left, found)
  PROVE  ScanFine' /\ HealFine'
  <1>1. CASE left = {}
    <2> DEFINE more == found \cup {[id |-> s[1], from |-> s[2], to |-> NoFolder]}
    <2>1. more \in SUBSET Results
      BY DEF Pairs, Results
    <2>2. \A x \in more : Missed(x.id)'
      OBVIOUS
    <2>3. ScanOn(todo, list, more)
      BY <1>1 DEF DeepOn
    <2> QED
      BY <2>1, <2>2, <2>3, ScanOnAlone
  <1>2. CASE left # {}
    <2>1. /\ scan'.todo = todo /\ scan'.cur = {s} /\ scan'.found = found
          /\ UNCHANGED heal
      BY <1>2 DEF DeepOn
    <2>2. /\ \A q \in todo : PairFine(q)'
          /\ \A x \in found : Missed(x.id)'
          /\ Missed(s[1])'
      BY DEF MoreTouched, PairFine, Born
    <2>3. Calm
      BY MoreCalm DEF AloneInv
    <2> QED
      BY <2>1, <2>2, <2>3, CalmKeeps DEF ScanFine
  <1> QED
    BY <1>1, <1>2

LEMMA NoScanAlone ==
  ASSUME TypeOK, AloneInv, UNCHANGED << place, row, touched, heal >>, scan' = NoScan
  PROVE  ScanFine' /\ HealFine'
  <1>1. Calm
    BY StillCalm DEF AloneInv
  <1>2. scan'.todo = {} /\ scan'.cur = {} /\ scan'.found = {}
    BY DEF NoScan
  <1> QED
    BY <1>1, <1>2, CalmKeeps DEF ScanFine

\* A message that is not where its row says, though nobody touched it, has none.
LEMMA MissedAway ==
  ASSUME AloneInv, NEW s \in Pairs, PairFine(s), place[s[1]] # s[2]
  PROVE  Missed(s[1])
  <1>1. s[1] \in Ids
    BY DEF Pairs
  <1> QED
    BY <1>1 DEF AloneInv, CoreFine, LeftAlone, PairFine, Missed

\* One that is not seen in its folder has been touched, or has no row, by now.
LEMMA NotSeenMissed ==
  ASSUME TypeOK, AloneInv, NEW s \in Pairs, PairFine(s), UNCHANGED << place, row >>,
         NotSeen(s)
  PROVE  MoreTouched /\ Missed(s[1])'
  <1>1. s[1] \in Ids /\ Born(s[1])
    BY DEF Pairs, PairFine
  <1>2. CASE place[s[1]] # s[2] /\ UNCHANGED touched
    <2>1. Missed(s[1])
      BY <1>2, MissedAway
    <2> QED
      BY <1>2, <2>1 DEF MoreTouched, Missed, Born
  <1>3. CASE touched' = touched \cup {s[1]}
    BY <1>1, <1>3 DEF MoreTouched, Missed, Born
  <1> QED
    BY <1>2, <1>3 DEF NotSeen

LEMMA ScanStepAlone ==
  ASSUME TypeOK, AloneInv, ScanStep
  PROVE  AloneInv'
  <1>0. scan \in ScanStates
    BY DEF TypeOK, ScanStates
  <1>1. UNCHANGED << place, row >> /\ UNCHANGED << drop, deleting >>
    BY DEF ScanStep, ScanStart, FastAnswered, ListAnswered, DeepAnswered, scanFrame,
       serverVars, recVars
  <1>2. ASSUME MoreTouched PROVE Calm /\ CoreFine' /\ RecFine'
    BY <1>1, <1>2, MoreCalm, CalmKeeps DEF AloneInv
  <1>8. ASSUME UNCHANGED touched PROVE MoreTouched
    BY <1>1, <1>8 DEF MoreTouched
  <1>3. /\ scan.todo \in SUBSET Pairs /\ \A s \in scan.todo : PairFine(s)
        /\ scan.cur \in SUBSET Pairs /\ \A s \in scan.cur : Missed(s[1])
        /\ scan.found \in SUBSET Results /\ \A x \in scan.found : Missed(x.id)
    BY <1>0 DEF ScanStates, AloneInv, ScanFine
  <1>9. ASSUME MoreTouched PROVE \A x \in scan.found : Missed(x.id)'
    BY <1>3, <1>9 DEF MoreTouched, Missed, Born
  <1>4. CASE ScanStart
    <2> DEFINE todo == {Row(i) : i \in Rows}
    <2>1. todo \in SUBSET Pairs
      BY DEF Rows, Row, Pairs, TypeOK
    <2>2. ASSUME NEW i \in Rows PROVE PairFine(Row(i))
      <3>1. i \in Ids /\ Born(i)
        BY DEF Rows, AloneInv, CoreFine
      <3> QED
        BY <3>1 DEF PairFine, Row
    <2>3. \A s \in todo : PairFine(s)
      BY <2>2
    <2>4. ScanOn(todo, {}, {})
      BY <1>4 DEF ScanStart
    <2>5. MoreTouched
      BY <1>4, <1>8 DEF ScanStart
    <2>6. ScanFine' /\ HealFine'
      <3> HIDE DEF todo
      <3> QED
        BY <2>1, <2>3, <2>4, <2>5, ScanOnAlone
    <2> QED
      BY <1>2, <2>5, <2>6 DEF AloneInv
  <1>5. ASSUME NEW s \in scan.todo, FastAnswered(s) PROVE AloneInv'
    <2> DEFINE todo == scan.todo \ {s}
    <2>1. todo \in SUBSET Pairs /\ (\A q \in todo : PairFine(q)) /\ s \in Pairs /\ PairFine(s)
      BY <1>3, <1>5
    <2>2. CASE ScanOn(todo, scan.list, scan.found) /\ UNCHANGED touched
      <3> HIDE DEF todo
      <3>1. MoreTouched
        BY <1>8, <2>2
      <3>2. \A x \in scan.found : Missed(x.id)'
        BY <1>9, <3>1
      <3>3. ScanFine' /\ HealFine'
        BY <1>3, <2>1, <2>2, <3>1, <3>2, ScanOnAlone
      <3> QED
        BY <1>2, <3>1, <3>3 DEF AloneInv
    <2>3. CASE NotSeen(s) /\ GoesDeep(s)
      <3>1. MoreTouched /\ Missed(s[1])'
        BY <1>1, <2>1, <2>3, NotSeenMissed
      <3>2. \A x \in scan.found : Missed(x.id)'
        BY <1>9, <3>1
      <3>3. CASE /\ scan' = [scan EXCEPT !.pc = "list", !.todo = todo, !.cur = {s}]
                 /\ UNCHANGED heal
        <4>1. scan'.todo = todo /\ scan'.cur = {s} /\ scan'.found = scan.found
          BY <1>0, <3>3 DEF ScanStates
        <4>2. \A q \in todo : PairFine(q)'
          BY <2>1, <3>1 DEF MoreTouched, PairFine, Born
        <4>3. HealFine'
          BY <1>2, <3>1, <3>3, CalmKeeps
        <4> QED
          BY <1>2, <3>1, <3>2, <4>1, <4>2, <4>3 DEF ScanFine, AloneInv
      <3>4. CASE DeepOn(s, todo, scan.list, scan.list \ {INBOX, s[2]}, scan.found)
        <4> HIDE DEF todo
        <4>1. ScanFine' /\ HealFine'
          BY <1>3, <2>1, <3>1, <3>2, <3>4, DeepOnAlone
        <4> QED
          BY <1>2, <3>1, <4>1 DEF AloneInv
      <3> QED
        BY <2>3, <3>3, <3>4 DEF GoesDeep
    <2>4. CASE scan' = NoScan /\ UNCHANGED << heal, touched >>
      <3>1. MoreTouched
        BY <1>8, <2>4
      <3> QED
        BY <1>1, <1>2, <2>4, <3>1, NoScanAlone DEF AloneInv
    <2> QED
      BY <1>5, <2>2, <2>3, <2>4 DEF FastAnswered
  <1>6. ASSUME NEW s \in scan.cur, ListAnswered(s) PROVE AloneInv'
    <2>0. UNCHANGED touched /\ MoreTouched
      BY <1>6, <1>8 DEF ListAnswered
    <2>1. s \in Pairs /\ Missed(s[1])' /\ \A x \in scan.found : Missed(x.id)'
      BY <1>3, <1>6, <1>9, <2>0 DEF MoreTouched, Missed, Born
    <2>2. CASE DeepOn(s, scan.todo, folders \cup {INBOX}, folders \ {s[2]}, scan.found)
      <3>1. ScanFine' /\ HealFine'
        BY <1>3, <2>0, <2>1, <2>2, DeepOnAlone
      <3> QED
        BY <1>2, <2>0, <3>1 DEF AloneInv
    <2>3. CASE scan' = NoScan /\ UNCHANGED heal
      BY <1>1, <1>2, <2>0, <2>3, NoScanAlone DEF AloneInv
    <2> QED
      BY <1>6, <2>2, <2>3 DEF ListAnswered
  <1>7. ASSUME NEW s \in scan.cur, NEW g \in scan.left, DeepAnswered(s, g) PROVE AloneInv'
    <2>0. UNCHANGED touched /\ MoreTouched
      BY <1>7, <1>8 DEF DeepAnswered
    <2>1. s \in Pairs /\ Missed(s[1])' /\ g \in Paths
      BY <1>0, <1>3, <1>7, <2>0 DEF ScanStates, MoreTouched, Missed, Born
    <2> DEFINE more == scan.found \cup {[id |-> s[1], from |-> s[2], to |-> g]}
    <2>2. more \in SUBSET Results /\ \A x \in more : Missed(x.id)'
      BY <1>3, <1>9, <2>0, <2>1 DEF Pairs, Results
    <2>3. CASE ScanOn(scan.todo, scan.list, more)
      <3> HIDE DEF more
      <3>1. ScanFine' /\ HealFine'
        BY <1>3, <2>0, <2>2, <2>3, ScanOnAlone
      <3> QED
        BY <1>2, <2>0, <3>1 DEF AloneInv
    <2>4. CASE DeepOn(s, scan.todo, scan.list, scan.left \ {g}, scan.found)
      <3>1. ScanFine' /\ HealFine'
        BY <1>3, <1>9, <2>0, <2>1, <2>4, DeepOnAlone
      <3> QED
        BY <1>2, <2>0, <3>1 DEF AloneInv
    <2> QED
      BY <1>7, <2>3, <2>4 DEF DeepAnswered
  <1> QED
    BY <1>4, <1>5, <1>6, <1>7 DEF ScanStep

\* A sentinel that was appended is new, and where its row says, or touched.
LEMMA AppendAlone ==
  ASSUME TypeOK, AloneInv, NEW f \in Paths, Append(f)
  PROVE  Calm /\ CoreFine'
  <1>1. CASE UNCHANGED << place, row, touched >>
    BY <1>1, StillCalm DEF AloneInv
  <1>2. ASSUME NEW i \in Ids, Fresh(i), place' = [place EXCEPT ![i] = f],
               \/ row' = [row EXCEPT ![i] = f] /\ UNCHANGED touched
               \/ touched' = touched \cup {i} /\ UNCHANGED row
        PROVE  Calm /\ CoreFine'
    <2>1. ~Born(i) /\ row[i] = NoFolder
      BY <1>2 DEF Fresh, Born, AloneInv, CoreFine
    <2>2. /\ place'[i] = f /\ row'[i] \in {f, NoFolder} /\ f # NoFolder
          /\ i \in touched' \/ row'[i] = f
          /\ touched \subseteq touched'
      BY <1>2, <2>1, PathFacts DEF TypeOK
    <2>3. \A j \in Ids : j # i => /\ place'[j] = place[j] /\ row'[j] = row[j]
                                  /\ (j \in touched' <=> j \in touched)
      BY <1>2 DEF TypeOK
    <2>4. Calm
      BY <2>1, <2>2, <2>3 DEF Calm, Born
    <2>5. CoreFine'
      BY <2>1, <2>2, <2>3 DEF AloneInv, CoreFine, LeftAlone, Born
    <2> QED
      BY <2>4, <2>5
  <1> QED
    BY <1>1, <1>2 DEF Append, historyVars

\* A row that goes was that of a message that is touched by now, or of one that
\* is gone.
LEMMA RowGoes ==
  ASSUME TypeOK, AloneInv, NEW i \in Ids, row' = [row EXCEPT ![i] = NoFolder],
         UNCHANGED place, touched \subseteq touched',
         \A j \in Ids : j \in touched' => j \in touched \/ Born(j),
         i \in touched' \/ row[i] = NoFolder
  PROVE  Calm /\ CoreFine'
  <1>1. \A j \in Ids : row'[j] = IF j = i THEN NoFolder ELSE row[j]
    BY DEF TypeOK
  <1>2. Calm
    BY <1>1 DEF Calm, Born
  <1>3. CoreFine'
    BY <1>1 DEF AloneInv, CoreFine, LeftAlone, Born
  <1> QED
    BY <1>2, <1>3

\* A reconciliation's list that only gets shorter stays fine.
LEMMA LessToDo ==
  ASSUME TypeOK, AloneInv, Calm,
         \A q \in Calls : drop'[q] \cup deleting'[q] \subseteq drop[q] \cup deleting[q]
  PROVE  RecFine'
  <1>1. ASSUME NEW q \in Calls, NEW s \in drop'[q] \cup deleting'[q] PROVE PairFine(s)'
    <2>1. s \in drop[q] \cup deleting[q]
      BY <1>1
    <2>2. s \in Pairs /\ PairFine(s)
      BY <2>1 DEF TypeOK, AloneInv, RecFine
    <2> QED
      BY <2>2, CalmPair
  <1> QED
    BY <1>1 DEF RecFine

LEMMA RecStepAlone ==
  ASSUME TypeOK, AloneInv, NEW r \in Calls, RecStep(r)
  PROVE  AloneInv'
  <1>1. ASSUME NEW f \in plant[r], Planted(r, f) PROVE AloneInv'
    <2>1. f \in Paths
      BY <1>1 DEF TypeOK
    <2>2. Calm /\ CoreFine'
      BY <1>1, <2>1, AppendAlone DEF Planted
    <2>3. UNCHANGED << drop, deleting >> /\ UNCHANGED scan /\ UNCHANGED heal
      BY <1>1 DEF Planted
    <2> QED
      BY <2>2, <2>3, CalmKeeps DEF AloneInv
  <1>2. ASSUME NEW s \in drop[r], Searched(r, s) PROVE AloneInv'
    <2>1. s \in Pairs /\ PairFine(s) /\ s[1] \in Ids
      BY <1>2 DEF TypeOK, AloneInv, RecFine, Pairs
    <2>2. UNCHANGED scan /\ UNCHANGED heal /\ UNCHANGED place
      BY <1>2 DEF Searched, serverVars
    <2>3. \A q \in Calls : drop'[q] \cup deleting'[q] \subseteq drop[q] \cup deleting[q]
      BY <1>2 DEF Searched, TypeOK
    <2>4. Calm /\ CoreFine'
      <3>1. CASE UNCHANGED << row, touched >>
        BY <2>2, <3>1, StillCalm DEF AloneInv
      <3>2. CASE NotSeen(s) /\ row' = [row EXCEPT ![s[1]] = NoFolder]
        <4>1. CASE place[s[1]] # s[2] /\ UNCHANGED touched
          <5>1. Missed(s[1])
            BY <2>1, <4>1, MissedAway
          <5> QED
            BY <2>1, <2>2, <3>2, <4>1, <5>1, RowGoes DEF Missed
        <4>2. CASE touched' = touched \cup {s[1]}
          BY <2>1, <2>2, <3>2, <4>2, RowGoes DEF PairFine
        <4> QED
          BY <3>2, <4>1, <4>2 DEF NotSeen
      <3> QED
        BY <1>2, <3>1, <3>2 DEF Searched
    <2> QED
      BY <2>2, <2>3, <2>4, LessToDo, CalmKeeps DEF AloneInv
  <1>3. ASSUME NEW s \in deleting[r], Deleted(r, s) PROVE AloneInv'
    <2>1. s \in Pairs /\ PairFine(s) /\ s[1] \in Ids /\ s[2] # NoFolder
      BY <1>3, PathFacts DEF TypeOK, AloneInv, RecFine, Pairs
    <2>2. UNCHANGED scan /\ UNCHANGED heal
      BY <1>3 DEF Deleted
    <2>3. \A q \in Calls : drop'[q] \cup deleting'[q] \subseteq drop[q] \cup deleting[q]
      BY <1>3 DEF Deleted, TypeOK
    <2>4. \A j \in Ids : /\ j # s[1] => place'[j] = place[j]
                         /\ place'[j] \in {place[j], Gone}
      BY <1>3 DEF Deleted, TypeOK
    <2>5. CASE /\ place' = [place EXCEPT ![s[1]] = IF @ = s[2] THEN Gone ELSE @]
               /\ row' = [row EXCEPT ![s[1]] = NoFolder]
               /\ UNCHANGED touched
      <3>1. \A j \in Ids : row'[j] = IF j = s[1] THEN NoFolder ELSE row[j]
        BY <2>5 DEF TypeOK
      <3>2. place'[s[1]] = IF place[s[1]] = s[2] THEN Gone ELSE place[s[1]]
        BY <2>1, <2>5 DEF TypeOK
      <3>3. Calm
        BY <2>4, <2>5, <3>1, PathFacts DEF Calm, Born
      <3>4. s[1] \in touched \/ place'[s[1]] = Gone
        BY <2>1, <3>2 DEF PairFine, Born, AloneInv, CoreFine, LeftAlone
      <3>5. CoreFine'
        BY <2>1, <2>4, <2>5, <3>1, <3>4, PathFacts DEF AloneInv, CoreFine, LeftAlone, Born
      <3> QED
        BY <2>2, <2>3, <3>3, <3>5, LessToDo, CalmKeeps DEF AloneInv
    <2>6. CASE touched' = touched \cup {s[1]} /\ UNCHANGED row
      <3>1. Calm
        BY <2>4, <2>6, PathFacts DEF Calm, Born
      <3>2. CoreFine'
        BY <2>1, <2>4, <2>6, PathFacts
           DEF PairFine, AloneInv, CoreFine, LeftAlone, Born
      <3> QED
        BY <2>2, <2>3, <3>1, <3>2, LessToDo, CalmKeeps DEF AloneInv
    <2>7. CASE /\ touched' = touched \cup {s[1]} /\ UNCHANGED place
               /\ row' = [row EXCEPT ![s[1]] = NoFolder]
      <3>1. Calm /\ CoreFine'
        BY <2>1, <2>7, RowGoes DEF PairFine
      <3> QED
        BY <2>2, <2>3, <3>1, LessToDo, CalmKeeps DEF AloneInv
    <2> QED
      BY <1>3, <2>5, <2>6, <2>7 DEF Deleted
  <1> QED
    BY <1>1, <1>2, <1>3 DEF RecStep

\* A healer that leaves a result for what is next has nothing new to do.
LEMMA HealOnAlone ==
  ASSUME TypeOK, AloneInv, Calm, NEW h \in Healers, NEW x \in Results, NEW p, NEW list,
         NEW cur \in SUBSET {x}, x \in heal[h].todo \cup heal[h].cur, HealOn(h, x, p, cur, list)
  PROVE  HealFine'
  <1>0. heal \in [Healers -> HealStates]
    BY DEF TypeOK, HealStates
  <1>1. heal'[h].todo = heal[h].todo \ {x} /\ heal'[h].cur = cur
    BY <1>0 DEF HealOn
  <1>2. \A g \in Healers : g # h => heal'[g] = heal[g]
    BY <1>0 DEF HealOn
  <1>3. ASSUME NEW g \in Healers, NEW y \in heal'[g].todo \cup heal'[g].cur
        PROVE  Missed(y.id)'
    <2>1. y \in heal[g].todo \cup heal[g].cur
      BY <1>1, <1>2, <1>3
    <2>2. y.id \in Ids /\ Missed(y.id)
      BY <1>0, <2>1 DEF HealStates, Results, AloneInv, HealFine
    <2> QED
      BY <2>2, CalmMissed
  <1> QED
    BY <1>3 DEF HealFine

LEMMA NotFoundAlone ==
  ASSUME TypeOK, AloneInv, NEW h \in Healers, NEW x \in heal[h].todo \cup heal[h].cur,
         NEW list, NotFound(h, x, list),
         UNCHANGED << place, touched >>, UNCHANGED << drop, deleting >>, UNCHANGED scan
  PROVE  AloneInv'
  <1>1. x \in Results /\ x.id \in Ids /\ Missed(x.id)
    BY DEF TypeOK, HealStates, Results, AloneInv, HealFine
  <1>2. Calm /\ CoreFine'
    <2>1. CASE UNCHANGED row
      BY <2>1, StillCalm DEF AloneInv
    <2>2. CASE row' = [row EXCEPT ![x.id] = NoFolder]
      BY <1>1, <2>2, RowGoes DEF Missed
    <2> QED
      BY <2>1, <2>2 DEF NotFound
  <1>3. HealFine'
    BY <1>1, <1>2, HealOnAlone DEF NotFound
  <1> QED
    BY <1>2, <1>3, CalmKeeps DEF AloneInv

LEMMA HealStepAlone ==
  ASSUME TypeOK, AloneInv, NEW h \in Healers, HealStep(h)
  PROVE  AloneInv'
  <1>0. heal \in [Healers -> HealStates]
    BY DEF TypeOK, HealStates
  <1>1. ASSUME NEW x \in heal[h].todo \cup heal[h].cur
        PROVE  x \in Results /\ x.id \in Ids /\ Missed(x.id)
    BY <1>0, <1>1 DEF HealStates, Results, AloneInv, HealFine
  <1>2. UNCHANGED << drop, deleting >> /\ UNCHANGED scan
    BY DEF HealStep, HealNext, HealListed, Replanted, Notified, healFrame, recVars
  <1>3. CASE HealNext(h)
    <2>0. UNCHANGED << place, touched >>
      BY <1>3 DEF HealNext
    <2>1. CASE heal' = [heal EXCEPT ![h] = NoHeal] /\ UNCHANGED row
      <3>1. Calm /\ CoreFine'
        BY <2>0, <2>1, StillCalm DEF AloneInv
      <3>2. heal'[h].todo = {} /\ heal'[h].cur = {}
        BY <1>0, <2>1 DEF NoHeal
      <3>3. \A g \in Healers : g # h => heal'[g] = heal[g]
        BY <1>0, <2>1
      <3>4. \A g \in Healers : \A x \in heal[g].todo \cup heal[g].cur : Missed(x.id)'
        BY <2>0, <2>1 DEF AloneInv, HealFine, Missed, Born
      <3>5. HealFine'
        BY <3>2, <3>3, <3>4 DEF HealFine
      <3> QED
        BY <1>2, <3>1, <3>5, CalmKeeps DEF AloneInv
    <2>2. ASSUME NEW x \in heal[h].todo, x.to # NoFolder, Rename(x),
                 HealOn(h, x, "next", {}, heal[h].list)
          PROVE  AloneInv'
      <3>1. x \in Results /\ x.id \in Ids /\ Missed(x.id)
        BY <1>1
      <3>2. Calm /\ CoreFine'
        <4>1. CASE UNCHANGED row
          BY <2>0, <4>1, StillCalm DEF AloneInv
        <4>2. CASE row' = [row EXCEPT ![x.id] = IF @ = NoFolder THEN @ ELSE x.to]
          <5>1. \A j \in Ids : row'[j] = IF j = x.id /\ row[j] # NoFolder THEN x.to ELSE row[j]
            BY <4>2 DEF TypeOK
          <5>2. row[x.id] # NoFolder => x.id \in touched
            BY <3>1 DEF Missed
          <5>3. Calm
            BY <2>0, <5>1, <5>2 DEF Calm, Born
          <5>4. CoreFine'
            BY <2>0, <3>1, <5>1, <5>2 DEF AloneInv, CoreFine, LeftAlone, Born, Missed
          <5> QED
            BY <5>3, <5>4
        <4> QED
          BY <2>2, <4>1, <4>2 DEF Rename
      <3>3. HealFine'
        BY <2>2, <3>1, <3>2, HealOnAlone
      <3> QED
        BY <1>2, <3>2, <3>3, CalmKeeps DEF AloneInv
    <2>3. ASSUME NEW x \in heal[h].todo, HealOn(h, x, "list", {x}, {}), UNCHANGED row
          PROVE  AloneInv'
      <3>1. x \in Results
        BY <1>1
      <3>2. Calm /\ CoreFine'
        BY <2>0, <2>3, StillCalm DEF AloneInv
      <3>3. HealFine'
        BY <2>3, <3>1, <3>2, HealOnAlone
      <3> QED
        BY <1>2, <3>2, <3>3, CalmKeeps DEF AloneInv
    <2>4. ASSUME NEW x \in heal[h].todo, NotFound(h, x, heal[h].list)
          PROVE  AloneInv'
      BY <1>2, <2>0, <2>4, NotFoundAlone
    <2> QED
      BY <1>3, <2>1, <2>2, <2>3, <2>4 DEF HealNext
  <1>4. ASSUME NEW x \in heal[h].cur, HealListed(h, x) PROVE AloneInv'
    <2>0. UNCHANGED << place, touched >> /\ x \in Results
      BY <1>1, <1>4 DEF HealListed
    <2>1. CASE NotFound(h, x, folders \cup {INBOX})
      BY <1>2, <2>0, <2>1, NotFoundAlone
    <2>2. CASE HealOn(h, x, "next", {}, {}) /\ UNCHANGED row
      <3>1. Calm /\ CoreFine'
        BY <2>0, <2>2, StillCalm DEF AloneInv
      <3>2. HealFine'
        BY <2>0, <2>2, <3>1, HealOnAlone
      <3> QED
        BY <1>2, <3>1, <3>2, CalmKeeps DEF AloneInv
    <2> QED
      BY <1>4, <2>1, <2>2 DEF HealListed
  <1>5. ASSUME NEW x \in heal[h].cur, Replanted(h, x) PROVE AloneInv'
    <2>1. x \in Results /\ x.from \in Paths
      BY <1>1, <1>5 DEF Results
    <2>2. Calm /\ CoreFine'
      BY <1>5, <2>1, AppendAlone DEF Replanted
    <2>3. HealFine'
      BY <1>5, <2>1, <2>2, HealOnAlone DEF Replanted
    <2> QED
      BY <1>2, <2>2, <2>3, CalmKeeps DEF AloneInv
  <1>6. ASSUME NEW x \in heal[h].cur, Notified(h, x) PROVE AloneInv'
    <2>1. x \in Results /\ x.id \in Ids /\ Missed(x.id)
      BY <1>1, <1>6
    <2>2. UNCHANGED << place, touched >>
      BY <1>6 DEF Notified
    <2>3. Calm /\ CoreFine'
      <3>1. CASE UNCHANGED row
        BY <2>2, <3>1, StillCalm DEF AloneInv
      <3>2. CASE row' = [row EXCEPT ![x.id] = NoFolder]
        BY <2>1, <2>2, <3>2, RowGoes DEF Missed
      <3> QED
        BY <1>6, <3>1, <3>2 DEF Notified
    <2>4. HealFine'
      BY <1>6, <2>1, <2>3, HealOnAlone DEF Notified
    <2> QED
      BY <1>2, <2>3, <2>4, CalmKeeps DEF AloneInv
  <1> QED
    BY <1>3, <1>4, <1>5, <1>6 DEF HealStep

LEMMA UserAlone ==
  ASSUME TypeOK, AloneInv,
         \/ \E i \in Ids : \E to \in Folders \cup {INBOX, Gone} : MoveSentinel(i, to)
         \/ \E f \in Folders : MakeFolder(f) \/ \E to \in Folders \cup {Gone} : RenameFolder(f, to)
  PROVE  AloneInv'
  <1>1. ASSUME NEW i \in Ids, NEW to \in Folders \cup {INBOX, Gone}, MoveSentinel(i, to)
        PROVE  AloneInv'
    <2>1. \A j \in Ids : place'[j] = IF j = i THEN to ELSE place[j]
      BY <1>1 DEF MoveSentinel, TypeOK
    <2>2. to # NoFolder /\ Born(i) /\ touched' = touched \cup {i} /\ row' = row
      BY <1>1, FolderAssumption DEF MoveSentinel, Born, Paths
    <2>3. Calm /\ CoreFine'
      BY <2>1, <2>2 DEF Calm, AloneInv, CoreFine, LeftAlone, Born
    <2> QED
      BY <1>1, <2>3, CalmKeeps DEF MoveSentinel, recVars, AloneInv
  <1>2. ASSUME NEW f \in Folders, MakeFolder(f) PROVE AloneInv'
    BY <1>2, StillCalm, CalmKeeps DEF MakeFolder, recVars, historyVars, AloneInv
  <1>3. ASSUME NEW f \in Folders, NEW to \in Folders \cup {Gone}, RenameFolder(f, to)
        PROVE  AloneInv'
    <2>1. \A j \in Ids : place'[j] = IF place[j] = f THEN to ELSE place[j]
      BY <1>3 DEF RenameFolder, TypeOK
    <2>2. /\ to # NoFolder /\ f # NoFolder /\ row' = row
          /\ \A j \in Ids : j \in touched' <=> j \in touched \/ place[j] = f
          /\ touched \subseteq touched'
      BY <1>3, FolderAssumption DEF RenameFolder, TypeOK
    <2>3. Calm /\ CoreFine'
      BY <2>1, <2>2 DEF Calm, AloneInv, CoreFine, LeftAlone, Born
    <2> QED
      BY <1>3, <2>3, CalmKeeps DEF RenameFolder, recVars, AloneInv
  <1> QED
    BY <1>1, <1>2, <1>3

\* A step that touches no message and no row, whatever reconciliation it starts.
LEMMA StartsAlone ==
  ASSUME TypeOK, AloneInv, UNCHANGED << place, row, touched, scan, heal >>,
         UNCHANGED recVars \/ \E r \in Calls : Reconcile(r)
  PROVE  AloneInv'
  <1>1. Calm /\ CoreFine' /\ ScanFine' /\ HealFine'
    BY StillCalm, CalmKeeps DEF AloneInv
  <1>2. RecFine'
    BY <1>1, CalmKeeps, ReconcileAlone DEF recVars
  <1> QED
    BY <1>1, <1>2 DEF AloneInv

LEMMA MainAlone ==
  ASSUME TypeOK, AloneInv, SelfTest \/ MainReconcile \/ Restart
  PROVE  AloneInv'
  <1>1. CASE SelfTest
    BY <1>1, StartsAlone DEF SelfTest, serverVars, historyVars
  <1>2. CASE MainReconcile
    BY <1>2, StartsAlone DEF MainReconcile, Calls
  <1>3. CASE Restart
    <2>1. Calm /\ CoreFine'
      BY <1>3, StillCalm DEF Restart, serverVars, historyVars, AloneInv
    <2>2. RecFine'
      BY <1>3 DEF Restart, RecFine
    <2>3. ScanFine'
      BY <1>3 DEF Restart, NoScan, ScanFine
    <2>4. HealFine'
      BY <1>3 DEF Restart, NoHeal, HealFine
    <2> QED
      BY <2>1, <2>2, <2>3, <2>4 DEF AloneInv
  <1> QED
    BY <1>1, <1>2, <1>3

LEMMA EditAlone ==
  ASSUME TypeOK, AloneInv, NEW f, NEW x, NEW which,
         EditRule(x, f) \/ EditSettings(x, f, which) \/ Listener(which)
  PROVE  AloneInv'
  <1>1. CASE EditRule(x, f)
    BY <1>1, StartsAlone DEF EditRule, serverVars, Calls
  <1>2. CASE EditSettings(x, f, which)
    BY <1>2, StartsAlone DEF EditSettings, serverVars
  <1>3. CASE Listener(which)
    BY <1>3, StartsAlone DEF Listener, Calls
  <1> QED
    BY <1>1, <1>2, <1>3

LEMMA InitAlone == Init => AloneInv
  BY DEF Init, AloneInv, CoreFine, LeftAlone, RecFine, ScanFine, HealFine, NoScan, NoHeal

LEMMA AloneStep == TypeOK /\ AloneInv /\ [Next]_vars => AloneInv'
  <1> SUFFICES ASSUME TypeOK, AloneInv, [Next]_vars PROVE AloneInv'
    OBVIOUS
  <1>1. CASE UNCHANGED vars
    BY <1>1, StartsAlone DEF vars, serverVars, historyVars
  <1>2. CASE Next
    BY <1>2, UserAlone, RecStepAlone, MainAlone, EditAlone, ScanStepAlone, HealStepAlone
       DEF Next
  <1> QED
    BY <1>1, <1>2

LEMMA AloneAlways == Spec => []AloneInv
  <1> QED
    BY InitAlone, AloneStep, TypeCorrect, PTL DEF Spec

\* A sentinel that nobody touches, and about which no command fails, stays in
\* the folder of its row and goes with it, whatever becomes of the others: no
\* scan, retry, crash or overlap of calls reports it, doubles it or forgets it.
THEOREM LeftAloneAlways == Spec => []LeftAlone
  <1>1. AloneInv => LeftAlone
    BY DEF AloneInv, CoreFine
  <1> QED
    BY <1>1, AloneAlways, PTL

-----------------------------------------------------------------------------
(* Every folder in use is guarded.                                         *)

Watching == enabled /\ phase = "up" /\ due = {}

Replanting(f) ==
  \E h \in Healers : heal[h].pc = "replant" /\ \E x \in heal[h].cur : x.from = f

\* A folder that has its row, or is about to get it, or is excused.
Covered(f) ==
  \/ f \in loose \cup misnamed
  \/ \E i \in Ids : row[i] = f
  \/ \E r \in Calls : f \in plant[r]
  \/ Replanting(f)

AllCovered == Watching => \A f \in Tracked : Covered(f)

\* A row that is to be removed is still that of a folder nobody names.
DropFine(s) == row[s[1]] \in {s[2], NoFolder} /\ s[2] \notin Tracked

Excused == Paths \subseteq loose \/ due # {}
DropsFine == Excused \/ \A r \in Calls : \A s \in drop[r] \cup deleting[r] : DropFine(s)

OneResult == \A h \in Healers : \A x, y \in heal[h].cur : x = y

GuardInv == AllCovered /\ DropsFine /\ OneResult

\* A step that takes nothing from what covers the folders.
Steady ==
  /\ Watching' => Watching
  /\ due' = {} => due = {}
  /\ Tracked' \subseteq Tracked
  /\ loose \subseteq loose' /\ misnamed \subseteq misnamed'
  /\ \A q \in Calls : drop'[q] \cup deleting'[q] \subseteq drop[q] \cup deleting[q]
  /\ \A i \in Ids : Born(i) => row'[i] \in {row[i], NoFolder}
  /\ \A f \in Tracked : Covered(f) => Covered(f)'

LEMMA SteadyKeeps ==
  ASSUME TypeOK, AloneInv, GuardInv, Steady
  PROVE  AllCovered' /\ DropsFine'
  <1>1. AllCovered'
    BY DEF Steady, GuardInv, AllCovered
  <1>2. CASE Excused
    BY <1>1, <1>2 DEF Excused, Steady, DropsFine
  <1>3. CASE ~Excused
    <2>1. ASSUME NEW r \in Calls, NEW s \in drop'[r] \cup deleting'[r] PROVE DropFine(s)'
      <3>1. s \in drop[r] \cup deleting[r]
        BY <2>1 DEF Steady
      <3>2. DropFine(s) /\ s \in Pairs /\ PairFine(s)
        BY <1>3, <3>1 DEF GuardInv, DropsFine, TypeOK, AloneInv, RecFine
      <3>3. s[1] \in Ids /\ Born(s[1])
        BY <3>2 DEF Pairs, PairFine
      <3> QED
        BY <3>2, <3>3 DEF DropFine, Steady
    <2> QED
      BY <1>1, <2>1 DEF DropsFine
  <1> QED
    BY <1>2, <1>3

\* When every folder is excused, or a listener is still to come, there is
\* nothing to show.
LEMMA ExcusedKeeps ==
  ASSUME TypeOK', Excused'
  PROVE  AllCovered' /\ DropsFine'
  <1>1. Tracked' \subseteq Paths
    BY DEF Tracked, TypeOK
  <1> QED
    BY <1>1 DEF Excused, AllCovered, Watching, Covered, DropsFine

\* A reconciliation covers all folders anew.
LEMMA ReconcileGuards ==
  ASSUME TypeOK, TypeOK', NEW r \in Calls, Reconcile(r), UNCHANGED row
  PROVE  AllCovered' /\ DropsFine'
  <1>1. ASSUME NEW f \in Tracked' PROVE Covered(f)'
    <2>1. CASE f \in {row[i] : i \in Rows}
      BY <2>1 DEF Covered, Rows
    <2>2. CASE f \notin {row[i] : i \in Rows}
      <3>1. f \in plant'[r]
        BY <1>1, <2>2 DEF Reconcile, TypeOK
      <3> QED
        BY <3>1 DEF Covered
    <2> QED
      BY <2>1, <2>2
  <1>2. AllCovered'
    BY <1>1 DEF AllCovered
  <1>3. CASE SomeBusy \/ due' # {}
    BY <1>2, <1>3 DEF Reconcile, DropsFine, Excused
  <1>4. CASE ~SomeBusy
    <2>1. ASSUME NEW q \in Calls, NEW s \in drop'[q] \cup deleting'[q] PROVE DropFine(s)'
      <3>1. q = r /\ s \in drop'[r]
        BY <1>4, <2>1 DEF Reconcile, SomeBusy, Busy, TypeOK
      <3>2. PICK i \in Rows : s = << i, row[i] >> /\ row[i] \notin Tracked'
        BY <3>1 DEF Reconcile, Row, TypeOK
      <3>3. s[1] = i /\ s[2] = row[i]
        BY <3>2
      <3> QED
        BY <3>2, <3>3 DEF DropFine
    <2> QED
      BY <1>2, <2>1 DEF DropsFine
  <1> QED
    BY <1>3, <1>4

\* An APPEND gives its folder a row or an excuse, and takes no row.
LEMMA AppendGuards ==
  ASSUME TypeOK, AloneInv, NEW f \in Paths, Append(f)
  PROVE  /\ loose \subseteq loose' /\ UNCHANGED misnamed
         /\ f \in loose' \/ \E i \in Ids : row'[i] = f
         /\ \A i \in Ids : Born(i) => row'[i] = row[i]
         /\ \A g \in Paths : (\E i \in Ids : row[i] = g) => \E i \in Ids : row'[i] = g
  <1>1. CASE UNCHANGED << row, misnamed >> /\ loose' = loose \cup {f}
    BY <1>1
  <1>2. ASSUME NEW i \in Ids, Fresh(i), row' = [row EXCEPT ![i] = f],
               UNCHANGED << loose, misnamed >>
        PROVE  /\ \E j \in Ids : row'[j] = f
               /\ \A j \in Ids : Born(j) => row'[j] = row[j]
               /\ \A g \in Paths : (\E j \in Ids : row[j] = g) => \E j \in Ids : row'[j] = g
    <2>1. ~Born(i) /\ row[i] = NoFolder
      BY <1>2 DEF Fresh, Born, AloneInv, CoreFine
    <2>2. row'[i] = f /\ \A j \in Ids : j # i => row'[j] = row[j]
      BY <1>2 DEF TypeOK
    <2> QED
      BY <2>1, <2>2, PathFacts
  <1> QED
    BY <1>1, <1>2 DEF Append, historyVars

LEMMA TrackedPaths ==
  ASSUME TypeOK
  PROVE  \A f \in Tracked : f \in Paths /\ f # NoFolder
  BY PathFacts DEF Tracked, TypeOK

LEMMA StaysExcused ==
  ASSUME TypeOK', Excused, loose \subseteq loose', UNCHANGED due
  PROVE  AllCovered' /\ DropsFine'
  BY ExcusedKeeps DEF Excused

\* The row that a reconciliation removes covers no folder in use.
LEMMA OrphanGuards ==
  ASSUME TypeOK, TypeOK', AloneInv, GuardInv, NEW r \in Calls,
         NEW s \in drop[r] \cup deleting[r],
         row' \in {row, [row EXCEPT ![s[1]] = NoFolder]},
         \A q \in Calls : drop'[q] \cup deleting'[q] \subseteq drop[q] \cup deleting[q],
         UNCHANGED << ref, on, bootVars, due, plant, loose, misnamed, heal >>
  PROVE  AllCovered' /\ DropsFine'
  <1>1. CASE Excused
    BY <1>1, StaysExcused
  <1>2. CASE ~Excused
    <2>1. s[1] \in Ids /\ DropFine(s)
      BY <1>2 DEF TypeOK, Pairs, GuardInv, DropsFine
    <2>2. \A i \in Ids : row'[i] = row[i] \/ (i = s[1] /\ row'[i] = NoFolder)
      BY DEF TypeOK
    <2>3. Tracked' = Tracked
      BY DEF Tracked
    <2>4. ASSUME NEW f \in Tracked, Covered(f) PROVE Covered(f)'
      <3>1. ASSUME NEW i \in Ids, row[i] = f PROVE row'[i] = f
        BY <2>1, <2>2, <2>4, <3>1, TrackedPaths DEF DropFine
      <3> QED
        BY <2>4, <3>1 DEF Covered, Replanting
    <2>5. Steady
      BY <2>2, <2>3, <2>4 DEF Steady, Watching, bootVars
    <2> QED
      BY <2>5, SteadyKeeps
  <1> QED
    BY <1>1, <1>2

LEMMA RecStepGuards ==
  ASSUME TypeOK, TypeOK', AloneInv, GuardInv, NEW r \in Calls, RecStep(r)
  PROVE  GuardInv'
  <1>0. OneResult'
    BY DEF GuardInv, OneResult, RecStep, Planted, Searched, Deleted
  <1>1. ASSUME NEW f \in plant[r], Planted(r, f) PROVE AllCovered' /\ DropsFine'
    <2>1. f \in Paths
      BY <1>1 DEF TypeOK
    <2>2. /\ loose \subseteq loose' /\ UNCHANGED misnamed
          /\ f \in loose' \/ \E i \in Ids : row'[i] = f
          /\ \A i \in Ids : Born(i) => row'[i] = row[i]
          /\ \A g \in Paths : (\E i \in Ids : row[i] = g) => \E i \in Ids : row'[i] = g
      BY <1>1, <2>1, AppendGuards DEF Planted
    <2>3. ASSUME NEW g \in Tracked, Covered(g) PROVE Covered(g)'
      <3>1. ASSUME NEW q \in Calls, g \in plant[q], g # f PROVE g \in plant'[q]
        BY <1>1, <3>1 DEF Planted, TypeOK
      <3>2. Replanting(g) => Replanting(g)'
        BY <1>1 DEF Planted, Replanting
      <3>3. g \in Paths
        BY TrackedPaths
      <3> QED
        BY <2>2, <2>3, <3>1, <3>2, <3>3 DEF Covered
    <2>4. Steady
      BY <1>1, <2>2, <2>3 DEF Steady, Planted, Watching, Tracked, configVars, bootVars
    <2> QED
      BY <2>4, SteadyKeeps
  <1>2. ASSUME NEW s \in drop[r], Searched(r, s) PROVE AllCovered' /\ DropsFine'
    <2>1. \A q \in Calls : drop'[q] \cup deleting'[q] \subseteq drop[q] \cup deleting[q]
      BY <1>2 DEF Searched, TypeOK
    <2> QED
      BY <1>2, <2>1, OrphanGuards DEF Searched, configVars
  <1>3. ASSUME NEW s \in deleting[r], Deleted(r, s) PROVE AllCovered' /\ DropsFine'
    <2>1. \A q \in Calls : drop'[q] \cup deleting'[q] \subseteq drop[q] \cup deleting[q]
      BY <1>3 DEF Deleted, TypeOK
    <2> QED
      BY <1>3, <2>1, OrphanGuards DEF Deleted, configVars
  <1> QED
    BY <1>0, <1>1, <1>2, <1>3 DEF RecStep, GuardInv

\* A step that leaves the table, the configuration and the calls alone.
LEMMA QuietGuards ==
  ASSUME TypeOK, AloneInv, GuardInv,
         UNCHANGED << row, ref, on, bootVars, due, recVars, loose, misnamed >>,
         \A h \in Healers : heal[h].pc = "replant" => heal'[h] = heal[h]
  PROVE  AllCovered' /\ DropsFine'
  <1>1. \A f : Covered(f) => Covered(f)'
    BY DEF Covered, Replanting, recVars
  <1>2. Steady
    BY <1>1 DEF Steady, Watching, Tracked, bootVars, recVars
  <1> QED
    BY <1>2, SteadyKeeps

LEMMA ScanStepGuards ==
  ASSUME TypeOK, AloneInv, GuardInv, ScanStep
  PROVE  GuardInv'
  <1>0. heal \in [Healers -> HealStates]
    BY DEF TypeOK, HealStates
  <1>1. \/ UNCHANGED heal
        \/ \E h \in Healers : \E found :
             /\ heal[h].pc = "idle"
             /\ heal' = [heal EXCEPT ![h] = [NoHeal EXCEPT !.pc = "next", !.todo = found]]
    BY DEF ScanStep, ScanStart, FastAnswered, GoesDeep, ListAnswered, DeepAnswered, DeepOn,
       ScanOn
  <1>2. /\ \A h \in Healers : heal[h].pc = "replant" => heal'[h] = heal[h]
        /\ \A h \in Healers : heal'[h].cur \in {heal[h].cur, {}}
    <2>1. ASSUME NEW h \in Healers, NEW found, heal[h].pc = "idle",
                 heal' = [heal EXCEPT ![h] = [NoHeal EXCEPT !.pc = "next", !.todo = found]]
          PROVE  <1>2
      <3>1. heal'[h].cur = {} /\ heal[h].pc # "replant"
        BY <1>0, <2>1 DEF NoHeal
      <3>2. \A g \in Healers : g # h => heal'[g] = heal[g]
        BY <1>0, <2>1
      <3> QED
        BY <3>1, <3>2
    <2> QED
      BY <1>1, <2>1
  <1>3. UNCHANGED << row, ref, on, bootVars, due, recVars, loose, misnamed >>
    BY DEF ScanStep, ScanStart, FastAnswered, ListAnswered, DeepAnswered, scanFrame,
       configVars
  <1>4. OneResult'
    BY <1>2 DEF GuardInv, OneResult
  <1> QED
    BY <1>2, <1>3, <1>4, QuietGuards DEF GuardInv

\* What a healer leaves of a result.
LEMMA HealOnGuards ==
  ASSUME TypeOK, GuardInv, NEW h \in Healers, NEW x, NEW p, NEW list, NEW cur \in SUBSET {x},
         HealOn(h, x, p, cur, list)
  PROVE  /\ OneResult'
         /\ heal'[h].pc = p /\ heal'[h].cur = cur
         /\ \A g \in Healers : g # h => heal'[g] = heal[g]
  <1>0. heal \in [Healers -> HealStates]
    BY DEF TypeOK, HealStates
  <1>1. heal'[h].pc = p /\ heal'[h].cur = cur
    BY <1>0 DEF HealOn
  <1>2. \A g \in Healers : g # h => heal'[g] = heal[g]
    BY <1>0 DEF HealOn
  <1>3. OneResult'
    BY <1>1, <1>2 DEF GuardInv, OneResult
  <1> QED
    BY <1>1, <1>2, <1>3

\* A rename leaves the references that follow it with the row, and the others
\* with what they had.
LEMMA RenameGuards ==
  ASSUME TypeOK, TypeOK', AloneInv, GuardInv, NEW x \in Results, x.to # NoFolder, Rename(x),
         UNCHANGED << bootVars, due, recVars >>,
         \A h \in Healers : heal[h].pc = "replant" => heal'[h] = heal[h]
  PROVE  AllCovered' /\ DropsFine'
  <1>1. CASE Paths \subseteq loose'
    BY <1>1, ExcusedKeeps DEF Excused
  <1>2. CASE ~(Paths \subseteq loose')
    <2>1. /\ row' = [row EXCEPT ![x.id] = IF @ = NoFolder THEN @ ELSE x.to]
          /\ ~SomeBusy /\ row[x.id] = x.from
          /\ loose \subseteq loose' /\ misnamed \subseteq misnamed'
      BY <1>2 DEF Rename
    <2>2. x.id \in Ids /\ x.from \in Paths /\ x.from # NoFolder
      BY PathFacts DEF Results
    <2>3. row'[x.id] = x.to /\ \A i \in Ids : i # x.id => row'[i] = row[i]
      BY <2>1, <2>2 DEF TypeOK
    <2>4. \A r \in Calls : plant[r] = {} /\ drop[r] = {} /\ deleting[r] = {}
      BY <2>1 DEF SomeBusy, Busy
    <2>5. DropsFine'
      BY <2>4 DEF DropsFine, recVars
    <2>6. ASSUME Watching', NEW f \in Tracked' PROVE Covered(f)'
      <3>1. PICK y \in on : f = ref'[y] /\ y \in Refs
        BY <2>6 DEF Tracked, Rename, TypeOK
      <3>2. CASE ref[y] = x.from
        <4>1. f = NewPath(y, x.to)
          BY <3>1, <3>2 DEF Rename
        <4>2. f \in misnamed' \/ f = x.to
          <5>1. CASE f # x.to
            <6>1. y \in Strays(x)
              BY <3>1, <3>2, <4>1, <5>1 DEF Strays, NewPath, Rename
            <6> QED
              BY <4>1, <6>1 DEF Rename
          <5> QED
            BY <5>1
        <4> QED
          BY <2>1, <2>2, <2>3, <4>2 DEF Covered
      <3>3. CASE ref[y] # x.from
        <4>1. f = ref[y] /\ f \in Tracked
          BY <3>1, <3>3 DEF Rename, Tracked
        <4>2. Covered(f)
          BY <2>6, <4>1 DEF GuardInv, AllCovered, Watching, bootVars
        <4>3. Replanting(f) => Replanting(f)'
          BY DEF Replanting
        <4>4. ASSUME NEW i \in Ids, row[i] = f PROVE row'[i] = f
          BY <2>1, <2>3, <3>3, <4>1, <4>4
        <4> QED
          BY <2>1, <2>4, <4>2, <4>3, <4>4 DEF Covered
      <3> QED
        BY <3>2, <3>3
    <2> QED
      BY <2>5, <2>6 DEF AllCovered
  <1> QED
    BY <1>1, <1>2

\* What was not found is to be replanted, or no rule in use names it any more.
LEMMA NotFoundGuards ==
  ASSUME TypeOK, TypeOK', AloneInv, GuardInv, NEW h \in Healers, NEW x \in Results,
         NEW list, NotFound(h, x, list), Missed(x.id), heal[h].pc # "replant",
         UNCHANGED << ref, bootVars, due, recVars, misnamed >>
  PROVE  GuardInv'
  <1>1. CASE /\ row[x.id] = NoFolder
             /\ HealOn(h, x, "next", {}, list)
             /\ UNCHANGED << row, on, saved, loose, faults >>
    BY <1>1, HealOnGuards, QuietGuards DEF GuardInv
  <1>2. CASE /\ row' = [row EXCEPT ![x.id] = NoFolder]
             /\ HealOn(h, x, "replant", {x}, list)
             /\ loose' = (IF row[x.id] = x.from THEN loose ELSE Paths)
             /\ UNCHANGED << on, saved, faults >>
    <2>1. /\ OneResult' /\ heal'[h].pc = "replant" /\ heal'[h].cur = {x}
          /\ \A g \in Healers : g # h => heal'[g] = heal[g]
      BY <1>2, HealOnGuards
    <2>2. CASE row[x.id] # x.from
      BY <1>2, <2>1, <2>2, ExcusedKeeps DEF Excused, GuardInv
    <2>3. CASE row[x.id] = x.from
      <3>1. \A i \in Ids : row'[i] = row[i] \/ (i = x.id /\ row'[i] = NoFolder)
        BY <1>2 DEF TypeOK
      <3>2. Replanting(x.from)'
        BY <2>1 DEF Replanting
      <3>3. \A f : Replanting(f) => Replanting(f)'
        BY <2>1 DEF Replanting
      <3>4. ASSUME NEW f \in Tracked, Covered(f) PROVE Covered(f)'
        <4>1. CASE f = x.from
          BY <3>2, <4>1 DEF Covered
        <4>2. CASE f # x.from
          BY <1>2, <2>3, <3>1, <3>3, <3>4, <4>2 DEF Covered, recVars
        <4> QED
          BY <4>1, <4>2
      <3>5. Steady
        BY <1>2, <2>3, <3>1, <3>4 DEF Steady, Watching, Tracked, bootVars, recVars
      <3> QED
        BY <2>1, <3>5, SteadyKeeps DEF GuardInv
    <2> QED
      BY <2>2, <2>3
  <1>3. CASE /\ on' = on \ {y \in Rules : ref[y] = x.from}
             /\ \/ HealOn(h, x, "notify", {x}, list)
                \/ HealOn(h, x, "next", {}, list)
             /\ UNCHANGED << row, loose >>
    <2>1. OneResult' /\ \A g \in Healers : g # h => heal'[g] = heal[g]
      BY <1>3, HealOnGuards
    <2>2. Tracked' \subseteq Tracked
      BY <1>3 DEF Tracked
    <2>3. \A f : Covered(f) => Covered(f)'
      BY <1>3, <2>1 DEF Covered, Replanting, recVars
    <2>4. Steady
      BY <1>3, <2>2, <2>3 DEF Steady, Watching, bootVars, recVars
    <2> QED
      BY <2>1, <2>4, SteadyKeeps DEF GuardInv
  <1> QED
    BY <1>1, <1>2, <1>3 DEF NotFound

LEMMA HealStepGuards ==
  ASSUME TypeOK, TypeOK', AloneInv, GuardInv, NEW h \in Healers, HealStep(h)
  PROVE  GuardInv'
  <1>0. heal \in [Healers -> HealStates] /\ heal[h] \in HealStates
    BY DEF TypeOK, HealStates
  <1>1. \A x \in heal[h].todo \cup heal[h].cur : x \in Results /\ Missed(x.id)
    BY <1>0 DEF HealStates, AloneInv, HealFine
  <1>2. CASE HealNext(h)
    <2>0. heal[h].pc # "replant" /\ UNCHANGED << bootVars, due, recVars >>
      BY <1>2 DEF HealNext, healFrame
    <2>1. CASE /\ heal' = [heal EXCEPT ![h] = NoHeal]
               /\ UNCHANGED << row, configVars, loose, misnamed, faults >>
      <3>1. heal'[h].cur = {} /\ \A g \in Healers : g # h => heal'[g] = heal[g]
        BY <1>0, <2>1 DEF NoHeal
      <3>2. OneResult'
        BY <3>1 DEF GuardInv, OneResult
      <3> QED
        BY <2>0, <2>1, <3>1, <3>2, QuietGuards DEF GuardInv, configVars
    <2>2. ASSUME NEW x \in heal[h].todo, x.to # NoFolder, Rename(x),
                 HealOn(h, x, "next", {}, heal[h].list)
          PROVE  GuardInv'
      <3>1. OneResult' /\ \A g \in Healers : g # h => heal'[g] = heal[g]
        BY <2>2, HealOnGuards
      <3> QED
        BY <1>1, <2>0, <2>2, <3>1, RenameGuards DEF GuardInv
    <2>3. ASSUME NEW x \in heal[h].todo, HealOn(h, x, "list", {x}, {}),
                 UNCHANGED << row, configVars, loose, misnamed, faults >>
          PROVE  GuardInv'
      <3>1. OneResult' /\ \A g \in Healers : g # h => heal'[g] = heal[g]
        BY <2>3, HealOnGuards
      <3> QED
        BY <2>0, <2>3, <3>1, QuietGuards DEF GuardInv, configVars
    <2>4. ASSUME NEW x \in heal[h].todo, NotFound(h, x, heal[h].list),
                 UNCHANGED << ref, misnamed >>
          PROVE  GuardInv'
      BY <1>1, <2>0, <2>4, NotFoundGuards
    <2> QED
      BY <1>2, <2>1, <2>2, <2>3, <2>4 DEF HealNext
  <1>3. ASSUME NEW x \in heal[h].cur, HealListed(h, x) PROVE GuardInv'
    <2>1. heal[h].pc # "replant" /\ UNCHANGED << ref, bootVars, due, recVars, misnamed >>
      BY <1>3 DEF HealListed, healFrame
    <2>2. CASE NotFound(h, x, folders \cup {INBOX})
      BY <1>1, <1>3, <2>1, <2>2, NotFoundGuards
    <2>3. CASE /\ HealOn(h, x, "next", {}, {})
               /\ UNCHANGED << row, on, saved, loose >>
      <3>1. OneResult' /\ \A g \in Healers : g # h => heal'[g] = heal[g]
        BY <2>3, HealOnGuards
      <3> QED
        BY <2>1, <2>3, <3>1, QuietGuards DEF GuardInv
    <2> QED
      BY <1>3, <2>2, <2>3 DEF HealListed
  <1>4. ASSUME NEW x \in heal[h].cur, Replanted(h, x) PROVE GuardInv'
    <2>1. x.from \in Paths /\ \A y \in heal[h].cur : y = x
      BY <1>1, <1>4 DEF Results, GuardInv, OneResult
    <2>2. OneResult' /\ \A g \in Healers : g # h => heal'[g] = heal[g]
      BY <1>4, HealOnGuards DEF Replanted
    <2>3. /\ loose \subseteq loose' /\ UNCHANGED misnamed
          /\ x.from \in loose' \/ \E i \in Ids : row'[i] = x.from
          /\ \A i \in Ids : Born(i) => row'[i] = row[i]
          /\ \A g \in Paths : (\E i \in Ids : row[i] = g) => \E i \in Ids : row'[i] = g
      BY <1>4, <2>1, AppendGuards DEF Replanted
    <2>4. \A f : f # x.from => (Replanting(f) => Replanting(f)')
      BY <2>1, <2>2 DEF Replanting
    <2>5. ASSUME NEW f \in Tracked, Covered(f) PROVE Covered(f)'
      BY <1>4, <2>3, <2>4, <2>5, TrackedPaths DEF Covered, Replanted, healFrame, recVars
    <2>6. Steady
      BY <1>4, <2>3, <2>5 DEF Steady, Watching, Tracked, Replanted, healFrame, configVars,
         bootVars, recVars
    <2> QED
      BY <2>2, <2>6, SteadyKeeps DEF GuardInv
  <1>5. ASSUME NEW x \in heal[h].cur, Notified(h, x) PROVE GuardInv'
    <2>1. OneResult' /\ \A g \in Healers : g # h => heal'[g] = heal[g]
      BY <1>5, HealOnGuards DEF Notified
    <2>2. x.id \in Ids /\ heal[h].pc # "replant"
      BY <1>1, <1>5 DEF Notified, Results
    <2>3. \A i \in Ids : \/ row'[i] = row[i]
                         \/ row'[i] = NoFolder /\ {row[i]} \cap Paths \subseteq loose'
      BY <1>5, <2>2 DEF Notified, TypeOK
    <2>4. \A f : Replanting(f) => Replanting(f)'
      BY <2>1, <2>2 DEF Replanting
    <2>5. ASSUME NEW f \in Tracked, Covered(f) PROVE Covered(f)'
      BY <1>5, <2>3, <2>4, <2>5, TrackedPaths DEF Covered, Notified, healFrame, recVars
    <2>6. Steady
      BY <1>5, <2>3, <2>5 DEF Steady, Watching, Tracked, Notified, healFrame, configVars,
         bootVars, recVars
    <2> QED
      BY <2>1, <2>6, SteadyKeeps DEF GuardInv
  <1> QED
    BY <1>2, <1>3, <1>4, <1>5 DEF HealStep

LEMMA UserGuards ==
  ASSUME TypeOK, AloneInv, GuardInv,
         \/ \E i \in Ids : \E to \in Folders \cup {INBOX, Gone} : MoveSentinel(i, to)
         \/ \E f \in Folders : MakeFolder(f) \/ \E to \in Folders \cup {Gone} : RenameFolder(f, to)
  PROVE  GuardInv'
  <1>1. UNCHANGED << row, ref, on, bootVars, due, recVars, loose, misnamed, heal >>
    BY DEF MoveSentinel, MakeFolder, RenameFolder, configVars, historyVars
  <1> QED
    BY <1>1, QuietGuards DEF GuardInv, OneResult

\* main() starts to watch only with a reconciliation.
LEMMA MainGuards ==
  ASSUME TypeOK, TypeOK', AloneInv, GuardInv, SelfTest \/ MainReconcile \/ Restart
  PROVE  GuardInv'
  <1>1. CASE SelfTest
    <2>1. ~Watching' \/ ~enabled'
      BY <1>1 DEF SelfTest, Watching
    <2>2. AllCovered'
      BY <2>1 DEF AllCovered, Watching
    <2>3. DropsFine' /\ OneResult'
      BY <1>1 DEF SelfTest, GuardInv, DropsFine, OneResult, Excused, DropFine, Tracked,
         configVars, recVars, historyVars
    <2> QED
      BY <2>2, <2>3 DEF GuardInv
  <1>2. CASE MainReconcile
    <2>1. AllCovered' /\ DropsFine'
      BY <1>2, ReconcileGuards DEF MainReconcile, Calls
    <2> QED
      BY <1>2, <2>1 DEF MainReconcile, GuardInv, OneResult
  <1>3. CASE Restart
    BY <1>3 DEF Restart, GuardInv, AllCovered, Watching, DropsFine, OneResult, NoHeal
  <1> QED
    BY <1>1, <1>2, <1>3

\* An edit is followed by a reconciliation, at once or when its listener has
\* its answer, or else every folder is excused.
LEMMA EditGuards ==
  ASSUME TypeOK, TypeOK', AloneInv, GuardInv, NEW f, NEW x, NEW which,
         EditRule(x, f) \/ EditSettings(x, f, which) \/ Listener(which)
  PROVE  GuardInv'
  <1>0. OneResult'
    BY DEF GuardInv, OneResult, EditRule, EditSettings, Listener
  <1>1. UNCHANGED row
    BY DEF EditRule, EditSettings, Listener
  <1>2. \/ Excused'
        \/ \E r \in Calls : Reconcile(r)
    BY DEF EditRule, EditSettings, Listener, Excused, Calls
  <1> QED
    BY <1>0, <1>1, <1>2, ExcusedKeeps, ReconcileGuards DEF GuardInv

LEMMA InitGuards == Init => GuardInv
  BY DEF Init, GuardInv, AllCovered, Watching, DropsFine, OneResult, NoHeal

LEMMA GuardStep ==
  ASSUME TypeOK, TypeOK', AloneInv, GuardInv, [Next]_vars
  PROVE  GuardInv'
  <1>1. CASE UNCHANGED vars
    <2>1. UNCHANGED << row, ref, on, bootVars, due, recVars, loose, misnamed, heal >>
      BY <1>1 DEF vars, configVars, historyVars
    <2> QED
      BY <2>1, QuietGuards DEF GuardInv, OneResult
  <1>2. CASE Next
    BY <1>2, UserGuards, RecStepGuards, MainGuards, EditGuards, ScanStepGuards,
       HealStepGuards DEF Next
  <1> QED
    BY <1>1, <1>2

\* Once every reconciliation has ended, each folder the configuration names has
\* its row or one of the excuses that Guarded names, whatever edits, renames, replantings and crashes there
\* were.
THEOREM GuardedAlways == Spec => []Guarded
  <1>1. TypeOK /\ TypeOK' /\ AloneInv /\ GuardInv /\ [Next]_vars => GuardInv'
    BY GuardStep
  <1>2. TypeOK /\ GuardInv => Guarded
    <2> SUFFICES ASSUME TypeOK, GuardInv, enabled, phase = "up", ~SomeBusy, due = {},
                        \A h \in Healers : heal[h].pc # "replant",
                        NEW f \in Tracked
                 PROVE  f \in loose \cup misnamed \/ f \in {row[i] : i \in Rows}
      BY DEF Guarded
    <2>1. Covered(f) /\ f # NoFolder
      BY TrackedPaths DEF GuardInv, AllCovered, Watching
    <2> QED
      BY <2>1 DEF Covered, Replanting, SomeBusy, Busy, Rows
  <1> QED
    BY <1>1, <1>2, InitGuards, TypeCorrect, AloneAlways, PTL DEF Spec

=============================================================================
