--------------------------- MODULE Filing_proofs ---------------------------
(***************************************************************************)
(* Proofs about Filing, for any messages, sweepers, engines and settings,  *)
(* any size of a chunk and any number of changes, mishaps and runs.        *)
(***************************************************************************)
EXTENDS Filing, FiniteSetTheorems, TLAPS

\* Where an instance is in its chunk: an engine begins the next one before it
\* takes more than Chunk messages, unless it has nothing left or is to stop.
ChunkInv ==
  \A i \in Instances :
    /\ i \in Sweepers => inChunk[i] = 0
    /\ pc[i] \in {"idle", "fetching", "previewing", "cut", "yielding"} => inChunk[i] = 0
    /\ pc[i] = "next" => inChunk[i] < Chunk \/ todo[i] = {} \/ SeesCancel(i)

\* There is a message in hand when one is moved or settled.
CurInv ==
  \A i \in Instances : pc[i] \in Moving \cup {"settling"} => cur[i] \in Messages

TypeInv == TypeOK /\ ChunkInv /\ CurInv

-----------------------------------------------------------------------------
(* Type correctness.                                                       *)

\* An instance is a sweeper or an engine, and never both.
LEMMA InstancesSplit ==
  /\ \A i \in Sweepers : i \in Instances /\ i \notin Engines
  /\ \A i \in Engines : i \in Instances /\ i \notin Sweepers
  /\ \A i \in Instances : i \in Sweepers \/ i \in Engines
  BY NameAssumption DEF Instances

LEMMA ZeroType == Zero \in Counts /\ Chunk \in Nat /\ 0 \in 0 .. Chunk /\ 1 <= Chunk
  BY BoundAssumption DEF Zero, Counts

\* The fields of a run and of the states, that most steps change.
RunTypes ==
  /\ pc \in [Instances -> Phases] /\ source \in [Instances -> Sources]
  /\ began \in [Instances -> 0 .. MaxDay]
  /\ todo \in [Instances -> SUBSET Messages] /\ read \in [Instances -> SUBSET Messages]
  /\ inChunk \in [Instances -> 0 .. Chunk]
  /\ cur \in [Instances -> Messages \cup {NoMessage}]
  /\ goal \in [Instances -> Folders]
  /\ result \in [Instances -> {"moved", "failed", "skipped"}]

RowTypes ==
  /\ count \in [Instances -> Counts]
  /\ good \in [Instances -> SUBSET Messages]
  /\ bad \in [Instances -> SUBSET Messages]
  /\ done \in [Instances -> SUBSET Messages]
  /\ unlogged \subseteq Instances

Statuses == {"idle", "dry-running", "previewing", "executing", "completed", "cancelled", "error"}
StateTypes ==
  /\ status \in [Engines -> Statuses]
  /\ cancel \in [Engines -> BOOLEAN]

MailTypes ==
  /\ where \in [Messages -> Folders]
  /\ sentinels \subseteq Messages /\ seen \subseteq Messages
  /\ now \in 0 .. MaxDay
  /\ there \in BOOLEAN /\ up \in BOOLEAN

RootTypes ==
  /\ rules \in Verdicts /\ settings \in Settings
  /\ armed \subseteq Sweepers /\ starting \in BOOLEAN
  /\ listed \in BOOLEAN /\ listing \in Nat
  /\ sweeper \in Sweepers \cup {NoSweeper} /\ engine \in Engines
  /\ cfg \in [Instances -> Settings]

HistoryTypes ==
  /\ promised \in [Engines -> Promises]
  /\ unbuilt \in BOOLEAN /\ excused \subseteq Messages /\ stopped \subseteq Engines
  /\ mishaps \in 0 .. MaxMishaps /\ changes \in 0 .. MaxChanges
  /\ runs \in 0 .. MaxRuns

LEMMA TypesSplit ==
  TypeOK => MailTypes /\ RootTypes /\ RunTypes /\ StateTypes /\ RowTypes /\ HistoryTypes
  BY DEF TypeOK, MailTypes, RootTypes, RunTypes, StateTypes, RowTypes, HistoryTypes, Statuses

\* And after a step, put together again.
LEMMA TypesJoin ==
  ASSUME MailTypes', RootTypes', RunTypes', StateTypes', RowTypes', HistoryTypes'
  PROVE  TypeOK'
  BY DEF TypeOK, MailTypes, RootTypes, RunTypes, StateTypes, RowTypes, HistoryTypes, Statuses

\* The phases, spelled out.
LEMMA PhasesAre ==
  Phases = {"idle", "cut", "next", "settling", "yielding", "fetching", "previewing",
            "moving", "creating", "retrying"}
  BY DEF Phases, InFlight, Moving

\* What a run leaves behind when it ends.
LEMMA EndsType ==
  ASSUME TypeInv, NEW i \in Instances, Ends(i), UNCHANGED cancel
  PROVE  /\ RunTypes' /\ excused' \subseteq Messages /\ stopped' \subseteq Engines
         /\ ChunkInv' /\ CurInv'
  <1>1. RunTypes'
    BY ZeroType, PhasesAre, BoundAssumption DEF Ends, TypeInv, TypeOK, RunTypes, Sources,
       Folders
  <1>2. excused' \subseteq Messages /\ stopped' \subseteq Engines
    BY DEF Ends, TypeInv, TypeOK
  <1>3. ChunkInv' /\ CurInv'
    BY DEF Ends, TypeInv, TypeOK, ChunkInv, CurInv, Moving, SeesCancel
  <1> QED
    BY <1>1, <1>2, <1>3

\* And with the state of an engine.
LEMMA EndsAsType ==
  ASSUME TypeInv, NEW i \in Instances, NEW s \in Statuses, EndsAs(i, s), UNCHANGED cancel
  PROVE  /\ RunTypes' /\ StateTypes' /\ excused' \subseteq Messages /\ stopped' \subseteq Engines
         /\ ChunkInv' /\ CurInv'
  <1>1. StateTypes'
    BY DEF EndsAs, TypeInv, TypeOK, StateTypes, Statuses
  <1> QED
    BY <1>1, EndsType DEF EndsAs

\* Counters and rows at zero.
LEMMA FreshType ==
  ASSUME TypeInv, NEW i \in Instances, Fresh(i)
  PROVE  RowTypes'
  BY ZeroType DEF Fresh, TypeInv, TypeOK, RowTypes

LEMMA KeepsStateType ==
  ASSUME TypeInv, NEW i \in Instances, KeepsState(i)
  PROVE  RowTypes'
  BY FreshType DEF KeepsState, TypeInv, TypeOK, RowTypes, rowVars

\* The next message or the next chunk.
LEMMA GoesOnType ==
  ASSUME TypeInv, NEW i \in Instances, NEW n \in 0 .. Chunk, NEW rest \in SUBSET Messages,
         i \in Sweepers => n = 0,
         GoesOn(i, n, rest), todo' = [todo EXCEPT ![i] = rest], UNCHANGED cancel,
         cur' \in [Instances -> Messages \cup {NoMessage}],
         \A j \in Instances : j # i => cur'[j] = cur[j]
  PROVE  /\ pc' \in [Instances -> Phases]
         /\ inChunk' \in [Instances -> 0 .. Chunk]
         /\ todo' \in [Instances -> SUBSET Messages]
         /\ ChunkInv' /\ CurInv'
  <1>1. /\ pc' \in [Instances -> Phases]
        /\ inChunk' \in [Instances -> 0 .. Chunk]
        /\ todo' \in [Instances -> SUBSET Messages]
    BY PhasesAre, ZeroType DEF GoesOn, TypeInv, TypeOK
  <1>2. /\ pc'[i] \in {"next", "yielding"}
        /\ \A j \in Instances : j # i => pc'[j] = pc[j] /\ inChunk'[j] = inChunk[j]
                                         /\ todo'[j] = todo[j]
    BY DEF GoesOn, TypeInv, TypeOK
  <1>3. ChunkInv'
    <2>1. /\ i \in Sweepers => inChunk'[i] = 0
          /\ pc'[i] = "yielding" => inChunk'[i] = 0
          /\ pc'[i] = "next" => inChunk'[i] < Chunk \/ todo'[i] = {} \/ SeesCancel(i)
      BY InstancesSplit, ZeroType DEF GoesOn, TypeInv, TypeOK, SeesCancel
    <2> QED
      BY <1>2, <2>1 DEF ChunkInv, TypeInv, SeesCancel
  <1>4. CurInv'
    BY <1>2 DEF CurInv, TypeInv, Moving
  <1> QED
    BY <1>1, <1>3, <1>4

-----------------------------------------------------------------------------
\* The user, the rest of the program, and time.
LEMMA OthersType ==
  ASSUME TypeInv, Others
  PROVE  TypeInv'
  <1> USE BoundAssumption DEF TypeInv, TypeOK, ChunkInv, CurInv, SeesCancel,
        mailVars, rootVars, sweepVars, runVars, stateVars, rowVars, historyVars
  <1>0. [e \in Engines |-> NoPromise] \in [Engines -> Promises]
    BY DEF NoPromise, Promises, Folders
  <1>1. ASSUME NEW m \in Messages, UserMoves(m) PROVE TypeInv'
    BY <1>0, <1>1 DEF UserMoves, AllVoid, Folders
  <1>2. ASSUME NEW m \in Messages, ForReview(m) PROVE TypeInv'
    BY <1>0, <1>2, SettingsAssumption DEF ForReview, AllVoid, Folders, Sources
  <1>3. ASSUME NEW m \in Messages, Marks(m) PROVE TypeInv'
    BY <1>0, <1>3 DEF Marks, AllVoid
  <1>4. CASE Day
    BY <1>0, <1>4 DEF Day, AllVoid
  <1>5. CASE RulesChange
    BY <1>0, <1>5 DEF RulesChange, AllVoid
  <1>6. CASE PutReview
    BY <1>0, <1>6 DEF PutReview, AllVoid
  <1> QED
    BY <1>1, <1>2, <1>3, <1>4, <1>5, <1>6 DEF Others

\* A new sweeper and a new engine.
LEMMA BuiltType ==
  ASSUME TypeInv, Rebuilt \/ PutReviewListed
  PROVE  TypeInv'
  <1>1. PICK s \in Sweepers, e \in Engines :
       /\ ~Running(s) /\ ~Running(e)
       /\ sweeper' = s /\ engine' = e
       /\ armed' \subseteq armed \cup {s}
       /\ cfg' = [cfg EXCEPT ![s] = settings', ![e] = settings']
       /\ status' = [status EXCEPT ![e] = "idle"]
       /\ cancel' = [cancel EXCEPT ![e] = FALSE]
       /\ count' = [count EXCEPT ![s] = Zero, ![e] = Zero]
       /\ good' = [good EXCEPT ![s] = {}, ![e] = {}]
       /\ bad' = [bad EXCEPT ![s] = {}, ![e] = {}]
       /\ done' = [done EXCEPT ![s] = {}, ![e] = {}]
       /\ unlogged' = unlogged \ {s, e}
    BY DEF Rebuilt, PutReviewListed, Builds
  <1>2. /\ AllVoid
        /\ settings' \in Settings /\ listing' \in Nat /\ listed' \in BOOLEAN
        /\ unbuilt' = FALSE /\ changes' \in 0 .. MaxChanges
        /\ UNCHANGED << mailVars, up, rules, starting, runVars, excused, stopped, mishaps,
                        runs >>
    <2> USE BoundAssumption DEF TypeInv, TypeOK
    <2>1. CASE Rebuilt
      BY <2>1 DEF Rebuilt
    <2>2. CASE PutReviewListed
      BY <2>2 DEF PutReviewListed
    <2> QED
      BY <2>1, <2>2
  <1>3. [x \in Engines |-> NoPromise] \in [Engines -> Promises]
    BY DEF NoPromise, Promises, Folders
  <1>4. TypeOK'
    <2>1. s \in Instances /\ e \in Instances
      BY InstancesSplit
    <2>2. RowTypes'
      BY <1>1, <2>1, ZeroType DEF RowTypes, TypeInv, TypeOK
    <2>3. RootTypes' /\ StateTypes'
      BY <1>1, <1>2, <2>1 DEF RootTypes, StateTypes, Statuses, TypeInv, TypeOK
    <2>4. MailTypes' /\ RunTypes'
      BY <1>2, TypesSplit DEF TypeInv, MailTypes, RunTypes, mailVars, runVars
    <2>5. HistoryTypes'
      BY <1>2, <1>3, TypesSplit DEF TypeInv, HistoryTypes, AllVoid
    <2> QED
      BY <2>2, <2>3, <2>4, <2>5, TypesJoin
  <1>5. ChunkInv' /\ CurInv'
    BY <1>1, <1>2, InstancesSplit DEF TypeInv, TypeOK, ChunkInv, CurInv, SeesCancel, runVars,
       Running
  <1> QED
    BY <1>4, <1>5 DEF TypeInv

\* The sweeper of main().
LEMMA MainType ==
  ASSUME TypeInv, MainSweeper
  PROVE  TypeInv'
  <1>1. PICK s \in Sweepers :
       /\ ~Running(s)
       /\ sweeper' = s
       /\ armed' = armed \cup {s}
       /\ cfg' = [cfg EXCEPT ![s] = settings]
       /\ count' = [count EXCEPT ![s] = Zero]
       /\ good' = [good EXCEPT ![s] = {}]
       /\ bad' = [bad EXCEPT ![s] = {}]
       /\ done' = [done EXCEPT ![s] = {}]
       /\ unlogged' = unlogged \ {s}
    BY DEF MainSweeper
  <1>2. /\ starting' = FALSE
        /\ UNCHANGED << mailVars, up, rules, settings, engine, listed, listing, runVars, status,
                        cancel, historyVars >>
    BY DEF MainSweeper
  <1>3. s \in Instances
    BY InstancesSplit
  <1>4. RowTypes' /\ RootTypes'
    BY <1>1, <1>2, <1>3, ZeroType DEF RowTypes, RootTypes, TypeInv, TypeOK
  <1>5. MailTypes' /\ RunTypes' /\ StateTypes' /\ HistoryTypes'
    BY <1>2, TypesSplit DEF TypeInv, MailTypes, RunTypes, StateTypes, HistoryTypes, mailVars,
       runVars, historyVars
  <1>6. ChunkInv' /\ CurInv'
    BY <1>2 DEF TypeInv, ChunkInv, CurInv, SeesCancel, runVars
  <1> QED
    BY <1>4, <1>5, <1>6, TypesJoin DEF TypeInv

\* The timer and the routes.
LEMMA RequestsType ==
  ASSUME TypeInv, Requests
  PROVE  TypeInv'
  <1> USE BoundAssumption, InstancesSplit, PhasesAre DEF TypeInv, mailVars, rootVars,
     sweepVars, runVars,
        stateVars, rowVars, historyVars
  <1>0. NoPromise \in Promises
    BY DEF NoPromise, Promises, Folders
  <1>1. ASSUME NEW s \in Sweepers, SweepFires(s) PROVE TypeInv'
    <2>1. s \in Sweepers /\ s \in Instances
      OBVIOUS
    <2>2. cfg[s].folder \in Sources
      BY <2>1, SettingsAssumption DEF TypeOK, Sources
    <2>3. RowTypes'
      BY <1>1, <2>1, FreshType DEF SweepFires
    <2>4. TypeOK'
      <3>1. RunTypes'
        BY <1>1, <2>1, <2>2 DEF SweepFires, TypeOK, RunTypes
      <3>2. MailTypes' /\ RootTypes' /\ StateTypes' /\ HistoryTypes'
        BY <1>1, TypesSplit DEF SweepFires, MailTypes, RootTypes, StateTypes, HistoryTypes
      <3> QED
        BY <2>3, <3>1, <3>2, TypesJoin
    <2>5. ChunkInv' /\ CurInv'
      BY <1>1, <2>1 DEF SweepFires, TypeOK, ChunkInv, CurInv, SeesCancel, Moving, Running
    <2> QED
      BY <2>4, <2>5
  <1>2. ASSUME NEW folder \in Sources, Execute(folder) PROVE TypeInv'
    <2>1. engine \in Engines
      BY DEF TypeOK
    <2>2. RowTypes'
      BY <1>2, <2>1, FreshType DEF Execute
    <2>3. promised' \in [Engines -> Promises]
      BY <1>0, <1>2, <2>1 DEF Execute, TypeOK
    <2>4. TypeOK'
      <3>1. RunTypes' /\ StateTypes'
        <4>1. CASE up
          BY <1>2, <2>1, <4>1, TypesSplit DEF Execute, RunTypes, StateTypes, Statuses
        <4>2. CASE ~up
          BY <1>2, <2>1, <4>2, TypesSplit DEF Execute, RunTypes, StateTypes, Statuses
        <4> QED
          BY <4>1, <4>2
      <3>2. MailTypes' /\ RootTypes' /\ HistoryTypes'
        BY <1>2, <2>3, TypesSplit DEF Execute, MailTypes, RootTypes, HistoryTypes
      <3> QED
        BY <2>2, <3>1, <3>2, TypesJoin
    <2>5. ChunkInv' /\ CurInv'
      BY <1>2, <2>1 DEF Execute, TypeOK, ChunkInv, CurInv, SeesCancel, Moving, Running
    <2> QED
      BY <2>4, <2>5
  <1>3. ASSUME NEW folder \in Sources, DryRun(folder) PROVE TypeInv'
    <2>1. engine \in Engines
      BY DEF TypeOK
    <2>2. TypeOK'
      <3>1. RunTypes' /\ StateTypes'
        <4>1. CASE up
          BY <1>3, <2>1, <4>1, TypesSplit DEF DryRun, RunTypes, StateTypes, Statuses
        <4>2. CASE ~up
          BY <1>3, <2>1, <4>2, TypesSplit DEF DryRun, RunTypes, StateTypes, Statuses
        <4> QED
          BY <4>1, <4>2
      <3>2. promised' \in [Engines -> Promises]
        BY <1>0, <1>3, <2>1 DEF DryRun, TypeOK
      <3>3. MailTypes' /\ RootTypes' /\ RowTypes' /\ HistoryTypes'
        BY <1>3, <3>2, TypesSplit DEF DryRun, MailTypes, RootTypes, RowTypes, HistoryTypes
      <3> QED
        BY <3>1, <3>3, TypesJoin
    <2>3. ChunkInv' /\ CurInv'
      BY <1>3, <2>1 DEF DryRun, TypeOK, ChunkInv, CurInv, SeesCancel, Moving, Running
    <2> QED
      BY <2>2, <2>3
  <1>4. CASE Cancel
    <2>1. engine \in Engines
      BY DEF TypeOK
    <2> QED
      BY <1>4, <2>1 DEF Cancel, TypeOK, ChunkInv, CurInv, SeesCancel
  <1> QED
    BY <1>1, <1>2, <1>3, <1>4 DEF Requests

\* A fetch that is answered, for a run or for a preview, or fails.
LEMMA FetchedType ==
  ASSUME TypeInv, NEW i \in Instances,
         FetchAnswered(i) \/ FetchFails(i) \/ (i \in Engines /\ PreviewAnswered(i))
  PROVE  TypeInv'
  <1> USE BoundAssumption, InstancesSplit, PhasesAre DEF mailVars, rootVars, sweepVars, runVars,
        stateVars, rowVars, historyVars
  <1>1. CASE FetchAnswered(i)
    <2>1. {m \in Messages : where[m] = source[i]} \in SUBSET Messages
      OBVIOUS
    <2>2. TypeOK'
      BY <1>1, <2>1 DEF FetchAnswered, TypeInv, TypeOK
    <2>3. ChunkInv' /\ CurInv'
      BY <1>1 DEF FetchAnswered, TypeInv, TypeOK, ChunkInv, CurInv, SeesCancel, Moving
    <2> QED
      BY <2>2, <2>3 DEF TypeInv
  <1>2. CASE FetchFails(i)
    <2>1. RunTypes' /\ StateTypes' /\ excused' \subseteq Messages /\ stopped' \subseteq Engines
          /\ ChunkInv' /\ CurInv'
      BY <1>2, EndsAsType DEF FetchFails, Statuses
    <2>2. RowTypes'
      BY <1>2, KeepsStateType DEF FetchFails
    <2> QED
      BY <1>2, <2>1, <2>2, TypesSplit, TypesJoin DEF FetchFails, TypeInv, MailTypes, RootTypes,
         HistoryTypes
  <1>3. CASE i \in Engines /\ PreviewAnswered(i)
    <2>1. RunTypes' /\ StateTypes' /\ excused' \subseteq Messages /\ stopped' \subseteq Engines
          /\ ChunkInv' /\ CurInv'
      BY <1>3, EndsAsType DEF PreviewAnswered, Statuses
    <2>2. ASSUME NEW verdict PROVE
          [source |-> source[i],
           messages |-> Previewed(i, {m \in Messages : where[m] = source[i]}, verdict)] \in Promises
      BY DEF Promises, Previewed, TypeInv, TypeOK, Folders
    <2>3. promised' \in [Engines -> Promises]
      BY <1>3, <2>2 DEF PreviewAnswered, TypeInv, TypeOK
    <2> QED
      BY <1>3, <2>1, <2>3, TypesSplit, TypesJoin DEF PreviewAnswered, TypeInv, MailTypes,
         RootTypes, RowTypes, HistoryTypes
  <1> QED
    BY <1>1, <1>2, <1>3

\* The end of a run.
LEMMA EndingType ==
  ASSUME TypeInv, NEW i \in Instances, Finish(i) \/ Cancelled(i)
  PROVE  TypeInv'
  <1> USE DEF mailVars, rootVars, sweepVars
  <1>1. RunTypes' /\ StateTypes' /\ excused' \subseteq Messages /\ stopped' \subseteq Engines
        /\ ChunkInv' /\ CurInv'
    BY EndsAsType DEF Finish, Cancelled, Statuses
  <1>2. RowTypes'
    BY KeepsStateType DEF Finish, Cancelled, TypeInv, TypeOK, RowTypes, rowVars
  <1> QED
    BY <1>1, <1>2, TypesSplit, TypesJoin DEF Finish, Cancelled, TypeInv, MailTypes, RootTypes,
       HistoryTypes

\* The next message is taken.
LEMMA TakeType ==
  ASSUME TypeInv, NEW i \in Instances, Take(i)
  PROVE  TypeInv'
  <1>1. PICK m \in todo[i], verdict \in RulesOf(i) :
       LET rest == todo[i] \ {m}
           n == IF i \in Engines THEN inChunk[i] + 1 ELSE 0
           fate == Fate(i, m, verdict)
       IN
       /\ todo' = [todo EXCEPT ![i] = rest]
       /\ \/ /\ fate = "ignored"
             /\ GoesOn(i, n, rest)
             /\ UNCHANGED << cur, goal, result, count >>
          \/ /\ fate = "passed"
             /\ count' = IF i \in Engines
                           THEN [count EXCEPT ![i].processed = @ + 1, ![i].skipped = @ + 1]
                           ELSE count
             /\ GoesOn(i, n, rest)
             /\ UNCHANGED << cur, goal, result >>
          \/ /\ fate = "skip"
             /\ cur' = [cur EXCEPT ![i] = m]
             /\ result' = [result EXCEPT ![i] = "skipped"]
             /\ pc' = [pc EXCEPT ![i] = "settling"]
             /\ inChunk' = [inChunk EXCEPT ![i] = n]
             /\ UNCHANGED << goal, count >>
          \/ /\ fate = "move"
             /\ cur' = [cur EXCEPT ![i] = m]
             /\ goal' = [goal EXCEPT ![i] = Goal(i, verdict)]
             /\ result' = [result EXCEPT ![i] = "failed"]
             /\ pc' = [pc EXCEPT ![i] = IF up THEN "moving" ELSE "settling"]
             /\ inChunk' = [inChunk EXCEPT ![i] = n]
             /\ UNCHANGED count
    BY DEF Take
  <1> DEFINE n == IF i \in Engines THEN inChunk[i] + 1 ELSE 0
             rest == todo[i] \ {m}
  <1>2. /\ pc[i] = "next" /\ ~SeesCancel(i)
        /\ UNCHANGED << mailVars, up, rootVars, source, began, read, status, cancel, rowVars,
                        historyVars >>
    BY DEF Take
  <1>3. m \in Messages /\ rest \in SUBSET Messages /\ todo[i] # {}
    BY DEF TypeInv, TypeOK
  <1>4. n \in 0 .. Chunk /\ (i \in Sweepers => n = 0)
    BY <1>2, <1>3, InstancesSplit, ZeroType DEF TypeInv, TypeOK, ChunkInv
  <1>5. Goal(i, verdict) \in Folders
    BY SettingsAssumption DEF Goal, TypeInv, TypeOK, Folders, Sources
  <1>6. /\ cur' \in [Instances -> Messages \cup {NoMessage}]
        /\ \A j \in Instances : j # i => cur'[j] = cur[j]
        /\ goal' \in [Instances -> Folders]
        /\ result' \in [Instances -> {"moved", "failed", "skipped"}]
    <2>1. CASE UNCHANGED << cur, goal, result >>
      BY <2>1, TypesSplit DEF TypeInv, RunTypes
    <2>2. CASE /\ cur' = [cur EXCEPT ![i] = m] /\ result' = [result EXCEPT ![i] = "skipped"]
               /\ UNCHANGED goal
      BY <1>3, <2>2, TypesSplit DEF TypeInv, RunTypes
    <2>3. CASE /\ cur' = [cur EXCEPT ![i] = m] /\ result' = [result EXCEPT ![i] = "failed"]
               /\ goal' = [goal EXCEPT ![i] = Goal(i, verdict)]
      BY <1>3, <1>5, <2>3, TypesSplit DEF TypeInv, RunTypes
    <2> QED
      BY <1>1, <2>1, <2>2, <2>3
  <1>7. count' \in [Instances -> Counts]
    <2>1. count[i] \in Counts /\ count \in [Instances -> Counts]
      BY DEF TypeInv, TypeOK
    <2>2. \/ count' = count
          \/ count' = [count EXCEPT ![i].processed = @ + 1, ![i].skipped = @ + 1]
      BY <1>1
    <2> QED
      BY <2>1, <2>2 DEF Counts
  <1>7b. todo' = [todo EXCEPT ![i] = rest] /\ UNCHANGED cancel
    BY <1>1, <1>2
  <1>8. /\ pc' \in [Instances -> Phases]
        /\ inChunk' \in [Instances -> 0 .. Chunk]
        /\ todo' \in [Instances -> SUBSET Messages]
        /\ ChunkInv' /\ CurInv'
    <2>1. CASE GoesOn(i, n, rest)
      <3> HIDE DEF n, rest
      <3> QED
        BY <1>3, <1>4, <1>6, <1>7b, <2>1, GoesOnType
    <2>2. CASE /\ cur' = [cur EXCEPT ![i] = m]
               /\ \/ pc' = [pc EXCEPT ![i] = "settling"]
                  \/ pc' = [pc EXCEPT ![i] = "moving"]
               /\ inChunk' = [inChunk EXCEPT ![i] = n]
      <3>1. /\ pc' \in [Instances -> Phases] /\ pc'[i] \in {"settling", "moving"}
            /\ cur'[i] = m /\ inChunk'[i] = n
            /\ \A j \in Instances : j # i => pc'[j] = pc[j] /\ inChunk'[j] = inChunk[j]
                                             /\ todo'[j] = todo[j]
            /\ inChunk' \in [Instances -> 0 .. Chunk]
            /\ todo' \in [Instances -> SUBSET Messages]
        BY <1>1, <1>3, <1>4, <2>2, PhasesAre DEF TypeInv, TypeOK
      <3>2. ChunkInv'
        BY <1>2, <1>4, <3>1 DEF ChunkInv, TypeInv, SeesCancel
      <3>3. CurInv'
        BY <1>3, <1>6, <3>1 DEF CurInv, TypeInv
      <3> QED
        BY <3>1, <3>2, <3>3
    <2> QED
      BY <1>1, <2>1, <2>2
  <1> QED
    BY <1>2, <1>6, <1>7, <1>8, TypesSplit, TypesJoin DEF TypeInv, MailTypes, RootTypes,
       RunTypes,
       StateTypes, RowTypes, HistoryTypes, mailVars, rootVars, sweepVars, rowVars, historyVars

\* What the server does with the message in hand.
LEMMA MovingType ==
  ASSUME TypeInv, NEW i \in Instances, Moved(i) \/ NotMoved(i) \/ Created(i) \/ Yielded(i)
  PROVE  TypeInv'
  <1> USE PhasesAre DEF mailVars, rootVars, sweepVars, stateVars, rowVars, historyVars
  <1>0. NoPromise \in Promises
    BY DEF NoPromise, Promises, Folders
  <1>1. pc' \in [Instances -> Phases]
    BY DEF Moved, NotMoved, Created, Yielded, TypeInv, TypeOK
  <1>2. ChunkInv' /\ CurInv'
    <2>1. /\ pc[i] \in Moving \cup {"yielding"} /\ pc'[i] \in Moving \cup {"settling", "next"}
          /\ pc[i] \in Moving <=> pc'[i] \in Moving \cup {"settling"}
          /\ \A j \in Instances : j # i => pc'[j] = pc[j]
          /\ UNCHANGED << cur, inChunk, todo, cancel >>
      BY DEF Moved, NotMoved, Created, Yielded, TypeInv, TypeOK, Moving
    <2> QED
      BY <2>1, ZeroType DEF TypeInv, ChunkInv, CurInv, Moving, SeesCancel
  <1>3. CASE Moved(i)
    <2>1. cur[i] \in Messages
      BY <1>3 DEF Moved, TypeInv, CurInv, Moving
    <2>2. promised' \in [Engines -> Promises]
      BY <1>0, <1>3 DEF Moved, Void, TypeInv, TypeOK
    <2>3. where' \in [Messages -> Folders]
      BY <1>3, <2>1 DEF Moved, TypeInv, TypeOK
    <2>4. done' \in [Instances -> SUBSET Messages]
      BY <1>3, <2>1 DEF Moved, TypeInv, TypeOK
    <2> QED
      BY <1>1, <1>2, <1>3, <2>2, <2>3, <2>4, TypesSplit, TypesJoin DEF Moved, TypeInv,
         MailTypes,
         RootTypes, RunTypes, StateTypes, RowTypes, HistoryTypes
  <1>4. CASE NotMoved(i) \/ Created(i) \/ Yielded(i)
    BY <1>1, <1>2, <1>4, TypesSplit, TypesJoin DEF NotMoved, Created, Yielded, TypeInv,
       MailTypes,
       RootTypes, RunTypes, StateTypes, RowTypes, HistoryTypes
  <1> QED
    BY <1>3, <1>4

\* The fields of what becomes of a message.
LEMMA OutcomeFields ==
  ASSUME NEW r, NEW mo, NEW sk, NEW er, NEW a, NEW b
  PROVE  LET o == Outcome(r, mo, sk, er, a, b) IN
           /\ o.row = r /\ o.moved = mo /\ o.skipped = sk /\ o.errors = er
           /\ o.aborts = a /\ o.broken = b
  BY DEF Outcome

\* What becomes of a message in hand, in any mode.
LEMMA OutcomeTypes ==
  ASSUME NEW mode \in {"review", "inbox", "generic"},
         NEW res \in {"moved", "failed", "skipped"}, NEW o \in Outcomes(mode, res)
  PROVE  /\ o.moved \in {0, 1} /\ o.skipped \in {0, 1} /\ o.errors \in {0, 1}
         /\ o.row \in {"good", "bad", "none"}
         /\ o.aborts \in BOOLEAN /\ o.broken \in BOOLEAN
  <1>1. CASE mode = "review"
    <2>1. o \in SweepOutcomes(res)
      BY <1>1 DEF Outcomes
    <2> QED
      <3>1. \E r \in {"good", "bad", "none"}, mo, sk, er \in {0, 1}, a, b \in BOOLEAN :
              o = Outcome(r, mo, sk, er, a, b)
        BY <2>1, Zenon DEF SweepOutcomes
      <3> QED
        BY <3>1, OutcomeFields
  <1>2. CASE mode = "inbox"
    <2>1. o \in InboxOutcomes(res)
      BY <1>2 DEF Outcomes
    <2> QED
      <3>1. \E r \in {"good", "bad", "none"}, mo, sk, er \in {0, 1}, a, b \in BOOLEAN :
              o = Outcome(r, mo, sk, er, a, b)
        BY <2>1, Zenon DEF InboxOutcomes
      <3> QED
        BY <3>1, OutcomeFields
  <1>3. CASE mode = "generic"
    <2>1. o \in GenericOutcomes(res)
      BY <1>3 DEF Outcomes
    <2> QED
      <3>1. \E r \in {"good", "bad", "none"}, mo, sk, er \in {0, 1}, a, b \in BOOLEAN :
              o = Outcome(r, mo, sk, er, a, b)
        BY <2>1, Zenon DEF GenericOutcomes
      <3> QED
        BY <3>1, OutcomeFields
  <1> QED
    BY <1>1, <1>2, <1>3

LEMMA ModeType ==
  ASSUME TypeOK, NEW i \in Instances, NEW folder
  PROVE  Mode(i, folder) \in {"review", "inbox", "generic"}
  BY InstancesSplit DEF Mode

\* The message in hand is settled.
LEMMA SettleType ==
  ASSUME TypeInv, NEW i \in Instances, Settle(i)
  PROVE  TypeInv'
  <1>1. PICK o \in Outcomes(Mode(i, source[i]), result[i]) :
       /\ o.broken => mishaps < MaxMishaps
       /\ mishaps' = IF o.broken THEN mishaps + 1 ELSE mishaps
       /\ good' = IF o.row = "good" THEN [good EXCEPT ![i] = @ \cup {cur[i]}] ELSE good
       /\ bad' = IF o.row = "bad" THEN [bad EXCEPT ![i] = @ \cup {cur[i]}] ELSE bad
       /\ count' = [count EXCEPT ![i] =
            [processed |-> IF o.aborts \/ i \in Sweepers THEN @.processed ELSE @.processed + 1,
             moved |-> @.moved + o.moved,
             skipped |-> @.skipped + o.skipped,
             errors |-> @.errors + o.errors]]
       /\ IF o.aborts
            THEN EndsAs(i, "error")
            ELSE /\ GoesOn(i, inChunk[i], todo[i])
                 /\ cur' = [cur EXCEPT ![i] = NoMessage]
                 /\ goal' = [goal EXCEPT ![i] = "away"]
                 /\ result' = [result EXCEPT ![i] = "skipped"]
                 /\ UNCHANGED << source, began, todo, read, status, excused, stopped >>
       /\ unlogged' = IF o.broken THEN unlogged \cup {i} ELSE unlogged
    BY DEF Settle
  <1>2. pc[i] = "settling"
        /\ UNCHANGED << mailVars, up, rootVars, cancel, done, promised, unbuilt, changes,
                        runs >>
    BY DEF Settle
  <1>3. /\ o.moved \in {0, 1} /\ o.skipped \in {0, 1} /\ o.errors \in {0, 1}
        /\ o.aborts \in BOOLEAN /\ o.broken \in BOOLEAN
    <2>1. Mode(i, source[i]) \in {"review", "inbox", "generic"}
      BY ModeType DEF TypeInv
    <2>2. result[i] \in {"moved", "failed", "skipped"}
      BY DEF TypeInv, TypeOK
    <2> QED
      BY <2>1, <2>2, OutcomeTypes
  <1>4. cur[i] \in Messages
    BY <1>2 DEF TypeInv, CurInv
  <1>5. mishaps' \in 0 .. MaxMishaps
    BY <1>1, <1>3, BoundAssumption DEF TypeInv, TypeOK
  <1>6. RowTypes'
    <2>1. good' \in [Instances -> SUBSET Messages] /\ bad' \in [Instances -> SUBSET Messages]
      BY <1>1, <1>4 DEF TypeInv, TypeOK
    <2>2. count[i] \in Counts /\ count \in [Instances -> Counts]
      BY DEF TypeInv, TypeOK
    <2>3. [processed |-> IF o.aborts \/ i \in Sweepers THEN count[i].processed
                                                       ELSE count[i].processed + 1,
           moved |-> count[i].moved + o.moved,
           skipped |-> count[i].skipped + o.skipped,
           errors |-> count[i].errors + o.errors] \in Counts
      BY <1>3, <2>2 DEF Counts
    <2>4. count' \in [Instances -> Counts]
      BY <1>1, <2>2, <2>3
    <2>5. unlogged' \subseteq Instances /\ done' \in [Instances -> SUBSET Messages]
      BY <1>1, <1>2 DEF TypeInv, TypeOK
    <2> QED
      BY <2>1, <2>4, <2>5 DEF RowTypes
  <1>7. /\ RunTypes' /\ StateTypes' /\ excused' \subseteq Messages /\ stopped' \subseteq Engines
        /\ ChunkInv' /\ CurInv'
    <2>1. CASE o.aborts
      BY <1>1, <1>2, <2>1, EndsAsType DEF Statuses
    <2>2. CASE ~o.aborts
      <3>1. /\ cur' \in [Instances -> Messages \cup {NoMessage}]
            /\ \A j \in Instances : j # i => cur'[j] = cur[j]
            /\ goal' \in [Instances -> Folders]
            /\ result' \in [Instances -> {"moved", "failed", "skipped"}]
            /\ todo' = [todo EXCEPT ![i] = todo[i]]
            /\ inChunk[i] \in 0 .. Chunk /\ todo[i] \in SUBSET Messages
            /\ i \in Sweepers => inChunk[i] = 0
        BY <1>1, <2>2 DEF TypeInv, TypeOK, Folders, ChunkInv
      <3>2. /\ pc' \in [Instances -> Phases]
            /\ inChunk' \in [Instances -> 0 .. Chunk]
            /\ todo' \in [Instances -> SUBSET Messages]
            /\ ChunkInv' /\ CurInv'
        BY <1>1, <1>2, <2>2, <3>1, GoesOnType
      <3> QED
        BY <1>1, <1>2, <2>2, <3>1, <3>2, TypesSplit DEF TypeInv, RunTypes, StateTypes,
           HistoryTypes
    <2> QED
      BY <2>1, <2>2
  <1>8. MailTypes' /\ RootTypes'
    BY <1>2, TypesSplit DEF TypeInv, MailTypes, RootTypes, mailVars, rootVars, sweepVars
  <1>9. HistoryTypes'
    BY <1>2, <1>5, <1>7, TypesSplit DEF TypeInv, HistoryTypes
  <1> QED
    BY <1>6, <1>7, <1>8, <1>9, TypesJoin DEF TypeInv

\* The connection is lost, or comes back.
LEMMA LinkType ==
  ASSUME TypeInv, LinkDown \/ LinkUp
  PROVE  TypeInv'
  <1>1. CASE LinkDown
    <2>1. PICK late \in SUBSET {i \in Instances : pc[i] \in {"moving", "retrying"} /\ Movable(i)} :
       /\ where' = [m \in Messages |-> IF \E i \in late : cur[i] = m
                                         THEN goal[CHOOSE i \in late : cur[i] = m]
                                         ELSE where[m]]
       /\ done' = [i \in Instances |-> IF i \in late THEN done[i] \cup {cur[i]} ELSE done[i]]
      BY <1>1 DEF LinkDown
    <2>2. where' \in [Messages -> Folders]
      BY <2>1 DEF TypeInv, TypeOK
    <2>3. done' \in [Instances -> SUBSET Messages]
      BY <2>1 DEF TypeInv, TypeOK, CurInv, Moving
    <2>4. pc' \in [Instances -> Phases]
      BY <1>1, PhasesAre DEF LinkDown, TypeInv, TypeOK, Moving
    <2>5. promised' \in [Engines -> Promises]
      BY <1>1 DEF LinkDown, AllVoid, NoPromise, Promises, Folders
    <2>6. mishaps' \in 0 .. MaxMishaps
      BY <1>1, BoundAssumption DEF LinkDown, TypeInv, TypeOK
    <2>7. ChunkInv' /\ CurInv'
      BY <1>1 DEF LinkDown, TypeInv, TypeOK, ChunkInv, CurInv, SeesCancel, Moving, stateVars
    <2> QED
      BY <1>1, <2>2, <2>3, <2>4, <2>5, <2>6, <2>7, TypesSplit, TypesJoin DEF LinkDown, TypeInv,
         MailTypes, RootTypes, RunTypes, StateTypes, RowTypes, HistoryTypes, stateVars
  <1>2. CASE LinkUp
    BY <1>2 DEF LinkUp, TypeInv, TypeOK, ChunkInv, CurInv, SeesCancel, mailVars, rootVars,
       sweepVars, runVars,
       stateVars, rowVars, historyVars
  <1> QED
    BY <1>1, <1>2

LEMMA InitType == Init => TypeInv
  <1> SUFFICES ASSUME Init PROVE TypeInv
    OBVIOUS
  <1>1. TypeOK
    <2>1. MailTypes
      <3>1. Start \subseteq Folders /\ There \subseteq BOOLEAN /\ 0 \in 0 .. MaxDay
        BY BoundAssumption, NameAssumption DEF Folders
      <3>2. where \in [Messages -> Start] /\ there \in There /\ up = TRUE /\ now = 0
            /\ sentinels \subseteq Messages /\ seen \subseteq Messages
        BY DEF Init
      <3> QED
        BY <3>1, <3>2 DEF MailTypes
    <2>2. RootTypes /\ StateTypes /\ RowTypes
      <3>1. RootTypes
        <4>1. Starting \subseteq BOOLEAN
          BY NameAssumption
        <4>2. starting \in BOOLEAN /\ armed \subseteq Sweepers
          BY <4>1 DEF Init
        <4> QED
          BY <4>2 DEF Init, RootTypes
      <3>2. StateTypes /\ RowTypes
        BY ZeroType DEF Init, StateTypes, RowTypes, Statuses
      <3> QED
        BY <3>1, <3>2
    <2>3. RunTypes
      BY ZeroType, PhasesAre, BoundAssumption DEF Init, RunTypes, Folders, Sources
    <2>4. HistoryTypes
      <3>1. NoPromise \in Promises
        BY DEF Promises, NoPromise, Folders
      <3>2. /\ promised = [e \in Engines |-> NoPromise]
            /\ unbuilt = FALSE /\ excused = {} /\ stopped = {}
            /\ mishaps = 0 /\ changes = 0 /\ runs = 0
        BY DEF Init
      <3>3. 0 \in 0 .. MaxMishaps /\ 0 \in 0 .. MaxChanges /\ 0 \in 0 .. MaxRuns
        BY BoundAssumption
      <3>4. promised \in [Engines -> Promises]
        BY <3>1, <3>2
      <3> QED
        BY <3>2, <3>3, <3>4 DEF HistoryTypes
    <2> QED
      BY <2>1, <2>2, <2>3, <2>4
         DEF TypeOK, MailTypes, RootTypes, RunTypes, StateTypes, RowTypes, HistoryTypes,
            Statuses
  <1>2. ChunkInv /\ CurInv
    BY DEF Init, ChunkInv, CurInv, Moving
  <1> QED
    BY <1>1, <1>2 DEF TypeInv

LEMMA TypeStep == TypeInv /\ [Next]_vars => TypeInv'
  <1> SUFFICES ASSUME TypeInv, [Next]_vars PROVE TypeInv'
    OBVIOUS
  <1>1. ASSUME NEW i \in Instances, Steps(i) \/ Answers(i) PROVE TypeInv'
    BY <1>1, EndingType, TakeType, MovingType, SettleType, FetchedType DEF Steps, Answers
  <1>2. CASE UNCHANGED vars
    BY <1>2 DEF vars, TypeInv, TypeOK, ChunkInv, CurInv, SeesCancel, mailVars, rootVars,
       sweepVars, runVars,
       stateVars, rowVars, historyVars
  <1> QED
    BY <1>1, <1>2, OthersType, RequestsType, BuiltType, MainType, LinkType DEF Next

\* Types, of the mailbox, the instances and the history, however runs,
\* changes of the settings and lost connections mix.
THEOREM TypeCorrect == Spec => []TypeOK
  <1>1. TypeInv => TypeOK
    BY DEF TypeInv
  <1> QED
    BY <1>1, InitType, TypeStep, PTL DEF Spec

-----------------------------------------------------------------------------
(* Rows and counters.                                                      *)

\* Whether the messages of i's run are filed by age.
ByAge(i) == i \in Sweepers \/ (source[i] # "inbox" /\ source[i] = cfg[i].folder)

\* The message in hand of an instance: it was neither handled before, nor is it
\* taken again, and its result is what happened to it.
Hand(i) ==
  /\ pc[i] \in {"idle", "fetching", "previewing", "cut"} => todo[i] = {} /\ cur[i] = NoMessage
  /\ pc[i] = "fetching" => done[i] = {} /\ good[i] = {} /\ bad[i] = {}
  /\ todo[i] \cap (done[i] \cup good[i] \cup bad[i]) = {}
  /\ cur[i] \notin todo[i]
  /\ pc[i] \in Moving \cup {"settling"} => cur[i] \in Messages \ (good[i] \cup bad[i])
  /\ pc[i] \in Moving => result[i] = "failed" /\ cur[i] \notin done[i]
  /\ pc[i] = "settling" =>
       /\ result[i] = "moved" => cur[i] \in done[i]
       /\ mishaps = 0 /\ result[i] # "moved" => cur[i] \notin done[i]
       /\ result[i] = "skipped" => ~ByAge(i)

\* RowsAreTrue and CountersTellTheLog, of one instance.
RowsTrue(i) ==
  /\ good[i] \subseteq done[i]
  /\ mishaps = 0 => bad[i] \cap done[i] = {}
CountersTell(i) ==
  i \notin unlogged =>
    /\ count[i].moved = Cardinality(good[i])
    /\ count[i].errors = Cardinality(bad[i])
    /\ i \in Engines => count[i].processed =
                          count[i].moved + count[i].skipped + count[i].errors

HandInv == \A i \in Instances : Hand(i)
RowInv == \A i \in Instances : RowsTrue(i) /\ CountersTell(i)

\* A step that leaves the run, the rows and the settings of i alone.
Untouched(i) ==
  /\ pc'[i] = pc[i] /\ source'[i] = source[i] /\ began'[i] = began[i] /\ todo'[i] = todo[i]
  /\ read'[i] = read[i] /\ inChunk'[i] = inChunk[i] /\ cur'[i] = cur[i] /\ goal'[i] = goal[i]
  /\ result'[i] = result[i] /\ cfg'[i] = cfg[i]
  /\ count'[i] = count[i] /\ good'[i] = good[i] /\ bad'[i] = bad[i] /\ done'[i] = done[i]
  /\ i \in unlogged' <=> i \in unlogged
  /\ i \in Engines => status'[i] = status[i] /\ cancel'[i] = cancel[i]

\* The mode "review" is that of ByAge.
LEMMA ModeReview ==
  ASSUME TypeOK, NEW i \in Instances
  PROVE  /\ Mode(i, source[i]) = "review" <=> ByAge(i)
         /\ Mode(i, source[i]) = "inbox" <=> ~ByAge(i) /\ source[i] = "inbox"
  <1>2. CASE i \in Sweepers
    <2>1. Mode(i, source[i]) = "review"
      BY <1>2, InstancesSplit DEF Mode
    <2> QED
      BY <1>2, <2>1 DEF ByAge
  <1>3. CASE i \in Engines
    <2>1. CASE source[i] = "inbox"
      <3>1. Mode(i, source[i]) = "inbox"
        BY <1>3, <2>1, InstancesSplit DEF Mode
      <3> QED
        BY <1>3, <2>1, <3>1, InstancesSplit DEF ByAge
    <2>2. CASE source[i] # "inbox"
      <3>1. Mode(i, source[i]) = IF source[i] = cfg[i].folder THEN "review" ELSE "generic"
        BY <1>3, <2>2, InstancesSplit DEF Mode
      <3> QED
        BY <1>3, <2>2, <3>1, InstancesSplit DEF ByAge
    <2> QED
      BY <2>1, <2>2
  <1> QED
    BY <1>2, <1>3, InstancesSplit

\* What the outcomes have in common: an error that leaves the loop is one of
\* the log, and no row; otherwise the counters get what the row says.
Lawful(o, mode, res) ==
  /\ o.aborts => o.broken /\ o.row = "none"
  /\ ~o.broken => /\ o.moved = (IF o.row = "good" THEN 1 ELSE 0)
                  /\ o.errors = (IF o.row = "bad" THEN 1 ELSE 0)
                  /\ o.moved + o.skipped + o.errors = 1
  /\ o.row = "good" => res = "moved"
  /\ o.row = "bad" /\ ~o.broken => res # "moved"
  /\ ~o.broken /\ (mode # "review" \/ res # "skipped") =>
       (o.row = "none" <=> res = "skipped")

\* Every outcome is lawful, in any mode and for any result.
LEMMA OutcomeLaws ==
  ASSUME NEW mode \in {"review", "inbox", "generic"},
         NEW res \in {"moved", "failed", "skipped"}
  PROVE  \A o \in Outcomes(mode, res) : Lawful(o, mode, res)
  <1>1. CASE mode = "review"
    <2>1. \A o \in SweepOutcomes(res) : Lawful(o, mode, res)
      BY <1>1 DEF Lawful, Outcome, SweepOutcomes
    <2> QED
      BY <1>1, <2>1 DEF Outcomes
  <1>2. CASE mode = "inbox"
    <2>1. \A o \in InboxOutcomes(res) : Lawful(o, mode, res)
      BY <1>2 DEF Lawful, Outcome, InboxOutcomes
    <2> QED
      BY <1>2, <2>1 DEF Outcomes
  <1>3. CASE mode = "generic"
    <2>1. \A o \in GenericOutcomes(res) : Lawful(o, mode, res)
      BY <1>3 DEF Lawful, Outcome, GenericOutcomes
    <2> QED
      BY <1>3, <2>1 DEF Outcomes
  <1> QED
    BY <1>1, <1>2, <1>3

\* What is untouched stays as it was.
LEMMA UntouchedKeeps ==
  ASSUME NEW i, Untouched(i), mishaps' = 0 => mishaps = 0
  PROVE  /\ Hand(i) => Hand(i)'
         /\ RowsTrue(i) => RowsTrue(i)'
         /\ CountersTell(i) => CountersTell(i)'
  BY DEF Untouched, Hand, RowsTrue, CountersTell, ByAge

\* Rows at zero are true, and counted.
LEMMA FreshRows ==
  ASSUME TypeInv, NEW i \in Instances,
         count'[i] = Zero, good'[i] = {}, bad'[i] = {}, done'[i] = {}
  PROVE  RowsTrue(i)' /\ CountersTell(i)'
  <1>1. Cardinality({}) = 0
    BY FS_EmptySet
  <1> QED
    BY <1>1 DEF RowsTrue, CountersTell, Zero

\* A step of an instance touches no other one and nothing of the program's
\* root, and mishaps are not forgotten.
LEMMA Elsewhere ==
  ASSUME TypeInv, NEW i \in Instances, Steps(i) \/ Answers(i)
  PROVE  /\ \A j \in Instances : j # i => Untouched(j)
         /\ UNCHANGED << sentinels, seen, now, up, rootVars, unbuilt, changes, runs >>
         /\ mishaps' = 0 => mishaps = 0
  <1> USE DEF TypeInv, TypeOK, Untouched, mailVars, rootVars, sweepVars, runVars, stateVars,
     rowVars,
        historyVars
  <1>1. CASE Finish(i)
    BY <1>1 DEF Finish, EndsAs, Ends, KeepsState, Fresh
  <1>2. CASE Cancelled(i)
    BY <1>2 DEF Cancelled, EndsAs, Ends
  <1>3. CASE Take(i)
    BY <1>3 DEF Take, GoesOn
  <1>4. CASE Yielded(i)
    BY <1>4 DEF Yielded
  <1>5. CASE Settle(i)
    BY <1>5 DEF Settle, EndsAs, Ends, GoesOn
  <1>6. CASE FetchFails(i)
    BY <1>6 DEF FetchFails, EndsAs, Ends, KeepsState, Fresh
  <1>7. CASE FetchAnswered(i)
    BY <1>7 DEF FetchAnswered
  <1>8. CASE PreviewAnswered(i)
    BY <1>8 DEF PreviewAnswered, EndsAs, Ends
  <1>9. CASE Moved(i)
    BY <1>9 DEF Moved
  <1>10. CASE NotMoved(i) \/ Created(i)
    BY <1>10 DEF NotMoved, Created
  <1> QED
    BY <1>1, <1>2, <1>3, <1>4, <1>5, <1>6, <1>7, <1>8, <1>9, <1>10 DEF Steps, Answers

\* At the end of a run there is nothing in hand.
LEMMA EndsHand ==
  ASSUME TypeInv, NEW i \in Instances, Ends(i)
  PROVE  Hand(i)'
  <1>1. pc'[i] = "idle" /\ todo'[i] = {} /\ cur'[i] = NoMessage
    BY DEF Ends, TypeInv, TypeOK
  <1> QED
    BY <1>1 DEF Hand, Moving

\* Taking a message, or passing over it.
LEMMA TakeHand ==
  ASSUME TypeInv, NEW i \in Instances, Hand(i), Take(i)
  PROVE  Hand(i)'
  <1>1. PICK m \in todo[i], verdict \in RulesOf(i) :
       /\ todo' = [todo EXCEPT ![i] = todo[i] \ {m}]
       /\ \/ /\ pc' = [pc EXCEPT ![i] = "next"] \/ pc' = [pc EXCEPT ![i] = "yielding"]
             /\ UNCHANGED << cur, result >>
          \/ /\ Fate(i, m, verdict) = "skip"
             /\ cur' = [cur EXCEPT ![i] = m]
             /\ result' = [result EXCEPT ![i] = "skipped"]
             /\ pc' = [pc EXCEPT ![i] = "settling"]
          \/ /\ cur' = [cur EXCEPT ![i] = m]
             /\ result' = [result EXCEPT ![i] = "failed"]
             /\ pc' = [pc EXCEPT ![i] = IF up THEN "moving" ELSE "settling"]
    BY DEF Take, GoesOn
  <1>2. m \in Messages /\ m \notin done[i] \cup good[i] \cup bad[i]
    BY DEF Hand, TypeInv, TypeOK
  <1>3. UNCHANGED << source, cfg, mishaps, good, bad, done >> /\ pc[i] = "next"
    BY DEF Take, rootVars, sweepVars, rowVars, historyVars
  <1>4. todo'[i] = todo[i] \ {m}
    BY <1>1 DEF TypeInv, TypeOK
  <1>5. CASE pc'[i] \in {"next", "yielding"} /\ cur'[i] = cur[i]
    BY <1>3, <1>4, <1>5 DEF Hand, Moving
  <1>6. CASE /\ Fate(i, m, verdict) = "skip" /\ cur'[i] = m
             /\ result'[i] = "skipped" /\ pc'[i] = "settling"
    <2>1. ~ByAge(i)
      <3>1. Mode(i, source[i]) # "review"
        BY <1>6 DEF Fate
      <3> QED
        BY <3>1, ModeReview DEF TypeInv
    <2> QED
      BY <1>2, <1>3, <1>4, <1>6, <2>1 DEF Hand, Moving, ByAge
  <1>7. CASE cur'[i] = m /\ result'[i] = "failed" /\ pc'[i] \in {"moving", "settling"}
    BY <1>2, <1>3, <1>4, <1>7 DEF Hand, Moving, ByAge
  <1> QED
    BY <1>1, <1>5, <1>6, <1>7 DEF TypeInv, TypeOK

\* Settling a message lays it down.
LEMMA SettleHand ==
  ASSUME TypeInv, NEW i \in Instances, Hand(i), Settle(i)
  PROVE  Hand(i)'
  <1>1. CASE Ends(i)
    BY <1>1, EndsHand
  <1>2. CASE /\ pc' = [pc EXCEPT ![i] = "next"] \/ pc' = [pc EXCEPT ![i] = "yielding"]
             /\ cur' = [cur EXCEPT ![i] = NoMessage]
             /\ UNCHANGED << todo, done >>
             /\ good' = [good EXCEPT ![i] = @ \cup {cur[i]}] \/ UNCHANGED good
             /\ bad' = [bad EXCEPT ![i] = @ \cup {cur[i]}] \/ UNCHANGED bad
    <2>1. /\ pc'[i] \in {"next", "yielding"} /\ cur'[i] = NoMessage
          /\ todo'[i] = todo[i] /\ done'[i] = done[i]
          /\ good'[i] \subseteq good[i] \cup {cur[i]} /\ bad'[i] \subseteq bad[i] \cup {cur[i]}
      BY <1>2 DEF TypeInv, TypeOK
    <2>2. NoMessage \notin todo[i]
      BY NameAssumption DEF TypeInv, TypeOK
    <2> QED
      BY <2>1, <2>2 DEF Hand, Moving
  <1> QED
    BY <1>1, <1>2 DEF Settle, GoesOn, EndsAs

\* Every step of an instance.
LEMMA OwnHand ==
  ASSUME TypeInv, NEW i \in Instances, Hand(i), Steps(i) \/ Answers(i)
  PROVE  Hand(i)'
  <1>1. CASE Finish(i) \/ Cancelled(i) \/ FetchFails(i) \/ PreviewAnswered(i)
    BY <1>1, EndsHand DEF Finish, Cancelled, FetchFails, PreviewAnswered, EndsAs
  <1>2. CASE FetchAnswered(i)
    <2>1. /\ pc'[i] = "next" /\ cur'[i] = NoMessage /\ todo'[i] \subseteq Messages
          /\ done'[i] = {} /\ good'[i] = {} /\ bad'[i] = {}
      BY <1>2 DEF FetchAnswered, Hand, TypeInv, TypeOK, rowVars
    <2> QED
      BY <2>1, NameAssumption DEF Hand, Moving
  <1>3. CASE Moved(i)
    <2>1. /\ pc'[i] = "settling" /\ cur'[i] = cur[i] /\ todo'[i] = todo[i]
          /\ done'[i] = done[i] \cup {cur[i]} /\ good'[i] = good[i] /\ bad'[i] = bad[i]
          /\ result'[i] = "moved" /\ pc[i] \in Moving
      BY <1>3 DEF Moved, TypeInv, TypeOK, Moving
    <2> QED
      BY <2>1 DEF Hand, Moving
  <1>4. CASE NotMoved(i) \/ Created(i)
    <2>1. /\ pc[i] \in Moving /\ pc'[i] \in Moving \cup {"settling"}
          /\ UNCHANGED << cur, todo, rowVars, result, mishaps >>
      BY <1>4 DEF NotMoved, Created, TypeInv, TypeOK, Moving, historyVars
    <2> QED
      BY <2>1 DEF Hand, Moving, rowVars
  <1>5. CASE Yielded(i)
    <2>1. /\ pc'[i] = "next" /\ UNCHANGED << cur, todo, rowVars, result >>
      BY <1>5 DEF Yielded, TypeInv, TypeOK
    <2> QED
      BY <1>5, <2>1 DEF Hand, Moving, rowVars, Yielded
  <1> QED
    BY <1>1, <1>2, <1>3, <1>4, <1>5, TakeHand, SettleHand DEF Steps, Answers

\* The user and the rest of the program touch no instance.
LEMMA OthersTouch ==
  ASSUME TypeInv, Others \/ LinkUp
  PROVE  /\ \A i \in Instances : Untouched(i)
         /\ UNCHANGED << sentinels, stopped, mishaps, engine >>
  BY DEF Others, UserMoves, ForReview, Marks, Day, RulesChange, PutReview, LinkUp, Untouched,
     mailVars, rootVars, sweepVars, runVars, stateVars, rowVars, historyVars

\* A request touches one instance only.
LEMMA RequestsTouch ==
  ASSUME TypeInv, Requests
  PROVE  \E i \in Instances :
           /\ \A j \in Instances : j # i => Untouched(j)
           /\ cfg'[i] = cfg[i] /\ todo'[i] = todo[i] /\ read'[i] = read[i]
           /\ cur'[i] = cur[i] /\ inChunk'[i] = inChunk[i]
           /\ \/ /\ ~Running(i)
                 /\ pc'[i] \in {"idle", "fetching", "previewing"}
                 /\ \/ count'[i] = Zero /\ good'[i] = {} /\ bad'[i] = {} /\ done'[i] = {}
                    \/ /\ pc'[i] # "fetching" /\ UNCHANGED << count, rowVars >>
              \/ /\ Running(i) /\ pc'[i] = pc[i] /\ UNCHANGED << runVars, rowVars, count >>
           /\ UNCHANGED << mailVars, rootVars, mishaps, unbuilt, excused >>
  <1> USE DEF TypeInv, TypeOK, Untouched, mailVars, rootVars, sweepVars, runVars, stateVars,
     rowVars,
        historyVars
  <1>0. engine \in Engines /\ engine \in Instances
    BY InstancesSplit
  <1>1. CASE \E s \in Sweepers : SweepFires(s)
    <2>1. PICK s \in Sweepers : SweepFires(s)
      BY <1>1
    <2>2. s \in Instances /\ s \notin Engines
      BY InstancesSplit
    <2> QED
      BY <2>1, <2>2 DEF SweepFires, Fresh, Running
  <1>2. CASE \E folder \in Sources : Execute(folder)
    <2>1. PICK folder \in Sources : Execute(folder)
      BY <1>2
    <2>2. /\ count'[engine] = Zero /\ good'[engine] = {} /\ bad'[engine] = {}
          /\ done'[engine] = {}
      BY <1>0, <2>1 DEF Execute, Fresh
    <2>3. ~Running(engine) /\ pc'[engine] \in {"idle", "fetching"}
      BY <1>0, <2>1 DEF Execute, Running
    <2>4. \A j \in Instances : j # engine => Untouched(j)
      BY <1>0, <2>1 DEF Execute, Fresh
    <2> QED
      BY <1>0, <2>1, <2>2, <2>3, <2>4 DEF Execute
  <1>3. CASE \E folder \in Sources : DryRun(folder)
    <2>1. PICK folder \in Sources : DryRun(folder)
      BY <1>3
    <2> QED
      BY <1>0, <2>1 DEF DryRun, Running
  <1>4. CASE Cancel
    BY <1>0, <1>4 DEF Cancel, Running
  <1> QED
    BY <1>1, <1>2, <1>3, <1>4 DEF Requests

\* New instances take the names of idle ones, with the settings of that moment.
Renewed == Rebuilt \/ PutReviewListed \/ MainSweeper
LEMMA RenewedTouches ==
  ASSUME TypeInv, Renewed
  PROVE  /\ \A i \in Instances :
              \/ Untouched(i)
              \/ /\ ~Running(i) /\ cfg'[i] = settings'
                 /\ count'[i] = Zero /\ good'[i] = {} /\ bad'[i] = {} /\ done'[i] = {}
         /\ sweeper' \in Sweepers /\ cfg'[sweeper'] = settings'
         /\ \/ unbuilt' = FALSE /\ cfg'[engine'] = settings' /\ AllVoid
            \/ /\ UNCHANGED << unbuilt, engine, settings,
                               promised >> /\ cfg'[engine] = cfg[engine]
               /\ \A e \in Engines : Untouched(e)
         /\ \A e \in Engines : Running(e) => cancel'[e] = cancel[e]
         /\ UNCHANGED << mailVars, up, rules, runVars, excused, stopped, mishaps >>
  <1>0. UNCHANGED << mailVars, up, rules, runVars, excused, stopped, mishaps >>
    BY DEF Renewed, Rebuilt, PutReviewListed, MainSweeper, historyVars
  <1>1. CASE Rebuilt \/ PutReviewListed
    <2>1. PICK s \in Sweepers, e \in Engines :
         /\ ~Running(s) /\ ~Running(e)
         /\ sweeper' = s /\ engine' = e
         /\ cfg' = [cfg EXCEPT ![s] = settings', ![e] = settings']
         /\ status' = [status EXCEPT ![e] = "idle"]
         /\ cancel' = [cancel EXCEPT ![e] = FALSE]
         /\ count' = [count EXCEPT ![s] = Zero, ![e] = Zero]
         /\ good' = [good EXCEPT ![s] = {}, ![e] = {}]
         /\ bad' = [bad EXCEPT ![s] = {}, ![e] = {}]
         /\ done' = [done EXCEPT ![s] = {}, ![e] = {}]
         /\ unlogged' = unlogged \ {s, e}
      BY <1>1 DEF Rebuilt, PutReviewListed, Builds
    <2>2. unbuilt' = FALSE /\ AllVoid
      BY <1>1 DEF Rebuilt, PutReviewListed
    <2>3. s \in Instances /\ e \in Instances /\ s # e /\ s \notin Engines
      BY InstancesSplit
    <2>4. \A i \in Instances : i \notin {s, e} => Untouched(i)
      BY <1>0, <2>1, <2>3 DEF Untouched, TypeInv, TypeOK, runVars
    <2>5. \A i \in {s, e} : /\ ~Running(i) /\ cfg'[i] = settings'
                            /\ count'[i] = Zero /\ good'[i] = {} /\ bad'[i] = {} /\ done'[i] = {}
      BY <2>1, <2>3 DEF TypeInv, TypeOK
    <2>6. \A x \in Engines : Running(x) => cancel'[x] = cancel[x]
      BY <2>1 DEF TypeInv, TypeOK
    <2> QED
      BY <1>0, <2>1, <2>2, <2>4, <2>5, <2>6
  <1>2. CASE MainSweeper
    <2>1. PICK s \in Sweepers :
         /\ ~Running(s)
         /\ sweeper' = s
         /\ cfg' = [cfg EXCEPT ![s] = settings]
         /\ count' = [count EXCEPT ![s] = Zero]
         /\ good' = [good EXCEPT ![s] = {}]
         /\ bad' = [bad EXCEPT ![s] = {}]
         /\ done' = [done EXCEPT ![s] = {}]
         /\ unlogged' = unlogged \ {s}
      BY <1>2 DEF MainSweeper
    <2>2. UNCHANGED << settings, engine, status, cancel, unbuilt, promised >>
      BY <1>2 DEF MainSweeper, historyVars
    <2>3. /\ s \in Instances /\ s \notin Engines /\ engine \in Engines
          /\ \A e \in Engines : e \in Instances /\ e # s
      BY InstancesSplit DEF TypeInv, TypeOK
    <2>4. \A i \in Instances : i # s => Untouched(i)
      BY <1>0, <2>1, <2>2, <2>3 DEF Untouched, TypeInv, TypeOK, runVars
    <2>5. /\ cfg'[s] = settings' /\ cfg'[engine] = cfg[engine]
          /\ count'[s] = Zero /\ good'[s] = {} /\ bad'[s] = {} /\ done'[s] = {}
      BY <2>1, <2>2, <2>3 DEF TypeInv, TypeOK
    <2> QED
      BY <1>0, <2>1, <2>2, <2>3, <2>4, <2>5
  <1> QED
    BY <1>1, <1>2 DEF Renewed

\* When the connection is lost, a message in hand has failed, as far as the
\* instance knows.
LEMMA LinkDownHand ==
  ASSUME TypeInv, HandInv, LinkDown
  PROVE  HandInv'
  <1>1. PICK late \in SUBSET {i \in Instances : pc[i] \in {"moving", "retrying"} /\ Movable(i)} :
       done' = [i \in Instances |-> IF i \in late THEN done[i] \cup {cur[i]} ELSE done[i]]
    BY DEF LinkDown
  <1>2. mishaps' # 0
    BY DEF LinkDown, TypeInv, TypeOK
  <1>3. UNCHANGED << todo, cur, good, bad, result, source, cfg >>
    BY DEF LinkDown
  <1> SUFFICES ASSUME NEW i \in Instances PROVE Hand(i)'
    BY DEF HandInv
  <1>4. Hand(i)
    BY DEF HandInv
  <1>5. CASE pc[i] \in {"fetching", "previewing"}
    <2>1. pc'[i] = "cut" /\ done'[i] = done[i]
      <3>1. i \notin late
        BY <1>5
      <3>2. pc'[i] = "cut"
        BY <1>5 DEF LinkDown, Moving
      <3> QED
        BY <1>1, <3>1, <3>2
    <2> QED
      BY <1>3, <1>4, <1>5, <2>1 DEF Hand, Moving
  <1>6. CASE pc[i] \in Moving
    <2>1. pc'[i] = "settling" /\ done'[i] \subseteq done[i] \cup {cur[i]}
      BY <1>1, <1>6 DEF LinkDown, Moving
    <2> QED
      BY <1>2, <1>3, <1>4, <1>6, <2>1 DEF Hand, Moving
  <1>7. CASE pc[i] \notin {"fetching", "previewing"} \cup Moving
    <2>1. pc'[i] = pc[i] /\ done'[i] = done[i]
      BY <1>1, <1>7 DEF LinkDown, Moving
    <2> QED
      BY <1>2, <1>3, <1>4, <1>7, <2>1 DEF Hand, Moving, ByAge
  <1> QED
    BY <1>5, <1>6, <1>7

LEMMA HandStep == TypeInv /\ HandInv /\ [Next]_vars => HandInv'
  <1> SUFFICES ASSUME TypeInv, HandInv, [Next]_vars PROVE HandInv'
    OBVIOUS
  <1>1. CASE \E i \in Instances : Steps(i) \/ Answers(i)
    <2>1. PICK i \in Instances : Steps(i) \/ Answers(i)
      BY <1>1
    <2>2. Hand(i)'
      BY <2>1, OwnHand DEF HandInv
    <2>3. \A j \in Instances : j # i => Hand(j)'
      BY <2>1, Elsewhere, UntouchedKeeps DEF HandInv
    <2> QED
      BY <2>2, <2>3 DEF HandInv
  <1>2. CASE Others \/ LinkUp
    BY <1>2, OthersTouch, UntouchedKeeps DEF HandInv
  <1>3. CASE Requests
    <2>1. PICK i \in Instances :
           /\ \A j \in Instances : j # i => Untouched(j)
           /\ cfg'[i] = cfg[i] /\ todo'[i] = todo[i] /\ cur'[i] = cur[i]
           /\ \/ /\ ~Running(i)
                 /\ pc'[i] \in {"idle", "fetching", "previewing"}
                 /\ \/ good'[i] = {} /\ bad'[i] = {} /\ done'[i] = {}
                    \/ pc'[i] # "fetching" /\ UNCHANGED rowVars
              \/ pc'[i] = pc[i] /\ UNCHANGED << runVars, rowVars >>
           /\ mishaps' = mishaps
      BY <1>3, RequestsTouch
    <2>2. \A j \in Instances : j # i => Hand(j)'
      BY <2>1, UntouchedKeeps DEF HandInv
    <2>3. Hand(i)'
      <3>1. Hand(i)
        BY DEF HandInv
      <3>2. CASE pc'[i] = pc[i] /\ UNCHANGED << runVars, rowVars >>
        BY <2>1, <3>1, <3>2 DEF Hand, runVars, rowVars, ByAge
      <3>3. CASE pc[i] = "idle" /\ pc'[i] \in {"idle", "fetching", "previewing"}
        BY <2>1, <3>1, <3>3 DEF Hand, Moving, rowVars
      <3> QED
        BY <2>1, <3>2, <3>3 DEF Running
    <2> QED
      BY <2>2, <2>3 DEF HandInv
  <1>4. CASE Renewed
    <2> SUFFICES ASSUME NEW i \in Instances PROVE Hand(i)'
      BY DEF HandInv
    <2>1. CASE Untouched(i)
      BY <1>4, <2>1, RenewedTouches, UntouchedKeeps DEF HandInv
    <2>2. CASE ~Running(i) /\ good'[i] = {} /\ bad'[i] = {} /\ done'[i] = {}
      <3>1. pc'[i] = "idle" /\ todo'[i] = {} /\ cur'[i] = NoMessage
        BY <1>4, <2>2, RenewedTouches DEF HandInv, Hand, Running, runVars
      <3> QED
        BY <3>1 DEF Hand, Moving
    <2> QED
      BY <1>4, <2>1, <2>2, RenewedTouches
  <1>5. CASE LinkDown
    BY <1>5, LinkDownHand
  <1>6. CASE UNCHANGED vars
    BY <1>6 DEF vars, HandInv, Hand, ByAge, rootVars, sweepVars, runVars, rowVars, historyVars
  <1> QED
    BY <1>1, <1>2, <1>3, <1>4, <1>5, <1>6 DEF Next, Renewed

\* A set of messages with one more.
LEMMA OneMore ==
  ASSUME NEW S \in SUBSET Messages, NEW m \in Messages, m \notin S
  PROVE  Cardinality(S) \in Nat /\ Cardinality(S \cup {m}) = Cardinality(S) + 1
  <1>1. IsFiniteSet(S)
    BY NameAssumption, FS_Subset
  <1> QED
    BY <1>1, FS_AddElement, FS_CardinalityType

\* The rows of a settled message say what became of it, and are counted.
LEMMA SettleRows ==
  ASSUME TypeInv, NEW i \in Instances, Hand(i), RowsTrue(i), CountersTell(i), Settle(i)
  PROVE  RowsTrue(i)' /\ CountersTell(i)'
  <1>1. PICK o \in Outcomes(Mode(i, source[i]), result[i]) :
       /\ mishaps' = IF o.broken THEN mishaps + 1 ELSE mishaps
       /\ good' = IF o.row = "good" THEN [good EXCEPT ![i] = @ \cup {cur[i]}] ELSE good
       /\ bad' = IF o.row = "bad" THEN [bad EXCEPT ![i] = @ \cup {cur[i]}] ELSE bad
       /\ count' = [count EXCEPT ![i] =
            [processed |-> IF o.aborts \/ i \in Sweepers THEN @.processed ELSE @.processed + 1,
             moved |-> @.moved + o.moved,
             skipped |-> @.skipped + o.skipped,
             errors |-> @.errors + o.errors]]
       /\ unlogged' = IF o.broken THEN unlogged \cup {i} ELSE unlogged
    BY DEF Settle
  <1>2. pc[i] = "settling" /\ done' = done
    BY DEF Settle
  <1>3. Lawful(o, Mode(i, source[i]), result[i])
    BY ModeType, OutcomeLaws DEF TypeInv, TypeOK
  <1>4. /\ o.moved \in {0, 1} /\ o.skipped \in {0, 1} /\ o.errors \in {0, 1}
        /\ o.row \in {"good", "bad", "none"}
    BY ModeType, OutcomeTypes DEF TypeInv, TypeOK
  <1>5. /\ cur[i] \in Messages /\ cur[i] \notin good[i] /\ cur[i] \notin bad[i]
        /\ result[i] = "moved" => cur[i] \in done[i]
        /\ mishaps = 0 /\ result[i] # "moved" => cur[i] \notin done[i]
    BY <1>2 DEF Hand
  <1>6. /\ good'[i] = IF o.row = "good" THEN good[i] \cup {cur[i]} ELSE good[i]
        /\ bad'[i] = IF o.row = "bad" THEN bad[i] \cup {cur[i]} ELSE bad[i]
    BY <1>1 DEF TypeInv, TypeOK
  <1>7. ASSUME mishaps' = 0 PROVE ~o.broken /\ mishaps = 0
    BY <1>1, <1>7 DEF TypeInv, TypeOK
  <1>8. RowsTrue(i)'
    <2>1. good'[i] \subseteq done'[i]
      BY <1>2, <1>3, <1>5, <1>6 DEF RowsTrue, Lawful
    <2>2. ASSUME mishaps' = 0 PROVE bad'[i] \cap done'[i] = {}
      BY <1>2, <1>3, <1>5, <1>6, <1>7, <2>2 DEF RowsTrue, Lawful
    <2> QED
      BY <2>1, <2>2 DEF RowsTrue
  <1>9. CountersTell(i)'
    <2> SUFFICES ASSUME i \notin unlogged'
                 PROVE  /\ count'[i].moved = Cardinality(good'[i])
                        /\ count'[i].errors = Cardinality(bad'[i])
                        /\ i \in Engines => count'[i].processed =
                             count'[i].moved + count'[i].skipped + count'[i].errors
      BY DEF CountersTell
    <2>1. ~o.broken /\ i \notin unlogged
      BY <1>1
    <2>2. /\ o.moved = (IF o.row = "good" THEN 1 ELSE 0)
          /\ o.errors = (IF o.row = "bad" THEN 1 ELSE 0)
          /\ o.moved + o.skipped + o.errors = 1 /\ ~o.aborts
      BY <1>3, <2>1 DEF Lawful
    <2>3. /\ count[i] \in Counts
          /\ count'[i] = [processed |-> IF i \in Sweepers THEN count[i].processed
                                                          ELSE count[i].processed + 1,
                          moved |-> count[i].moved + o.moved,
                          skipped |-> count[i].skipped + o.skipped,
                          errors |-> count[i].errors + o.errors]
      BY <1>1, <2>2 DEF TypeInv, TypeOK
    <2>4. /\ Cardinality(good[i] \cup {cur[i]}) = Cardinality(good[i]) + 1
          /\ Cardinality(bad[i] \cup {cur[i]}) = Cardinality(bad[i]) + 1
      BY <1>5, OneMore DEF TypeInv, TypeOK
    <2>5. /\ count[i].moved = Cardinality(good[i])
          /\ count[i].errors = Cardinality(bad[i])
          /\ i \in Engines => count[i].processed =
                                count[i].moved + count[i].skipped + count[i].errors
      BY <2>1 DEF CountersTell
    <2>6. /\ count[i].moved \in Nat /\ count[i].skipped \in Nat /\ count[i].errors \in Nat
          /\ count[i].processed \in Nat
      BY <2>3 DEF Counts
    <2>7. count'[i].moved = Cardinality(good'[i])
      BY <1>6, <2>2, <2>3, <2>4, <2>5, <2>6
    <2>8. count'[i].errors = Cardinality(bad'[i])
      BY <1>6, <2>2, <2>3, <2>4, <2>5, <2>6
    <2>9. i \in Engines => count'[i].processed =
                             count'[i].moved + count'[i].skipped + count'[i].errors
      BY <1>4, <2>2, <2>3, <2>5, <2>6, InstancesSplit
    <2> QED
      BY <2>7, <2>8, <2>9
  <1> QED
    BY <1>8, <1>9

\* Every step of an instance.
LEMMA OwnRows ==
  ASSUME TypeInv, NEW i \in Instances, Hand(i), RowsTrue(i), CountersTell(i),
         Steps(i) \/ Answers(i)
  PROVE  RowsTrue(i)' /\ CountersTell(i)'
  <1>0. mishaps' = 0 => mishaps = 0
    BY Elsewhere
  <1>1. CASE KeepsState(i)
    <2>1. CASE i \in Sweepers
      <3>1. count'[i] = Zero /\ good'[i] = {} /\ bad'[i] = {} /\ done'[i] = {}
        BY <1>1, <2>1 DEF KeepsState, Fresh, TypeInv, TypeOK
      <3> QED
        BY <3>1, FreshRows
    <2>2. CASE i \notin Sweepers
      BY <1>0, <1>1, <2>2 DEF KeepsState, rowVars, RowsTrue, CountersTell
    <2> QED
      BY <2>1, <2>2
  <1>2. CASE UNCHANGED << count, rowVars >>
    BY <1>0, <1>2 DEF rowVars, RowsTrue, CountersTell
  <1>3. CASE Take(i)
    <2>1. /\ UNCHANGED << rowVars, mishaps >>
          /\ \/ count' = count
             \/ count' = [count EXCEPT ![i].processed = @ + 1, ![i].skipped = @ + 1]
      BY <1>3 DEF Take, historyVars
    <2>2. count[i] \in Counts
      BY DEF TypeInv, TypeOK
    <2>3. /\ \/ count'[i] = count[i]
             \/ /\ count'[i].processed = count[i].processed + 1
                /\ count'[i].skipped = count[i].skipped + 1
                /\ count'[i].moved = count[i].moved /\ count'[i].errors = count[i].errors
          /\ UNCHANGED << rowVars, mishaps >>
      BY <2>1, <2>2 DEF TypeInv, TypeOK, Counts
    <2>4. CountersTell(i)'
      BY <2>2, <2>3 DEF CountersTell, rowVars, Counts
    <2> QED
      BY <2>1, <2>4 DEF RowsTrue, rowVars
  <1>4. CASE Settle(i)
    BY <1>4, SettleRows
  <1>5. CASE Moved(i)
    <2>1. /\ done'[i] = done[i] \cup {cur[i]} /\ good'[i] = good[i] /\ bad'[i] = bad[i]
          /\ UNCHANGED << count, unlogged, mishaps >> /\ cur[i] \notin bad[i]
      BY <1>5 DEF Moved, TypeInv, TypeOK, Hand, Moving, stateVars
    <2> QED
      BY <2>1 DEF RowsTrue, CountersTell
  <1> QED
    BY <1>1, <1>2, <1>3, <1>4, <1>5 DEF Steps, Answers, Finish, Cancelled, Yielded,
       FetchAnswered,
       FetchFails, PreviewAnswered, NotMoved, Created, stateVars

LEMMA RowStep == TypeInv /\ HandInv /\ RowInv /\ [Next]_vars => RowInv'
  <1> SUFFICES ASSUME TypeInv, HandInv, RowInv, [Next]_vars PROVE RowInv'
    OBVIOUS
  <1>1. CASE \E i \in Instances : Steps(i) \/ Answers(i)
    <2>1. PICK i \in Instances : Steps(i) \/ Answers(i)
      BY <1>1
    <2>2. RowsTrue(i)' /\ CountersTell(i)'
      BY <2>1, OwnRows DEF HandInv, RowInv
    <2>3. \A j \in Instances : j # i => RowsTrue(j)' /\ CountersTell(j)'
      BY <2>1, Elsewhere, UntouchedKeeps DEF RowInv
    <2> QED
      BY <2>2, <2>3 DEF RowInv
  <1>2. CASE Others \/ LinkUp
    BY <1>2, OthersTouch, UntouchedKeeps DEF RowInv
  <1>3. CASE Requests
    <2>1. PICK i \in Instances :
           /\ \A j \in Instances : j # i => Untouched(j)
           /\ \/ count'[i] = Zero /\ good'[i] = {} /\ bad'[i] = {} /\ done'[i] = {}
              \/ UNCHANGED << count, rowVars >>
           /\ mishaps' = mishaps
      BY <1>3, RequestsTouch
    <2>2. \A j \in Instances : j # i => RowsTrue(j)' /\ CountersTell(j)'
      BY <2>1, UntouchedKeeps DEF RowInv
    <2>3. CASE count'[i] = Zero /\ good'[i] = {} /\ bad'[i] = {} /\ done'[i] = {}
      BY <2>2, <2>3, FreshRows DEF RowInv
    <2>4. CASE UNCHANGED << count, rowVars >>
      <3>1. RowsTrue(i)' /\ CountersTell(i)'
        BY <2>1, <2>4 DEF RowInv, RowsTrue, CountersTell, rowVars
      <3> QED
        BY <2>2, <3>1 DEF RowInv
    <2> QED
      BY <2>1, <2>3, <2>4
  <1>4. CASE Renewed
    <2>1. mishaps' = mishaps
      BY <1>4, RenewedTouches
    <2> SUFFICES ASSUME NEW i \in Instances PROVE RowsTrue(i)' /\ CountersTell(i)'
      BY DEF RowInv
    <2>2. CASE Untouched(i)
      BY <2>1, <2>2, UntouchedKeeps DEF RowInv
    <2>3. CASE count'[i] = Zero /\ good'[i] = {} /\ bad'[i] = {} /\ done'[i] = {}
      BY <2>3, FreshRows
    <2> QED
      BY <1>4, <2>2, <2>3, RenewedTouches
  <1>5. CASE LinkDown
    <2>1. PICK late \in SUBSET {i \in Instances : pc[i] \in {"moving", "retrying"} /\ Movable(i)} :
         done' = [i \in Instances |-> IF i \in late THEN done[i] \cup {cur[i]} ELSE done[i]]
      BY <1>5 DEF LinkDown
    <2>2. mishaps' # 0 /\ UNCHANGED << good, bad, count, unlogged >>
      BY <1>5 DEF LinkDown, TypeInv, TypeOK, stateVars
    <2>3. \A i \in Instances : done[i] \subseteq done'[i]
      BY <2>1
    <2> QED
      BY <2>2, <2>3 DEF RowInv, RowsTrue, CountersTell
  <1>6. CASE UNCHANGED vars
    BY <1>6 DEF vars, RowInv, RowsTrue, CountersTell, stateVars, rowVars, historyVars
  <1> QED
    BY <1>1, <1>2, <1>3, <1>4, <1>5, <1>6 DEF Next, Renewed

\* The invariant of the rows and the counters.
LEMMA RowsInvariant == Spec => [](TypeInv /\ HandInv /\ RowInv)
  <1>1. Init => HandInv /\ RowInv
    <2>1. Cardinality({}) = 0
      BY FS_EmptySet
    <2> QED
      BY <2>1 DEF Init, HandInv, Hand, RowInv, RowsTrue, CountersTell, Zero, Moving
  <1> QED
    BY <1>1, InitType, TypeStep, HandStep, RowStep, PTL DEF Spec

\* A row that says a message was moved is true, for any number of sweeps and
\* batches at once; and one that says it failed, while nothing was lost.
THEOREM RowsAlwaysTrue == Spec => []RowsAreTrue
  <1>1. RowInv => RowsAreTrue
    BY DEF RowInv, RowsTrue, RowsAreTrue
  <1> QED
    BY <1>1, RowsInvariant, PTL

\* The counters of every run are those of its rows in the log, wherever a lost
\* connection cuts it; only a run that met a failed write of the log is left out.
THEOREM CountersAlwaysTell == Spec => []CountersTellTheLog
  <1>1. RowInv => CountersTellTheLog
    BY DEF RowInv, CountersTell, CountersTellTheLog
  <1> QED
    BY <1>1, RowsInvariant, PTL

-----------------------------------------------------------------------------
(* Cancelling.                                                             *)

\* A running engine that was told to stop knows it.
CancelInv == \A e \in stopped : cancel[e] /\ Running(e)

\* A step of an instance ends its run, or it goes on.
LEMMA EndsOrGoesOn ==
  ASSUME TypeInv, NEW i \in Instances, Steps(i) \/ Answers(i)
  PROVE  /\ \/ Ends(i)
            \/ pc'[i] # "idle" /\ UNCHANGED << excused, stopped >>
         /\ UNCHANGED cancel
  <1> USE DEF TypeInv, TypeOK, historyVars, stateVars
  <1>1. CASE Finish(i) \/ Cancelled(i) \/ FetchFails(i) \/ PreviewAnswered(i)
    BY <1>1 DEF Finish, Cancelled, FetchFails, PreviewAnswered, EndsAs
  <1>2. CASE Take(i)
    BY <1>2 DEF Take, GoesOn
  <1>3. CASE Settle(i)
    BY <1>3 DEF Settle, EndsAs, GoesOn
  <1>4. CASE Yielded(i) \/ FetchAnswered(i) \/ Moved(i) \/ NotMoved(i) \/ Created(i)
    BY <1>4 DEF Yielded, FetchAnswered, Moved, NotMoved, Created
  <1> QED
    BY <1>1, <1>2, <1>3, <1>4 DEF Steps, Answers

LEMMA CancelStep == TypeInv /\ CancelInv /\ [Next]_vars => CancelInv'
  <1> SUFFICES ASSUME TypeInv, CancelInv, [Next]_vars PROVE CancelInv'
    OBVIOUS
  <1>0. stopped \subseteq Engines /\ engine \in Engines
    BY DEF TypeInv, TypeOK
  <1>1. CASE \E i \in Instances : Steps(i) \/ Answers(i)
    <2>1. PICK i \in Instances : Steps(i) \/ Answers(i)
      BY <1>1
    <2>2. \A j \in Instances : j # i => pc'[j] = pc[j]
      BY <2>1, Elsewhere DEF Untouched
    <2>3. CASE Ends(i)
      <3>1. stopped' = stopped \ {i}
        BY <2>3 DEF Ends
      <3> QED
        BY <1>0, <2>1, <2>2, <3>1, EndsOrGoesOn, InstancesSplit DEF CancelInv, Running
    <2>4. CASE pc'[i] # "idle" /\ UNCHANGED << excused, stopped >>
      BY <1>0, <2>1, <2>2, <2>4, EndsOrGoesOn, InstancesSplit DEF CancelInv, Running
    <2> QED
      BY <2>1, <2>3, <2>4, EndsOrGoesOn
  <1>2. CASE Others \/ LinkUp
    BY <1>0, <1>2, OthersTouch, InstancesSplit DEF CancelInv, Running, Untouched
  <1>3. CASE Requests
    <2>1. CASE \E s \in Sweepers : SweepFires(s)
      BY <1>0, <2>1, InstancesSplit DEF SweepFires, CancelInv, Running, TypeInv, TypeOK
    <2>2. ASSUME NEW folder \in Sources, Execute(folder) \/ DryRun(folder) PROVE CancelInv'
      <3>1. engine \notin stopped
        BY <2>2 DEF Execute, DryRun, CancelInv
      <3>2. UNCHANGED stopped /\ \A e \in Engines : e # engine =>
              cancel'[e] = cancel[e] /\ pc'[e] = pc[e]
        <4>1. /\ UNCHANGED stopped
              /\ cancel' = [cancel EXCEPT ![engine] = FALSE] \/ cancel' = cancel
              /\ \/ pc' = pc
                 \/ pc' = [pc EXCEPT ![engine] = "fetching"]
                 \/ pc' = [pc EXCEPT ![engine] = "previewing"]
          BY <2>2 DEF Execute, DryRun
        <4> QED
          BY <4>1, InstancesSplit DEF TypeInv, TypeOK
      <3> QED
        BY <1>0, <3>1, <3>2 DEF CancelInv, Running
    <2>3. CASE Cancel
      <3>1. /\ stopped' = stopped \cup {engine} /\ pc' = pc /\ Running(engine)
            /\ cancel' = [cancel EXCEPT ![engine] = TRUE]
        BY <2>3 DEF Cancel, runVars
      <3> QED
        BY <1>0, <3>1 DEF CancelInv, Running, TypeInv, TypeOK
    <2> QED
      BY <1>3, <2>1, <2>2, <2>3 DEF Requests
  <1>4. CASE Renewed
    BY <1>0, <1>4, RenewedTouches DEF CancelInv, Running, runVars
  <1>5. CASE LinkDown
    <2>1. /\ UNCHANGED << cancel, stopped >>
          /\ \A i \in Instances : pc[i] # "idle" => pc'[i] # "idle"
      BY <1>5 DEF LinkDown, stateVars, Moving
    <2> QED
      BY <1>0, <2>1, InstancesSplit DEF CancelInv, Running
  <1>6. CASE UNCHANGED vars
    BY <1>6 DEF vars, CancelInv, Running, runVars, stateVars, historyVars
  <1> QED
    BY <1>1, <1>2, <1>3, <1>4, <1>5, <1>6 DEF Next, Renewed

\* Only taking a message begins a MOVE.
LEMMA OnlyTakeMoves ==
  ASSUME TypeInv, [Next]_vars, NEW i \in Instances,
         pc[i] \notin Moving, pc'[i] \in Moving
  PROVE  Take(i)
  <1>1. CASE \E j \in Instances : Steps(j) \/ Answers(j)
    <2>1. PICK j \in Instances : Steps(j) \/ Answers(j)
      BY <1>1
    <2>2. j = i
      BY <2>1, Elsewhere DEF Untouched
    <2>3. pc'[i] # "idle"
      BY DEF Moving
    <2>4. CASE Finish(i) \/ Cancelled(i) \/ FetchFails(i) \/ PreviewAnswered(i)
      BY <2>3, <2>4 DEF Finish, Cancelled, FetchFails, PreviewAnswered, EndsAs, Ends, TypeInv,
         TypeOK
    <2>5. CASE Settle(i)
      BY <2>5 DEF Settle, EndsAs, Ends, GoesOn, Moving, TypeInv, TypeOK
    <2>6. CASE Yielded(i) \/ FetchAnswered(i) \/ Moved(i) \/ NotMoved(i) \/ Created(i)
      BY <2>6 DEF Yielded, FetchAnswered, Moved, NotMoved, Created, Moving, TypeInv, TypeOK
    <2> QED
      BY <2>1, <2>2, <2>4, <2>5, <2>6 DEF Steps, Answers
  <1>2. CASE Others \/ LinkUp
    BY <1>2, OthersTouch DEF Untouched
  <1>3. CASE Requests
    <2>1. PICK j \in Instances :
           /\ \A k \in Instances : k # j => Untouched(k)
           /\ pc'[j] \in {"idle", "fetching", "previewing"} \/ pc'[j] = pc[j]
      BY <1>3, RequestsTouch
    <2> QED
      BY <2>1 DEF Untouched, Moving
  <1>4. CASE Renewed
    BY <1>4, RenewedTouches DEF runVars
  <1>5. CASE LinkDown
    BY <1>5 DEF LinkDown, Moving
  <1>6. CASE UNCHANGED vars
    BY <1>6 DEF vars, runVars
  <1> QED
    BY <1>1, <1>2, <1>3, <1>4, <1>5, <1>6 DEF Next, Renewed

\* An accepted cancel is heard, whenever it comes: the batch begins no other
\* MOVE, and nothing but the end of the run takes the cancel back.
THEOREM CancelAlwaysStops == Spec => CancelStops
  <1>1. Init => CancelInv
    BY DEF Init, CancelInv
  <1>2. TypeInv /\ CancelInv /\ [Next]_vars =>
          [\A e \in stopped : pc[e] \notin Moving => pc'[e] \notin Moving]_vars
    <2> SUFFICES ASSUME TypeInv, CancelInv, [Next]_vars, NEW e \in stopped, pc[e] \notin Moving
                 PROVE  pc'[e] \notin Moving
      OBVIOUS
    <2>1. e \in Engines /\ e \in Instances
      BY InstancesSplit DEF TypeInv, TypeOK
    <2>2. ~Take(e)
      BY <2>1 DEF CancelInv, Take, SeesCancel
    <2> QED
      BY <2>1, <2>2, OnlyTakeMoves
  <1> QED
    BY <1>1, <1>2, InitType, TypeStep, CancelStep, PTL DEF Spec, CancelStops

-----------------------------------------------------------------------------
(* Ages.                                                                   *)

\* The current sweeper has the current settings, and so has the engine unless the
\* last change has not made one.
CfgInv ==
  /\ sweeper # NoSweeper => cfg[sweeper] = settings
  /\ ~unbuilt => cfg[engine] = settings

\* A message on its way out of the Review folder is old enough, by the flag it
\* was fetched with; and that is its flag, unless the user has changed it.
Aged(i) ==
  /\ began[i] <= now
  /\ pc[i] \in Moving /\ ByAge(i) =>
       now >= IF cur[i] \in read[i] THEN cfg[i].read ELSE cfg[i].unread
Flagged(i) ==
  \A m \in Messages : m \in todo[i] \/ m = cur[i] =>
    m \in excused \/ (m \in read[i] <=> m \in seen)

AgeInv == \A i \in Instances : Aged(i) /\ Flagged(i)

\* Time goes on, and the settings have ages.
LEMMA AgeTypes ==
  ASSUME TypeInv
  PROVE  /\ now \in Nat
         /\ \A i \in Instances : began[i] \in Nat /\ cfg[i].read \in Nat /\ cfg[i].unread \in Nat
  <1>1. 0 .. MaxDay \subseteq Nat
    BY BoundAssumption
  <1> QED
    BY <1>1, SettingsAssumption DEF TypeInv, TypeOK

LEMMA CfgStep == TypeInv /\ CfgInv /\ [Next]_vars => CfgInv'
  <1> SUFFICES ASSUME TypeInv, CfgInv, [Next]_vars PROVE CfgInv'
    OBVIOUS
  <1>1. CASE \E i \in Instances : Steps(i) \/ Answers(i)
    BY <1>1, Elsewhere DEF CfgInv, rootVars, sweepVars
  <1>2. CASE Others \/ LinkUp
    BY <1>2 DEF Others, UserMoves, ForReview, Marks, Day, RulesChange, PutReview, LinkUp,
       CfgInv,
       rootVars, sweepVars, historyVars
  <1>3. CASE Requests
    BY <1>3, RequestsTouch DEF CfgInv, rootVars, sweepVars
  <1>4. CASE Renewed
    BY <1>4, RenewedTouches DEF CfgInv
  <1>5. CASE LinkDown
    BY <1>5 DEF LinkDown, CfgInv
  <1>6. CASE UNCHANGED vars
    BY <1>6 DEF vars, CfgInv, rootVars, sweepVars, historyVars
  <1> QED
    BY <1>1, <1>2, <1>3, <1>4, <1>5, <1>6 DEF Next, Renewed

\* Only a message that is old enough begins its way.
LEMMA TakeAged ==
  ASSUME TypeInv, NEW i \in Instances, Aged(i), Take(i)
  PROVE  Aged(i)'
  <1>1. PICK m \in todo[i], verdict \in RulesOf(i) :
       \/ pc' = [pc EXCEPT ![i] = "next"] \/ pc' = [pc EXCEPT ![i] = "yielding"]
       \/ pc' = [pc EXCEPT ![i] = "settling"]
       \/ /\ Fate(i, m, verdict) = "move"
          /\ cur' = [cur EXCEPT ![i] = m]
          /\ pc' = [pc EXCEPT ![i] = IF up THEN "moving" ELSE "settling"]
    BY DEF Take, GoesOn
  <1>2. UNCHANGED << source, began, read, now, cfg >>
    BY DEF Take, mailVars, rootVars, sweepVars
  <1>3. CASE pc'[i] \notin Moving
    BY <1>2, <1>3 DEF Aged
  <1>4. CASE Fate(i, m, verdict) = "move" /\ cur'[i] = m
    <2>1. ASSUME ByAge(i)
          PROVE  now >= IF m \in read[i] THEN cfg[i].read ELSE cfg[i].unread
      <3>1. Mode(i, source[i]) = "review"
        BY <2>1, ModeReview DEF TypeInv
      <3>2. OldEnough(cfg[i], IF i \in Sweepers THEN began[i] ELSE now, m \in read[i])
        BY <1>4, <3>1 DEF Fate
      <3>3. began[i] <= now
        BY DEF Aged
      <3> QED
        BY <3>2, <3>3, AgeTypes DEF OldEnough
    <2> QED
      BY <1>2, <1>4, <2>1 DEF Aged, ByAge
  <1> QED
    BY <1>1, <1>3, <1>4 DEF TypeInv, TypeOK, Moving

\* The user and time.
LEMMA OthersAged ==
  ASSUME TypeInv, HandInv, AgeInv, Others \/ LinkUp
  PROVE  AgeInv'
  <1>1. \A i \in Instances : Untouched(i)
    BY OthersTouch
  <1>2. now' \in Nat /\ now <= now'
    BY AgeTypes DEF Others, UserMoves, ForReview, Marks, Day, RulesChange, PutReview, LinkUp,
       mailVars
  <1>3. ASSUME NEW i \in Instances PROVE Aged(i)'
    <2>1. Aged(i) /\ Untouched(i)
      BY <1>1 DEF AgeInv
    <2> QED
      BY <1>2, <2>1, AgeTypes DEF Aged, Untouched, ByAge
  <1>4. ASSUME NEW i \in Instances PROVE Flagged(i)'
    <2>1. Flagged(i) /\ Untouched(i) /\ Hand(i)
      BY <1>1 DEF AgeInv, HandInv
    <2>2. CASE UNCHANGED << seen, excused >>
      BY <2>1, <2>2 DEF Flagged, Untouched
    <2>3. CASE \E m \in Messages : Marks(m)
      <3>1. PICK m \in Messages : Marks(m)
        BY <2>3
      <3>2. CASE Running(i)
        <4>1. /\ excused' = excused \cup {m}
              /\ \A n \in Messages : n # m => (n \in seen' <=> n \in seen)
          BY <3>1, <3>2 DEF Marks
        <4> QED
          BY <2>1, <4>1 DEF Flagged, Untouched
      <3>3. CASE ~Running(i)
        <4>1. todo'[i] = {} /\ cur'[i] = NoMessage
          BY <2>1, <3>3 DEF Hand, Running, Untouched
        <4> QED
          BY <4>1, NameAssumption DEF Flagged
      <3> QED
        BY <3>2, <3>3
    <2> QED
      BY <2>2, <2>3 DEF Others, UserMoves, ForReview, Day, RulesChange, PutReview, LinkUp,
         mailVars, historyVars
  <1> QED
    BY <1>3, <1>4 DEF AgeInv

\* The steps of an instance, for itself and for the others.
LEMMA OwnAged ==
  ASSUME TypeInv, HandInv, AgeInv, NEW i \in Instances, Steps(i) \/ Answers(i)
  PROVE  AgeInv'
  <1>1. /\ \A j \in Instances : j # i => Untouched(j)
        /\ UNCHANGED << seen, now, cfg >>
    BY Elsewhere DEF rootVars, sweepVars
  <1>2. Aged(i) /\ Flagged(i) /\ Hand(i)
    BY DEF AgeInv, HandInv
  <1>3. CASE Ends(i)
    <2>1. /\ pc'[i] = "idle" /\ began'[i] = 0 /\ todo'[i] = {} /\ cur'[i] = NoMessage
          /\ excused' = IF \E j \in Instances \ {i} : Running(j) THEN excused ELSE {}
      BY <1>3 DEF Ends, TypeInv, TypeOK
    <2>2. Aged(i)' /\ Flagged(i)'
      BY <1>1, <2>1, NameAssumption, AgeTypes DEF Aged, Flagged, Moving
    <2>3. ASSUME NEW j \in Instances, j # i PROVE Aged(j)' /\ Flagged(j)'
      <3>1. Aged(j) /\ Flagged(j) /\ Hand(j) /\ Untouched(j)
        BY <1>1, <2>3 DEF AgeInv, HandInv
      <3>2. Aged(j)'
        BY <1>1, <3>1 DEF Aged, Untouched, ByAge
      <3>3. CASE Running(j)
        <4>1. excused' = excused
          BY <2>1, <2>3, <3>3
        <4>2. Flagged(j)'
          BY <1>1, <3>1, <4>1 DEF Flagged, Untouched
        <4> QED
          BY <3>2, <4>2
      <3>4. CASE ~Running(j)
        <4>1. todo'[j] = {} /\ cur'[j] = NoMessage
          BY <3>1, <3>4 DEF Hand, Running, Untouched
        <4> QED
          BY <3>2, <4>1, NameAssumption DEF Flagged
      <3> QED
        BY <3>2, <3>3, <3>4
    <2> QED
      BY <2>2, <2>3 DEF AgeInv
  <1>4. CASE UNCHANGED << excused, stopped >> /\ ~Ends(i)
    <2>1. ASSUME NEW j \in Instances, j # i PROVE Aged(j)' /\ Flagged(j)'
      BY <1>1, <1>4, <2>1 DEF AgeInv, Aged, Flagged, Untouched, ByAge
    <2>2. CASE Take(i)
      <3>1. \A m \in Messages : m \in todo'[i] \/ m = cur'[i] => m \in todo[i] \/ m = cur[i]
        BY <2>2 DEF Take, TypeInv, TypeOK
      <3>2. Flagged(i)'
        BY <1>1, <1>2, <1>4, <2>2, <3>1 DEF Flagged, Take
      <3> QED
        BY <1>2, <2>1, <2>2, <3>2, TakeAged DEF AgeInv
    <2>3. CASE Settle(i)
      <3>1. /\ pc'[i] \in {"next", "yielding"} /\ cur'[i] = NoMessage
            /\ UNCHANGED << began, todo, read >>
        BY <1>4, <2>3 DEF Settle, EndsAs, GoesOn, TypeInv, TypeOK
      <3>2. Aged(i)'
        BY <1>1, <1>2, <3>1 DEF Aged, Moving
      <3>3. Flagged(i)'
        BY <1>1, <1>2, <1>4, <3>1, NameAssumption DEF Flagged
      <3> QED
        BY <2>1, <3>2, <3>3 DEF AgeInv
    <2>4. CASE FetchAnswered(i)
      <3>1. /\ pc'[i] = "next" /\ cur'[i] = NoMessage /\ UNCHANGED began
            /\ read'[i] = todo'[i] \cap seen
        BY <1>2, <2>4 DEF FetchAnswered, Hand, TypeInv, TypeOK
      <3>2. Aged(i)'
        BY <1>1, <1>2, <3>1 DEF Aged, Moving
      <3>3. Flagged(i)'
        BY <1>1, <3>1, NameAssumption DEF Flagged
      <3> QED
        BY <2>1, <3>2, <3>3 DEF AgeInv
    <2>5. CASE Yielded(i) \/ Moved(i) \/ NotMoved(i) \/ Created(i)
      <3>1. /\ pc'[i] \in Moving => pc[i] \in Moving
            /\ UNCHANGED << source, began, todo, read, cur >>
        BY <2>5 DEF Yielded, Moved, NotMoved, Created, Moving, TypeInv, TypeOK
      <3>2. Aged(i)'
        BY <1>1, <1>2, <3>1 DEF Aged, ByAge
      <3>3. Flagged(i)'
        BY <1>1, <1>2, <1>4, <3>1 DEF Flagged
      <3> QED
        BY <2>1, <3>2, <3>3 DEF AgeInv
    <2>6. ~(Finish(i) \/ Cancelled(i) \/ FetchFails(i) \/ PreviewAnswered(i))
      BY <1>4 DEF Finish, Cancelled, FetchFails, PreviewAnswered, EndsAs
    <2> QED
      BY <2>2, <2>3, <2>4, <2>5, <2>6 DEF Steps, Answers
  <1> QED
    BY <1>3, <1>4, EndsOrGoesOn

LEMMA AgeStep == TypeInv /\ HandInv /\ AgeInv /\ [Next]_vars => AgeInv'
  <1> SUFFICES ASSUME TypeInv, HandInv, AgeInv, [Next]_vars PROVE AgeInv'
    OBVIOUS
  <1>1. CASE \E i \in Instances : Steps(i) \/ Answers(i)
    BY <1>1, OwnAged
  <1>2. CASE Others \/ LinkUp
    BY <1>2, OthersAged
  <1>3. CASE Requests
    <2>1. PICK i \in Instances :
           /\ \A j \in Instances : j # i => Untouched(j)
           /\ cfg'[i] = cfg[i] /\ todo'[i] = todo[i] /\ read'[i] = read[i] /\ cur'[i] = cur[i]
           /\ \/ pc'[i] \in {"idle", "fetching", "previewing"}
              \/ pc'[i] = pc[i] /\ UNCHANGED runVars
           /\ UNCHANGED << mailVars, excused >>
      BY <1>3, RequestsTouch
    <2>2. began'[i] <= now
      <3>1. began'[i] \in {began[i], now}
        BY <1>3 DEF Requests, SweepFires, Execute, DryRun, Cancel, runVars, TypeInv, TypeOK
      <3> QED
        BY <3>1, AgeTypes DEF AgeInv, Aged
    <2>3. \A j \in Instances : j # i => Aged(j)' /\ Flagged(j)'
      BY <2>1 DEF AgeInv, Aged, Flagged, Untouched, ByAge, mailVars
    <2>4. Flagged(i)'
      BY <2>1 DEF AgeInv, Flagged, mailVars
    <2>5. Aged(i)'
      BY <2>1, <2>2 DEF AgeInv, Aged, ByAge, Moving, mailVars, runVars
    <2> QED
      BY <2>3, <2>4, <2>5 DEF AgeInv
  <1>4. CASE Renewed
    <2>1. UNCHANGED << mailVars, runVars, excused >>
      BY <1>4, RenewedTouches
    <2> SUFFICES ASSUME NEW i \in Instances PROVE Aged(i)' /\ Flagged(i)'
      BY DEF AgeInv
    <2>2. Flagged(i)'
      BY <2>1 DEF AgeInv, Flagged, mailVars, runVars
    <2>3. cfg'[i] = cfg[i] \/ ~Running(i)
      BY <1>4, RenewedTouches DEF Untouched
    <2>4. Aged(i)'
      BY <2>1, <2>3 DEF AgeInv, Aged, ByAge, Running, Moving, mailVars, runVars
    <2> QED
      BY <2>2, <2>4
  <1>5. CASE LinkDown
    <2>1. /\ UNCHANGED << began, now, todo, cur, read, seen, excused >>
          /\ \A i \in Instances : pc'[i] \notin Moving
      BY <1>5 DEF LinkDown, Moving
    <2> QED
      BY <2>1 DEF AgeInv, Aged, Flagged
  <1>6. CASE UNCHANGED vars
    BY <1>6 DEF vars, AgeInv, Aged, Flagged, ByAge, mailVars, rootVars, sweepVars, runVars,
       historyVars
  <1> QED
    BY <1>1, <1>2, <1>3, <1>4, <1>5, <1>6 DEF Next, Renewed

\* What a step moves for an instance is the message in its hand, out of the
\* folder it runs over.
LEMMA NewlyDone ==
  ASSUME TypeInv, [Next]_vars, NEW i \in Instances, NEW m \in done'[i] \ done[i]
  PROVE  pc[i] \in Moving /\ m = cur[i] /\ where[m] = source[i]
  <1>1. CASE \E j \in Instances : Steps(j) \/ Answers(j)
    <2>1. PICK j \in Instances : Steps(j) \/ Answers(j)
      BY <1>1
    <2>2. j = i
      BY <2>1, Elsewhere DEF Untouched
    <2>3. CASE Moved(i)
      BY <2>3 DEF Moved, Movable, Moving, TypeInv, TypeOK
    <2>4. CASE KeepsState(i)
      BY <2>4 DEF KeepsState, Fresh, rowVars, TypeInv, TypeOK
    <2>5. CASE UNCHANGED done
      BY <2>5
    <2> QED
      BY <2>1, <2>2, <2>3, <2>4, <2>5 DEF Steps, Answers, Finish, Cancelled, Take, Settle,
         Yielded,
         FetchAnswered, FetchFails, PreviewAnswered, NotMoved, Created, rowVars
  <1>2. CASE Others \/ LinkUp
    BY <1>2, OthersTouch DEF Untouched
  <1>3. CASE Requests
    <2>1. done'[i] = {} \/ done'[i] = done[i]
      BY <1>3, RequestsTouch DEF Untouched, rowVars
    <2> QED
      BY <2>1
  <1>4. CASE Renewed
    <2>1. done'[i] = {} \/ done'[i] = done[i]
      BY <1>4, RenewedTouches DEF Untouched
    <2> QED
      BY <2>1
  <1>5. CASE LinkDown
    <2>1. PICK late \in SUBSET {k \in Instances : pc[k] \in {"moving", "retrying"} /\ Movable(k)} :
         done' = [k \in Instances |-> IF k \in late THEN done[k] \cup {cur[k]} ELSE done[k]]
      BY <1>5 DEF LinkDown
    <2> QED
      BY <2>1 DEF Movable, Moving
  <1>6. CASE UNCHANGED vars
    BY <1>6 DEF vars, rowVars
  <1> QED
    BY <1>1, <1>2, <1>3, <1>4, <1>5, <1>6 DEF Next, Renewed

\* What the current sweeper, or the current engine, takes out of the Review
\* folder is old enough by the settings of that moment, however the settings
\* have changed and whatever the replaced instances still do.
THEOREM OnlyAgedAlways == Spec => OnlyAged
  <1>1. Init => CfgInv /\ AgeInv
    <2> SUFFICES ASSUME Init PROVE CfgInv /\ AgeInv
      OBVIOUS
    <2>1. CfgInv
      BY InstancesSplit DEF Init, CfgInv
    <2>2. AgeInv
      BY NameAssumption DEF Init, AgeInv, Aged, Flagged, Moving
    <2> QED
      BY <2>1, <2>2
  <1> DEFINE A == \A i \in {sweeper, engine} \cap Instances, m \in Messages :
                    /\ ~unbuilt
                    /\ where[m] = settings.folder
                    /\ m \in done'[i] \ done[i]
                    => OldEnough(settings, now, m \in seen) \/ m \in excused
  <1>2. TypeInv /\ CfgInv /\ AgeInv /\ [Next]_vars => [A]_vars
    <2> SUFFICES ASSUME TypeInv, CfgInv, AgeInv, [Next]_vars,
                        NEW i \in {sweeper, engine} \cap Instances, NEW m \in Messages,
                        ~unbuilt, where[m] = settings.folder,
                        m \in done'[i] \ done[i], m \notin excused
                 PROVE  OldEnough(settings, now, m \in seen)
      OBVIOUS
    <2>1. pc[i] \in Moving /\ m = cur[i] /\ source[i] = settings.folder
      BY NewlyDone
    <2>2. cfg[i] = settings
      <3>1. i = sweeper => sweeper # NoSweeper
        BY NameAssumption DEF Instances
      <3> QED
        BY <3>1 DEF CfgInv
    <2>3. ByAge(i)
      BY <2>1, <2>2, SettingsAssumption DEF ByAge, TypeInv, TypeOK
    <2>4. now >= IF m \in read[i] THEN settings.read ELSE settings.unread
      BY <2>1, <2>2, <2>3 DEF AgeInv, Aged
    <2>5. m \in read[i] <=> m \in seen
      BY <2>1 DEF AgeInv, Flagged
    <2> QED
      BY <2>4, <2>5 DEF OldEnough
  <1>3. Spec => [][A]_vars
    <2> HIDE DEF A
    <2> QED
      BY <1>1, <1>2, InitType, TypeStep, HandStep, RowsInvariant, CfgStep, AgeStep, PTL DEF Spec
  <1> QED
    BY <1>3 DEF OnlyAged

-----------------------------------------------------------------------------
(* Previews.                                                               *)

\* The state the web UI shows of an engine is that of its run.
StatusInv ==
  \A e \in Engines :
    /\ Running(e) => status[e] \in {"dry-running", "executing"}
    /\ pc[e] \notin {"idle", "previewing", "cut"} => status[e] = "executing"

\* What the preview said would be moved, and what the batch moves, by the flags
\* of the messages and by those they were fetched with.
Wanted(e, m) ==
  /\ m \notin sentinels
  /\ \/ /\ promised[e].source # "inbox" /\ promised[e].source = cfg[e].folder
        /\ now >= IF m \in seen THEN cfg[e].read ELSE cfg[e].unread
     \/ promised[e].source = "inbox" /\ rules \in {"review", "move"}
     \/ promised[e].source \notin {"inbox", cfg[e].folder} /\ rules = "move"
Wants(e, m) ==
  /\ m \notin sentinels
  /\ \/ /\ source[e] # "inbox" /\ source[e] = cfg[e].folder
        /\ now >= IF m \in read[e] THEN cfg[e].read ELSE cfg[e].unread
     \/ source[e] = "inbox" /\ rules \in {"review", "move"}
     \/ source[e] \notin {"inbox", cfg[e].folder} /\ rules = "move"

\* The messages the batch has tried to move, or still will.
Tries(e) == pc[e] \in Moving \/ (pc[e] = "settling" /\ result[e] # "skipped")
Tried(e) ==
  good[e] \cup bad[e] \cup {m \in todo[e] : Wants(e, m)} \cup (IF Tries(e) THEN {cur[e]} ELSE {})

\* A promise holds for the folder as it is, then for the rest of the run, then
\* for what the run has done; a replaced engine runs no more once it has made one.
Kept(e) ==
  promised[e] # NoPromise =>
    /\ e # engine => pc[e] = "idle" /\ status[e] = "previewing"
    /\ e = engine /\ (status[e] = "previewing" \/ pc[e] = "fetching") =>
         promised[e].messages = {m \in Messages : where[m] = promised[e].source /\ Wanted(e, m)}
    /\ pc[e] = "fetching" => source[e] = promised[e].source
    /\ e \notin unlogged /\ pc[e] \in {"next", "yielding", "settling"} \cup Moving =>
         Tried(e) = promised[e].messages
    /\ e \notin unlogged /\ status[e] = "completed" => good[e] \cup bad[e] = promised[e].messages

KeepInv == \A e \in Engines : Kept(e)

\* The fields of a state are those of its run.
LEMMA StatusStep == TypeInv /\ StatusInv /\ [Next]_vars => StatusInv'
  <1> SUFFICES ASSUME TypeInv, StatusInv, [Next]_vars PROVE StatusInv'
    OBVIOUS
  <1>1. CASE \E i \in Instances : Steps(i) \/ Answers(i)
    <2>1. PICK i \in Instances : Steps(i) \/ Answers(i)
      BY <1>1
    <2>2. \A e \in Engines : e # i => status'[e] = status[e] /\ pc'[e] = pc[e]
      BY <2>1, Elsewhere, InstancesSplit DEF Untouched
    <2>3. ASSUME i \in Engines
          PROVE  /\ Running(i)' => status'[i] \in {"dry-running", "executing"}
                 /\ pc'[i] \notin {"idle", "previewing", "cut"} => status'[i] = "executing"
      <3>1. CASE Ends(i)
        BY <3>1 DEF Ends, Running, TypeInv, TypeOK
      <3>2. CASE ~Ends(i)
        <4>1. UNCHANGED status /\ pc[i] \notin {"idle", "previewing", "cut"}
          BY <2>1, <3>2 DEF Steps, Answers, Finish, Cancelled, Take, Settle, Yielded,
             FetchAnswered, FetchFails, PreviewAnswered, Moved, NotMoved, Created, EndsAs,
             stateVars
        <4> QED
          BY <2>3, <4>1 DEF StatusInv
      <3> QED
        BY <3>1, <3>2
    <2> QED
      BY <2>2, <2>3 DEF StatusInv, Running
  <1>2. CASE Others \/ LinkUp
    BY <1>2, OthersTouch, InstancesSplit DEF StatusInv, Untouched, Running
  <1>3. ASSUME NEW s \in Sweepers, SweepFires(s) PROVE StatusInv'
    BY <1>3, InstancesSplit DEF SweepFires, StatusInv, Running, TypeInv, TypeOK
  <1>4. CASE Cancel
    BY <1>4 DEF Cancel, StatusInv, Running, runVars
  <1>5. ASSUME NEW folder \in Sources, Execute(folder) PROVE StatusInv'
    <2>1. engine \in Engines /\ engine \in Instances
      BY InstancesSplit DEF TypeInv, TypeOK
    <2>2. ASSUME NEW e \in Engines, e # engine PROVE status'[e] = status[e] /\ pc'[e] = pc[e]
      <3>1. e \in Instances
        BY InstancesSplit
      <3>2. CASE up
        BY <1>5, <2>1, <2>2, <3>1, <3>2 DEF Execute, TypeInv, TypeOK
      <3>3. CASE ~up
        BY <1>5, <2>1, <2>2, <3>3 DEF Execute, TypeInv, TypeOK
      <3> QED
        BY <3>2, <3>3
    <2>3. \/ pc'[engine] = "fetching" /\ status'[engine] = "executing"
          \/ pc'[engine] = "idle"
      BY <1>5, <2>1 DEF Execute, Running, TypeInv, TypeOK
    <2> QED
      BY <2>2, <2>3 DEF StatusInv, Running
  <1>6. ASSUME NEW folder \in Sources, DryRun(folder) PROVE StatusInv'
    <2>1. engine \in Engines /\ engine \in Instances
      BY InstancesSplit DEF TypeInv, TypeOK
    <2>2. ASSUME NEW e \in Engines, e # engine PROVE status'[e] = status[e] /\ pc'[e] = pc[e]
      <3>1. e \in Instances
        BY InstancesSplit
      <3>2. CASE up
        BY <1>6, <2>1, <2>2, <3>1, <3>2 DEF DryRun, TypeInv, TypeOK
      <3>3. CASE ~up
        BY <1>6, <2>1, <2>2, <3>3 DEF DryRun, TypeInv, TypeOK
      <3> QED
        BY <3>2, <3>3
    <2>3. \/ pc'[engine] = "previewing" /\ status'[engine] = "dry-running"
          \/ pc'[engine] = "idle"
      BY <1>6, <2>1 DEF DryRun, Running, TypeInv, TypeOK
    <2> QED
      BY <2>2, <2>3 DEF StatusInv, Running
  <1>7. CASE Renewed
    <2>1. \A e \in Engines : Untouched(e) \/ pc'[e] = "idle"
      BY <1>7, RenewedTouches, InstancesSplit DEF Running, runVars
    <2> QED
      BY <2>1 DEF StatusInv, Untouched, Running
  <1>8. CASE LinkDown
    <2>1. ASSUME NEW e \in Engines
          PROVE  /\ status'[e] = status[e]
                 /\ pc'[e] = "idle" => pc[e] = "idle"
                 /\ pc[e] = "idle" => pc'[e] = "idle"
                 /\ pc[e] = "previewing" => pc'[e] = "cut"
                 /\ pc[e] = "cut" => pc'[e] = "cut"
      <3>1. e \in Instances
        BY InstancesSplit
      <3> QED
        BY <1>8, <3>1 DEF LinkDown, stateVars, Moving
    <2> QED
      BY <2>1 DEF StatusInv, Running
  <1>9. CASE UNCHANGED vars
    BY <1>9 DEF vars, runVars, stateVars, StatusInv, Running
  <1> QED
    BY <1>1, <1>2, <1>3, <1>4, <1>5, <1>6, <1>7, <1>8, <1>9 DEF Next, Requests, Renewed

\* The groups of a dry run, and what a batch does, are decided alike.
LEMMA PreviewTells ==
  ASSUME TypeInv, NEW e \in Engines, NEW found \in SUBSET Messages, NEW m \in Messages
  PROVE  m \in Previewed(e, found, rules) <=>
           /\ m \in found /\ m \notin sentinels
           /\ \/ /\ source[e] # "inbox" /\ source[e] = cfg[e].folder
                 /\ now >= IF m \in seen THEN cfg[e].read ELSE cfg[e].unread
              \/ source[e] = "inbox" /\ rules \in {"review", "move"}
              \/ source[e] \notin {"inbox", cfg[e].folder} /\ rules = "move"
  <1>1. e \in Instances /\ e \notin Sweepers
    BY InstancesSplit
  <1>2. cfg[e].folder # "inbox"
    BY <1>1, SettingsAssumption DEF TypeInv, TypeOK
  <1>3. CASE source[e] = "inbox"
    <2>1. Mode(e, source[e]) = "inbox"
      BY <1>1, <1>3 DEF Mode
    <2> QED
      BY <1>2, <1>3, <2>1 DEF Previewed
  <1>4. CASE source[e] # "inbox" /\ source[e] = cfg[e].folder
    <2>1. Mode(e, source[e]) = "review"
      BY <1>1, <1>4 DEF Mode
    <2> QED
      BY <1>4, <2>1 DEF Previewed, OldEnough
  <1>5. CASE source[e] \notin {"inbox", cfg[e].folder}
    <2>1. Mode(e, source[e]) = "generic"
      BY <1>1, <1>5 DEF Mode
    <2> QED
      BY <1>5, <2>1 DEF Previewed
  <1> QED
    BY <1>3, <1>4, <1>5

LEMMA FateTells ==
  ASSUME TypeInv, NEW e \in Engines, NEW m \in Messages
  PROVE  Fate(e, m, rules) = "move" <=> Wants(e, m)
  <1>1. e \in Instances /\ e \notin Sweepers
    BY InstancesSplit
  <1>2. cfg[e].folder # "inbox"
    BY <1>1, SettingsAssumption DEF TypeInv, TypeOK
  <1>3. rules \in {"none", "skip", "review", "move"}
    BY DEF TypeInv, TypeOK, Verdicts
  <1>4. CASE m \in sentinels
    <2>1. Fate(e, m, rules) = "ignored"
      BY <1>4 DEF Fate
    <2> QED
      BY <1>4, <2>1 DEF Wants
  <1>5. CASE m \notin sentinels /\ source[e] = "inbox"
    <2>1. Mode(e, source[e]) = "inbox"
      BY <1>1, <1>5 DEF Mode
    <2>2. Fate(e, m, rules) = CASE rules = "none" -> "passed"
                                [] rules = "skip" -> "skip"
                                [] OTHER -> "move"
      BY <1>5, <2>1 DEF Fate
    <2> QED
      BY <1>2, <1>3, <1>5, <2>2 DEF Wants
  <1>6. CASE m \notin sentinels /\ source[e] # "inbox" /\ source[e] = cfg[e].folder
    <2>1. Mode(e, source[e]) = "review"
      BY <1>1, <1>6 DEF Mode
    <2>2. Fate(e, m, rules) = IF OldEnough(cfg[e], now, m \in read[e]) THEN "move" ELSE "passed"
      BY <1>1, <1>6, <2>1 DEF Fate
    <2> QED
      BY <1>6, <2>2 DEF Wants, OldEnough
  <1>7. CASE m \notin sentinels /\ source[e] \notin {"inbox", cfg[e].folder}
    <2>1. Mode(e, source[e]) = "generic"
      BY <1>1, <1>7 DEF Mode
    <2>2. Fate(e, m, rules) = CASE rules = "none" -> "passed"
                                [] rules = "skip" \/ rules = "review" -> "skip"
                                [] OTHER -> "move"
      BY <1>7, <2>1 DEF Fate
    <2> QED
      BY <1>3, <1>7, <2>2 DEF Wants
  <1> QED
    BY <1>4, <1>5, <1>6, <1>7

\* A promise that no step concerns is still kept.
LEMMA KeptElsewhere ==
  ASSUME NEW e \in Engines, Kept(e), Untouched(e),
         promised'[e] = NoPromise
           \/ (promised'[e] = promised[e]
               /\ UNCHANGED << engine, where, sentinels, seen, now, rules >>)
  PROVE  Kept(e)'
  <1>1. CASE promised'[e] = NoPromise
    BY <1>1 DEF Kept
  <1>2. CASE /\ promised'[e] = promised[e]
             /\ UNCHANGED << engine, where, sentinels, seen, now, rules >>
    <2>1. \A m \in Messages : Wanted(e, m)' <=> Wanted(e, m)
      BY <1>2 DEF Wanted, Untouched
    <2>2. Tried(e)' = Tried(e)
      <3>1. \A m : Wants(e, m)' <=> Wants(e, m)
        BY <1>2 DEF Wants, Untouched
      <3>2. Tries(e)' <=> Tries(e)
        BY DEF Tries, Untouched
      <3> QED
        BY <3>1, <3>2 DEF Tried, Untouched
    <2> QED
      BY <1>2, <2>1, <2>2 DEF Kept, Untouched
  <1> QED
    BY <1>1, <1>2

\* A step of the engine that made the promise keeps it.
LEMMA KeptOwn ==
  ASSUME TypeInv, HandInv, StatusInv, StatusInv', NEW e \in Engines, Kept(e),
         Steps(e) \/ Answers(e)
  PROVE  Kept(e)'
  <1>1. /\ e \in Instances /\ e \notin Sweepers
        /\ Hand(e) /\ pc[e] \in Phases /\ result[e] \in {"moved", "failed", "skipped"}
        /\ UNCHANGED << sentinels, seen, now, rules, engine, cfg >>
        /\ e \in unlogged => e \in unlogged'
        /\ pc[e] # "idle"
    <2>1. e \in Instances /\ e \notin Sweepers
      BY InstancesSplit
    <2>2. pc[e] # "idle"
      BY DEF Steps, Answers, Finish, Cancelled, Take, Yielded, Settle, FetchFails,
         FetchAnswered,
         PreviewAnswered, Moved, NotMoved, Created
    <2>3. e \in unlogged => e \in unlogged'
      BY <2>1 DEF Steps, Answers, Finish, Cancelled, Take, Yielded, Settle, FetchFails,
         FetchAnswered, PreviewAnswered, Moved, NotMoved, Created, KeepsState, rowVars
    <2> QED
      BY <2>1, <2>2, <2>3, Elsewhere DEF HandInv, TypeInv, TypeOK, rootVars, sweepVars
  <1>2. CASE PreviewAnswered(e)
    <2>1. PICK verdict \in RulesOf(e) :
         promised' = [promised EXCEPT ![e] =
           [source |-> source[e],
            messages |-> Previewed(e, {m \in Messages : where[m] = source[e]}, verdict)]]
      BY <1>2 DEF PreviewAnswered
    <2>2. /\ promised'[e].source = source[e]
          /\ promised'[e].messages =
               Previewed(e, {m \in Messages : where[m] = source[e]}, verdict)
      BY <2>1 DEF TypeInv, TypeOK
    <2>3. pc'[e] = "idle" /\ status'[e] = "previewing" /\ where' = where
      BY <1>1, <1>2 DEF PreviewAnswered, EndsAs, Ends, TypeInv, TypeOK, mailVars
    <2>4. ASSUME e = engine
          PROVE  promised'[e].messages =
                   {m \in Messages : where'[m] = promised'[e].source /\ Wanted(e, m)'}
      <3>1. verdict = rules
        BY <2>4 DEF RulesOf
      <3>2. \A m \in Messages : Wanted(e, m)' <=>
             /\ m \notin sentinels
             /\ \/ /\ source[e] # "inbox" /\ source[e] = cfg[e].folder
                   /\ now >= IF m \in seen THEN cfg[e].read ELSE cfg[e].unread
                \/ source[e] = "inbox" /\ rules \in {"review", "move"}
                \/ source[e] \notin {"inbox", cfg[e].folder} /\ rules = "move"
        BY <1>1, <2>2 DEF Wanted
      <3>3. Previewed(e, {m \in Messages : where[m] = source[e]}, rules) \subseteq Messages
        BY DEF Previewed
      <3> QED
        BY <2>2, <2>3, <3>1, <3>2, <3>3, PreviewTells
    <2> QED
      BY <1>1, <2>3, <2>4 DEF Kept, Moving
  <1>3. CASE ~PreviewAnswered(e)
    <2>1. promised'[e] = promised[e]
      BY <1>3 DEF Steps, Answers, Finish, Cancelled, Take, Yielded, Settle, FetchFails,
         FetchAnswered, Moved, NotMoved, Created, Void, historyVars
    <2> SUFFICES ASSUME promised[e] # NoPromise PROVE Kept(e)'
      BY <2>1 DEF Kept
    <2>2. e = engine
      BY <1>1 DEF Kept
    <2>3. CASE Cancelled(e) \/ FetchFails(e)
      <3>1. pc'[e] = "idle" /\ status'[e] \in {"cancelled", "error"}
        BY <1>1, <2>3 DEF Cancelled, FetchFails, EndsAs, Ends, TypeInv, TypeOK
      <3> QED
        BY <1>1, <2>2, <3>1 DEF Kept, Moving
    <2>4. CASE Finish(e)
      <3>1. /\ pc[e] = "next" /\ todo[e] = {} /\ pc'[e] = "idle" /\ status'[e] = "completed"
            /\ good' = good /\ bad' = bad /\ unlogged' = unlogged
        BY <1>1, <2>4 DEF Finish, EndsAs, Ends, KeepsState, rowVars, TypeInv, TypeOK
      <3>2. Tried(e) = good[e] \cup bad[e]
        BY <3>1 DEF Tried, Tries, Moving
      <3> QED
        BY <1>1, <2>1, <2>2, <3>1, <3>2 DEF Kept, Moving
    <2>5. CASE FetchAnswered(e)
      <3>1. /\ pc[e] = "fetching" /\ pc'[e] = "next"
            /\ todo'[e] = {m \in Messages : where[m] = source[e]}
            /\ read'[e] = todo'[e] \cap seen
            /\ good'[e] = {} /\ bad'[e] = {} /\ source'[e] = source[e]
        BY <1>1, <2>5 DEF FetchAnswered, Hand, TypeInv, TypeOK, rowVars
      <3>2. \A m \in todo'[e] : Wants(e, m)' <=> Wanted(e, m)
        <4>1. source[e] = promised[e].source
          BY <3>1 DEF Kept
        <4>2. ASSUME NEW m \in todo'[e] PROVE m \in read'[e] <=> m \in seen
          BY <3>1
        <4> QED
          BY <1>1, <3>1, <4>1, <4>2 DEF Wants, Wanted
      <3>3. Tried(e)' = {m \in todo'[e] : Wants(e, m)'}
        BY <3>1 DEF Tried, Tries, Moving
      <3>4. Tried(e)' = promised[e].messages
        BY <2>2, <3>1, <3>2, <3>3 DEF Kept
      <3>5. status'[e] = "executing"
        BY <3>1 DEF StatusInv
      <3> QED
        BY <1>1, <2>1, <2>2, <3>1, <3>4, <3>5 DEF Kept
    <2>6. CASE Ends(e) /\ Settle(e)
      <3>1. pc'[e] = "idle" /\ status'[e] = "error"
        BY <1>1, <2>6 DEF Settle, EndsAs, Ends, GoesOn, TypeInv, TypeOK
      <3> QED
        BY <1>1, <2>2, <3>1 DEF Kept, Moving
    <2> DEFINE Goes == /\ pc[e] \in {"next", "yielding", "settling"} \cup Moving
                       /\ pc'[e] \in {"next", "yielding", "settling"} \cup Moving
    <2>7. ASSUME Goes, e \notin unlogged' => Tried(e)' = Tried(e) PROVE Kept(e)'
      <3>1. status'[e] = "executing"
        BY <2>7 DEF StatusInv, Moving
      <3> QED
        BY <1>1, <2>1, <2>2, <2>7, <3>1 DEF Kept, Moving
    <2>8. CASE Yielded(e) \/ Moved(e) \/ NotMoved(e) \/ Created(e)
      <3>1. Goes /\ UNCHANGED << source, todo, read, cur, good, bad >>
        BY <1>1, <2>8 DEF Yielded, Moved, NotMoved, Created, Moving, TypeInv, TypeOK, rowVars
      <3>2. Tries(e)' <=> Tries(e)
        BY <1>1, <2>8 DEF Yielded, Moved, NotMoved, Created, Tries, Hand, Moving, TypeInv,
           TypeOK
      <3>3. \A m : Wants(e, m)' <=> Wants(e, m)
        BY <1>1, <3>1 DEF Wants
      <3> QED
        BY <2>7, <3>1, <3>2, <3>3 DEF Tried
    <2>9. CASE Take(e)
      <3>1. PICK m \in todo[e] :
           /\ todo' = [todo EXCEPT ![e] = todo[e] \ {m}]
           /\ \/ /\ Fate(e, m, rules) # "move"
                 /\ pc' = [pc EXCEPT ![e] = "next"] \/ pc' = [pc EXCEPT ![e] = "yielding"]
              \/ /\ Fate(e, m, rules) # "move"
                 /\ result' = [result EXCEPT ![e] = "skipped"]
                 /\ pc' = [pc EXCEPT ![e] = "settling"]
              \/ /\ Fate(e, m, rules) = "move"
                 /\ cur' = [cur EXCEPT ![e] = m]
                 /\ result' = [result EXCEPT ![e] = "failed"]
                 /\ pc' = [pc EXCEPT ![e] = IF up THEN "moving" ELSE "settling"]
        <4>1. RulesOf(e) = {rules}
          BY <2>2 DEF RulesOf
        <4>2. PICK m \in todo[e] :
             /\ todo' = [todo EXCEPT ![e] = todo[e] \ {m}]
             /\ \/ /\ Fate(e, m, rules) \in {"ignored", "passed"}
                   /\ \E n, rest : GoesOn(e, n, rest)
                \/ /\ Fate(e, m, rules) = "skip"
                   /\ result' = [result EXCEPT ![e] = "skipped"]
                   /\ pc' = [pc EXCEPT ![e] = "settling"]
                \/ /\ Fate(e, m, rules) = "move"
                   /\ cur' = [cur EXCEPT ![e] = m]
                   /\ result' = [result EXCEPT ![e] = "failed"]
                   /\ pc' = [pc EXCEPT ![e] = IF up THEN "moving" ELSE "settling"]
          BY <2>9, <4>1 DEF Take
        <4>3. ASSUME NEW n, NEW rest, GoesOn(e, n, rest)
              PROVE  pc' = [pc EXCEPT ![e] = "next"] \/ pc' = [pc EXCEPT ![e] = "yielding"]
          BY <4>3 DEF GoesOn
        <4> QED
          BY <4>2, <4>3
      <3>2. m \in Messages /\ todo'[e] = todo[e] \ {m}
        BY <1>1, <3>1 DEF TypeInv, TypeOK
      <3>3. UNCHANGED << source, read, good, bad >> /\ pc[e] = "next"
        BY <2>9 DEF Take, rowVars
      <3>4. \A k : Wants(e, k)' <=> Wants(e, k)
        BY <1>1, <3>3 DEF Wants
      <3>5. Tried(e) = good[e] \cup bad[e] \cup {k \in todo[e] : Wants(e, k)}
        BY <3>3 DEF Tried, Tries, Moving
      <3>6. CASE Fate(e, m, rules) = "move"
        <4>1. Wants(e, m) /\ cur'[e] = m /\ Tries(e)' /\ Goes
          BY <1>1, <3>1, <3>2, <3>3, <3>6, FateTells DEF Tries, Moving, TypeInv, TypeOK
        <4>2. Tried(e)' = good[e] \cup bad[e] \cup {k \in todo[e] \ {m} : Wants(e, k)} \cup {m}
          BY <3>2, <3>3, <3>4, <4>1 DEF Tried
        <4> QED
          BY <2>7, <3>5, <4>1, <4>2
      <3>7. CASE Fate(e, m, rules) # "move"
        <4>1. ~Wants(e, m) /\ ~Tries(e)' /\ Goes
          BY <1>1, <3>1, <3>2, <3>3, <3>7, FateTells DEF Tries, Moving, TypeInv, TypeOK
        <4>2. Tried(e)' = good[e] \cup bad[e] \cup {k \in todo[e] \ {m} : Wants(e, k)}
          BY <3>2, <3>3, <3>4, <4>1 DEF Tried
        <4> QED
          BY <2>7, <3>5, <4>1, <4>2
      <3> QED
        BY <3>6, <3>7
    <2>10. CASE Settle(e) /\ ~Ends(e)
      <3>1. PICK o \in Outcomes(Mode(e, source[e]), result[e]) :
           /\ unlogged' = IF o.broken THEN unlogged \cup {e} ELSE unlogged
           /\ good' = IF o.row = "good" THEN [good EXCEPT ![e] = @ \cup {cur[e]}] ELSE good
           /\ bad' = IF o.row = "bad" THEN [bad EXCEPT ![e] = @ \cup {cur[e]}] ELSE bad
           /\ pc' = [pc EXCEPT ![e] = "next"] \/ pc' = [pc EXCEPT ![e] = "yielding"]
           /\ UNCHANGED << source, todo, read >>
        BY <2>10 DEF Settle, EndsAs, GoesOn
      <3>2. Lawful(o, Mode(e, source[e]), result[e])
        BY <1>1, OutcomeLaws, ModeType DEF TypeInv
      <3>3. pc[e] = "settling" /\ Goes /\ ~Tries(e)'
        BY <1>1, <2>10, <3>1 DEF Settle, Tries, Moving, TypeInv, TypeOK
      <3>4. \A k : Wants(e, k)' <=> Wants(e, k)
        BY <1>1, <3>1 DEF Wants
      <3>5. ASSUME e \notin unlogged' PROVE Tried(e)' = Tried(e)
        <4>1. ~o.broken
          BY <3>1, <3>5 DEF TypeInv, TypeOK
        <4>2. result[e] = "skipped" => Mode(e, source[e]) # "review"
          BY <1>1, <3>3, ModeReview DEF Hand, TypeInv
        <4>3. o.row = "none" <=> result[e] = "skipped"
          BY <3>2, <4>1, <4>2 DEF Lawful
        <4>4. o.row \in {"none", "good", "bad"}
          BY <1>1, OutcomeTypes, ModeType DEF TypeInv
        <4>5. good'[e] \cup bad'[e] =
                good[e] \cup bad[e] \cup (IF result[e] # "skipped" THEN {cur[e]} ELSE {})
          BY <1>1, <3>1, <4>3, <4>4 DEF TypeInv, TypeOK
        <4> QED
          BY <3>1, <3>3, <3>4, <4>5 DEF Tried, Tries, Moving
      <3> QED
        BY <2>7, <3>3, <3>5
    <2> QED
      BY <1>3, <2>3, <2>4, <2>5, <2>6, <2>8, <2>9, <2>10 DEF Steps, Answers
  <1> QED
    BY <1>2, <1>3

\* A request for a batch or a preview touches the current engine only.
LEMMA OtherUntouched ==
  ASSUME TypeInv, NEW folder \in Sources, Execute(folder) \/ DryRun(folder),
         NEW e \in Engines, e # engine
  PROVE  Untouched(e)
  <1>1. e \in Instances /\ engine \in Instances /\ engine \in Engines
    BY InstancesSplit DEF TypeInv, TypeOK
  <1>2. CASE Execute(folder)
    <2>1. CASE up
      BY <1>1, <1>2, <2>1 DEF Execute, Fresh, Untouched, TypeInv, TypeOK, rootVars, sweepVars
    <2>2. CASE ~up
      BY <1>1, <1>2, <2>2 DEF Execute, Fresh, Untouched, TypeInv, TypeOK, rootVars, sweepVars
    <2> QED
      BY <2>1, <2>2
  <1>3. CASE DryRun(folder)
    <2>1. CASE up
      BY <1>1, <1>3, <2>1 DEF DryRun, Untouched, TypeInv, TypeOK, rootVars, sweepVars, rowVars
    <2>2. CASE ~up
      BY <1>1, <1>3, <2>2 DEF DryRun, Untouched, TypeInv, TypeOK, rootVars, sweepVars, rowVars
    <2> QED
      BY <2>1, <2>2
  <1> QED
    BY <1>2, <1>3

LEMMA KeepStep == TypeInv /\ HandInv /\ StatusInv /\ KeepInv /\ [Next]_vars => KeepInv'
  <1> SUFFICES ASSUME TypeInv, HandInv, StatusInv, KeepInv, [Next]_vars, NEW e \in Engines
               PROVE  Kept(e)'
    BY DEF KeepInv
  <1>0. /\ e \in Instances /\ e \notin Sweepers /\ Kept(e)
        /\ engine \in Instances /\ engine \in Engines
        /\ promised[e] \in Promises
    BY InstancesSplit DEF KeepInv, TypeInv, TypeOK
  <1>1. CASE AllVoid
    <2>1. promised'[e] = NoPromise
      BY <1>1 DEF AllVoid
    <2> QED
      BY <2>1 DEF Kept
  <1>2. CASE LinkUp
    <2>1. Untouched(e)
      BY <1>0, <1>2, OthersTouch
    <2> QED
      BY <1>0, <1>2, <2>1, KeptElsewhere DEF LinkUp, mailVars, rootVars, sweepVars, historyVars
  <1>3. CASE \E i \in Instances : Steps(i) \/ Answers(i)
    <2>1. PICK i \in Instances : Steps(i) \/ Answers(i)
      BY <1>3
    <2>2. CASE i = e
      BY <1>0, <2>1, <2>2, KeptOwn, StatusStep
    <2>3. CASE i # e
      <3>1. Untouched(e) /\ UNCHANGED << engine, sentinels, seen, now, rules >>
        BY <1>0, <2>1, <2>3, Elsewhere DEF rootVars, sweepVars
      <3>2. promised'[e] = NoPromise \/ (promised'[e] = promised[e] /\ where' = where)
        BY <1>0, <2>1, <2>3 DEF Steps, Answers, Finish, Cancelled, Take, Yielded, Settle,
           FetchFails, FetchAnswered, PreviewAnswered, Moved, NotMoved, Created, Void, mailVars,
           historyVars, TypeInv, TypeOK
      <3> QED
        BY <1>0, <3>1, <3>2, KeptElsewhere
    <2> QED
      BY <2>2, <2>3
  <1>4. ASSUME NEW s \in Sweepers, SweepFires(s) PROVE Kept(e)'
    <2>1. Untouched(e)
      <3>1. s # e
        BY <1>0
      <3> QED
        BY <1>0, <1>4, <3>1 DEF SweepFires, Fresh, Untouched, TypeInv, TypeOK, rootVars,
           sweepVars
    <2> QED
      BY <1>0, <1>4, <2>1, KeptElsewhere DEF SweepFires, mailVars, rootVars, sweepVars
  <1>5. CASE Cancel
    <2>1. /\ UNCHANGED << status, promised >>
          /\ UNCHANGED << mailVars, rootVars, runVars, rowVars >>
      BY <1>5 DEF Cancel
    <2>2. \A m : (Wanted(e, m)' <=> Wanted(e, m)) /\ (Wants(e, m)' <=> Wants(e, m))
      BY <2>1 DEF Wanted, Wants, mailVars, rootVars, sweepVars, runVars
    <2>3. Tried(e)' = Tried(e)
      BY <2>1, <2>2 DEF Tried, Tries, runVars, rowVars
    <2> QED
      BY <1>0, <2>1, <2>2, <2>3 DEF Kept, mailVars, rootVars, sweepVars, runVars, rowVars
  <1>6. ASSUME NEW folder \in Sources, Execute(folder) PROVE Kept(e)'
    <2>1. UNCHANGED << mailVars, rootVars >>
      BY <1>6 DEF Execute
    <2>2. CASE e = engine
      <3>1. pc[e] = "idle" /\ promised'[e] \in {promised[e], NoPromise}
        BY <1>0, <1>6, <2>2 DEF Execute, Running, TypeInv, TypeOK
      <3> SUFFICES ASSUME promised'[e] # NoPromise PROVE Kept(e)'
        BY DEF Kept
      <3>2. /\ promised'[e] = promised[e] /\ promised[e] # NoPromise
            /\ status[e] = "previewing" /\ promised[e].source = folder
        BY <1>0, <1>6, <2>2 DEF Execute, TypeInv, TypeOK
      <3>3. \A m : Wanted(e, m)' <=> Wanted(e, m)
        BY <2>1, <3>2 DEF Wanted, mailVars, rootVars, sweepVars
      <3>4. promised'[e].messages = {m \in Messages : where'[m] = promised'[e].source /\ Wanted(e, m)'}
        BY <1>0, <2>1, <2>2, <3>2, <3>3 DEF Kept, mailVars
      <3>5. CASE up
        <4>1. pc'[e] = "fetching" /\ source'[e] = folder /\ status'[e] = "executing"
          BY <1>0, <1>6, <2>2, <3>5 DEF Execute, TypeInv, TypeOK
        <4> QED
          BY <2>1, <2>2, <3>2, <3>4, <4>1 DEF Kept, Moving, rootVars, sweepVars
      <3>6. CASE ~up
        <4>1. pc'[e] = "idle" /\ status'[e] = "error"
          BY <1>0, <1>6, <2>2, <3>1, <3>6 DEF Execute, TypeInv, TypeOK
        <4> QED
          BY <2>1, <2>2, <3>4, <4>1 DEF Kept, Moving, rootVars, sweepVars
      <3> QED
        BY <3>5, <3>6
    <2>3. CASE e # engine
      <3>1. promised'[e] = promised[e]
        BY <1>0, <1>6, <2>3 DEF Execute, TypeInv, TypeOK
      <3>2. Untouched(e)
        BY <1>0, <1>6, <2>3, OtherUntouched
      <3> QED
        BY <1>0, <2>1, <3>1, <3>2, KeptElsewhere DEF mailVars, rootVars, sweepVars
    <2> QED
      BY <2>2, <2>3
  <1>7. ASSUME NEW folder \in Sources, DryRun(folder) PROVE Kept(e)'
    <2>1. UNCHANGED << mailVars, rootVars >>
      BY <1>7 DEF DryRun
    <2>2. CASE e = engine
      <3>1. promised'[e] = NoPromise
        BY <1>0, <1>7, <2>2 DEF DryRun, TypeInv, TypeOK
      <3> QED
        BY <3>1 DEF Kept
    <2>3. CASE e # engine
      <3>1. promised'[e] = promised[e]
        BY <1>0, <1>7, <2>3 DEF DryRun, TypeInv, TypeOK
      <3>2. Untouched(e)
        BY <1>0, <1>7, <2>3, OtherUntouched
      <3> QED
        BY <1>0, <2>1, <3>1, <3>2, KeptElsewhere DEF mailVars, rootVars, sweepVars
    <2> QED
      BY <2>2, <2>3
  <1>8. CASE UNCHANGED vars
    <2>1. Untouched(e)
      BY <1>8 DEF vars, Untouched, runVars, rootVars, sweepVars, rowVars, stateVars
    <2> QED
      BY <1>0, <1>8, <2>1, KeptElsewhere DEF vars, mailVars, rootVars, sweepVars, historyVars
  <1>9. CASE Renewed /\ ~AllVoid
    <2>1. /\ UNCHANGED << unbuilt, engine, settings, promised >> /\ Untouched(e)
          /\ UNCHANGED << mailVars, rules >>
      BY <1>0, <1>9, RenewedTouches
    <2> QED
      BY <1>0, <2>1, KeptElsewhere DEF mailVars
  <1>10. Others \/ LinkDown => AllVoid
    BY DEF Others, UserMoves, ForReview, Marks, Day, RulesChange, PutReview, LinkDown
  <1> QED
    BY <1>1, <1>2, <1>3, <1>4, <1>5, <1>6, <1>7, <1>8, <1>9, <1>10 DEF Next, Requests, Renewed

\* If nothing has changed since a preview, a batch that completes, and met no
\* failed write of the log, has tried to move what the preview said: dryRun() and execute() decide alike in each mode,
\* and no message is left out or handled twice on the way.
THEOREM PreviewAlwaysKept == Spec => []PreviewIsKept
  <1>1. Init => StatusInv /\ KeepInv
    BY InstancesSplit DEF Init, StatusInv, Running, KeepInv, Kept
  <1>2. KeepInv => PreviewIsKept
    BY DEF KeepInv, Kept, PreviewIsKept
  <1> QED
    BY <1>1, <1>2, StatusStep, KeepStep, InitType, TypeStep, RowsInvariant, PTL DEF Spec
=============================================================================
