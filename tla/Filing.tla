------------------------------- MODULE Filing -------------------------------
(***************************************************************************)
(* Mail filed long after it arrived: the ReviewSweeper                     *)
(* (src/sweep/index.ts), the BatchEngine (src/batch/index.ts), its routes  *)
(* (src/web/routes/batch.ts), and the new sweeper and engine that a change *)
(* of the review settings makes (src/index.ts).                            *)
(*                                                                         *)
(* An instance is one sweeper or one engine; each runs one thing at a time *)
(* and goes on with it when it is replaced.  The rules are what they       *)
(* decide for a message; the folders they file into are all "away", and    *)
(* may have to be created first.  All messages are of one age, in days.    *)
(***************************************************************************)
EXTENDS Naturals, FiniteSets

CONSTANTS
  Messages, NoMessage,
  Sweepers, NoSweeper, Engines,   \* names for instances
  Settings,    \* review settings: a folder and two ages
  Start,       \* the folders that have mail at the beginning
  There,       \* whether the folder the rules file into may exist then
  Starting,    \* whether main() may be on its way to its sweeper then
  Chunk,       \* CHUNK_SIZE
  MaxDay,      \* bound: the age of the messages
  MaxChanges,  \* bound: what the user and the rest of the program do
  MaxMishaps,  \* bound: lost connections and failed writes of the log
  MaxRuns,     \* bound: batches and previews,
  CountSweeps  \* and sweeps as well

Instances == Sweepers \cup Engines
Sources == {"inbox", "review", "other"}
Folders == Sources \cup {"away"}

ASSUME NameAssumption ==
  /\ Sweepers \cap Engines = {}
  /\ NoSweeper \notin Instances
  /\ NoMessage \notin Messages
  /\ IsFiniteSet(Messages)
  /\ Start \subseteq Sources /\ There \subseteq BOOLEAN /\ Starting \subseteq BOOLEAN
ASSUME SettingsAssumption ==
  Settings \subseteq [folder : {"review", "other"}, read : Nat, unread : Nat]
ASSUME BoundAssumption ==
  /\ Chunk \in Nat \ {0} /\ MaxDay \in Nat
  /\ MaxChanges \in Nat /\ MaxMishaps \in Nat /\ MaxRuns \in Nat
  /\ CountSweeps \in BOOLEAN

VARIABLES
  \* the mailbox and the connection
  where,       \* the folder each message is in
  sentinels,   \* the messages that are sentinels
  seen,        \* the messages with \Seen
  now,         \* the messages' age
  there,       \* the folder the rules file into exists
  up,          \* the client is connected
  \* the repository and the composition root
  rules, settings,
  sweeper, engine,  \* the current instances
  armed,       \* the sweepers whose timers run
  starting,    \* main() has not come to its sweeper
  listed,      \* specialUseCache is filled
  listing,     \* how many changes of the settings await getSpecialUseFolder()
  \* each instance
  cfg,         \* reviewConfig, as it was given
  pc, source,
  began,       \* a sweep's now
  todo,        \* the messages fetched and not yet taken
  read,        \* those of the messages fetched that had \Seen
  inChunk,     \* how many of the current chunk are taken
  cur, goal, result,   \* the message in hand, where it should go, what became of it
  status, cancel,      \* state.status and cancelRequested of an engine
  count,       \* the counters of its state; those of a sweep
  \* history of each instance's last run
  good, bad,   \* messages logged as moved, and as failed
  done,        \* messages it has moved
  unlogged,    \* the instances whose last run met a failed write of the log
  promised,    \* what a preview said would be moved, until something changes
  unbuilt,     \* the last change of the settings has not made its instances
  excused,     \* messages marked read or unread while something ran
  stopped,     \* running engines the user has told to stop
  mishaps, changes, runs

mailVars == << where, sentinels, seen, now, there >>
sweepVars == << sweeper, armed, starting, listed, listing >>
rootVars == << rules, settings, engine, sweepVars, cfg >>
runVars == << pc, source, began, todo, read, inChunk, cur, goal, result >>
stateVars == << status, cancel, count >>
rowVars == << good, bad, done, unlogged >>
historyVars == << promised, unbuilt, excused, stopped, mishaps, changes, runs >>
vars == << mailVars, up, rootVars, runVars, stateVars, rowVars, historyVars >>

Verdicts == {"none", "skip", "review", "move"}
Moving == {"moving", "creating", "retrying"}
InFlight == {"fetching", "previewing"} \cup Moving
Phases == {"idle", "cut", "next", "settling", "yielding"} \cup InFlight
Counts == [processed : Nat, moved : Nat, skipped : Nat, errors : Nat]
Zero == [processed |-> 0, moved |-> 0, skipped |-> 0, errors |-> 0]
Promises == [source : Folders, messages : SUBSET Messages]
NoPromise == [source |-> "away", messages |-> {}]

TypeOK ==
  /\ where \in [Messages -> Folders]
  /\ sentinels \subseteq Messages /\ seen \subseteq Messages
  /\ now \in 0 .. MaxDay
  /\ there \in BOOLEAN /\ up \in BOOLEAN
  /\ rules \in Verdicts /\ settings \in Settings
  /\ sweeper \in Sweepers \cup {NoSweeper} /\ engine \in Engines
  /\ armed \subseteq Sweepers /\ starting \in BOOLEAN
  /\ listed \in BOOLEAN /\ listing \in Nat
  /\ cfg \in [Instances -> Settings]
  /\ pc \in [Instances -> Phases]
  /\ source \in [Instances -> Sources]
  /\ began \in [Instances -> 0 .. MaxDay]
  /\ todo \in [Instances -> SUBSET Messages]
  /\ read \in [Instances -> SUBSET Messages]
  /\ inChunk \in [Instances -> 0 .. Chunk]
  /\ cur \in [Instances -> Messages \cup {NoMessage}]
  /\ goal \in [Instances -> Folders]
  /\ result \in [Instances -> {"moved", "failed", "skipped"}]
  /\ status \in [Engines -> {"idle", "dry-running", "previewing", "executing",
                              "completed", "cancelled", "error"}]
  /\ cancel \in [Engines -> BOOLEAN]
  /\ count \in [Instances -> Counts]
  /\ good \in [Instances -> SUBSET Messages]
  /\ bad \in [Instances -> SUBSET Messages]
  /\ done \in [Instances -> SUBSET Messages]
  /\ unlogged \subseteq Instances
  /\ promised \in [Engines -> Promises]
  /\ unbuilt \in BOOLEAN /\ excused \subseteq Messages /\ stopped \subseteq Engines
  /\ mishaps \in 0 .. MaxMishaps /\ changes \in 0 .. MaxChanges
  /\ runs \in 0 .. MaxRuns

\* Connected, and main() has listed the folders; its sweeper may still have to
\* be made.  A folder other than INBOX may have a sentinel.
Init ==
  /\ where \in [Messages -> Start]
  /\ sentinels \in SUBSET {m \in Messages : where[m] # "inbox"}
  /\ \A m, n \in sentinels : where[m] = where[n] => m = n
  /\ seen \in SUBSET Messages
  /\ now = 0
  /\ there \in There /\ up = TRUE
  /\ rules \in Verdicts /\ settings \in Settings
  /\ sweeper \in Sweepers /\ engine \in Engines
  /\ starting \in Starting
  /\ armed = IF starting THEN {} ELSE {sweeper}
  /\ listed = TRUE /\ listing = 0
  /\ cfg = [i \in Instances |-> settings]
  /\ pc = [i \in Instances |-> "idle"]
  /\ source = [i \in Instances |-> "inbox"]
  /\ began = [i \in Instances |-> 0]
  /\ todo = [i \in Instances |-> {}]
  /\ read = [i \in Instances |-> {}]
  /\ inChunk = [i \in Instances |-> 0]
  /\ cur = [i \in Instances |-> NoMessage]
  /\ goal = [i \in Instances |-> "away"]
  /\ result = [i \in Instances |-> "skipped"]
  /\ status = [e \in Engines |-> "idle"]
  /\ cancel = [e \in Engines |-> FALSE]
  /\ count = [i \in Instances |-> Zero]
  /\ good = [i \in Instances |-> {}]
  /\ bad = [i \in Instances |-> {}]
  /\ done = [i \in Instances |-> {}]
  /\ unlogged = {}
  /\ promised = [e \in Engines |-> NoPromise]
  /\ unbuilt = FALSE /\ excused = {} /\ stopped = {}
  /\ mishaps = 0 /\ changes = 0 /\ runs = 0

-----------------------------------------------------------------------------
\* No JavaScript is running: only then are timers, requests and answers seen.
AtRest == \A i \in Instances : pc[i] \in {"idle", "yielding"} \cup InFlight

Running(i) == pc[i] # "idle"

\* getProcessingMode(); a sweep is always of its own folder.
Mode(i, folder) ==
  CASE i \in Sweepers -> "review"
    [] i \in Engines /\ folder = "inbox" -> "inbox"
    [] i \in Engines /\ folder # "inbox" ->
         IF folder = cfg[i].folder THEN "review" ELSE "generic"

\* isEligibleForSweep()
OldEnough(config, age, isRead) == age >= IF isRead THEN config.read ELSE config.unread

\* What i sees of the rules.  One that was replaced keeps the array it has,
\* the repository's own or an older one.
RulesOf(i) == IF i \in {sweeper, engine} THEN {rules} ELSE Verdicts

\* The promises of engines other than i are void: something has changed.
Void(i) == promised' = [e \in Engines |-> IF e = i THEN promised[e] ELSE NoPromise]
AllVoid == promised' = [e \in Engines |-> NoPromise]

-----------------------------------------------------------------------------
(* The user, the rest of the program, and time.                            *)

\* The user moves or deletes a message.
UserMoves(m) ==
  /\ AtRest /\ changes < MaxChanges /\ where[m] # "away"
  /\ where' = [where EXCEPT ![m] = "away"]
  /\ changes' = changes + 1
  /\ AllVoid
  /\ UNCHANGED << sentinels, seen, now, there, up, rootVars, runVars, stateVars, rowVars,
                  unbuilt, excused, stopped, mishaps, runs >>

\* Monitor or an action folder files a message for review.
ForReview(m) ==
  /\ AtRest /\ changes < MaxChanges /\ where[m] = "inbox" /\ m \notin sentinels
  /\ where' = [where EXCEPT ![m] = settings.folder]
  /\ changes' = changes + 1
  /\ AllVoid
  /\ UNCHANGED << sentinels, seen, now, there, up, rootVars, runVars, stateVars, rowVars,
                  unbuilt, excused, stopped, mishaps, runs >>

\* The user reads a message, or marks it unread.
Marks(m) ==
  /\ AtRest /\ changes < MaxChanges
  /\ seen' = IF m \in seen THEN seen \ {m} ELSE seen \cup {m}
  /\ excused' = IF \E i \in Instances : Running(i) THEN excused \cup {m} ELSE excused
  /\ changes' = changes + 1
  /\ AllVoid
  /\ UNCHANGED << where, sentinels, now, there, up, rootVars, runVars, stateVars, rowVars,
                  unbuilt, stopped, mishaps, runs >>

Day ==
  /\ AtRest /\ changes < MaxChanges /\ now < MaxDay
  /\ now' = now + 1
  /\ changes' = changes + 1
  /\ AllVoid
  /\ UNCHANGED << where, sentinels, seen, there, up, rootVars, runVars, stateVars, rowVars,
                  unbuilt, excused, stopped, mishaps, runs >>

\* onRulesChange(): updateRules() of the current instances
RulesChange ==
  /\ AtRest /\ changes < MaxChanges
  /\ rules' \in Verdicts \ {rules}
  /\ changes' = changes + 1
  /\ AllVoid
  /\ UNCHANGED << mailVars, up, settings, engine, sweepVars, cfg, runVars, stateVars,
                  rowVars, unbuilt, excused, stopped, mishaps, runs >>

\* Faulty variant: the new engine has the old settings.
Builds_OldSettings(config, others) ==
  \E s \in Sweepers \ others, e \in Engines :
    /\ ~Running(s) /\ ~Running(e) /\ (~Running(engine) => e = engine)
    /\ sweeper' = s /\ engine' = e
    /\ armed' = others \cup {s}
    /\ cfg' = [cfg EXCEPT ![s] = config]
    /\ status' = [status EXCEPT ![e] = "idle"]
    /\ cancel' = [cancel EXCEPT ![e] = FALSE]
    /\ count' = [count EXCEPT ![s] = Zero, ![e] = Zero]
    /\ good' = [good EXCEPT ![s] = {}, ![e] = {}]
    /\ bad' = [bad EXCEPT ![s] = {}, ![e] = {}]
    /\ done' = [done EXCEPT ![s] = {}, ![e] = {}]
    /\ unlogged' = unlogged \ {s, e}

\* A new sweeper, started, and a new engine, under names that nothing running
\* has; the timers of the sweepers in others go on.
Builds(config, others) ==
  \E s \in Sweepers \ others, e \in Engines :
    /\ ~Running(s) /\ ~Running(e) /\ (~Running(engine) => e = engine)
    /\ sweeper' = s /\ engine' = e
    /\ armed' = others \cup {s}
    /\ cfg' = [cfg EXCEPT ![s] = config, ![e] = config]
    /\ status' = [status EXCEPT ![e] = "idle"]
    /\ cancel' = [cancel EXCEPT ![e] = FALSE]
    /\ count' = [count EXCEPT ![s] = Zero, ![e] = Zero]
    /\ good' = [good EXCEPT ![s] = {}, ![e] = {}]
    /\ bad' = [bad EXCEPT ![s] = {}, ![e] = {}]
    /\ done' = [done EXCEPT ![s] = {}, ![e] = {}]
    /\ unlogged' = unlogged \ {s, e}

\* PUT /api/config/review: the current sweeper, and no other, is stopped and
\* dropped, and the change waits for a list of the folders; without a connection
\* it fails.
PutReview ==
  /\ AtRest /\ changes < MaxChanges /\ ~(up /\ listed)
  /\ settings' \in Settings \ {settings}
  /\ sweeper' = NoSweeper
  /\ armed' = armed \ {sweeper}
  /\ listing' = IF up THEN listing + 1 ELSE listing
  /\ unbuilt' = TRUE
  /\ changes' = changes + 1
  /\ AllVoid
  /\ UNCHANGED << mailVars, up, rules, engine, starting, listed, cfg, runVars, stateVars,
                  rowVars, excused, stopped, mishaps, runs >>

\* The same when the folders were listed on this connection: nothing is awaited.
PutReviewListed ==
  /\ AtRest /\ changes < MaxChanges /\ up /\ listed
  /\ settings' \in Settings \ {settings}
  /\ Builds(settings', armed \ {sweeper})
  /\ unbuilt' = FALSE
  /\ changes' = changes + 1
  /\ AllVoid
  /\ UNCHANGED << mailVars, up, rules, starting, listed, listing, runVars, excused, stopped,
                  mishaps, runs >>

\* The folders are listed for one of the changes that wait.  A sweeper that
\* another has made meanwhile is replaced, and not stopped.
Rebuilt ==
  /\ AtRest /\ listing > 0
  /\ listing' = listing - 1
  /\ listed' = TRUE
  /\ Builds(settings, armed)
  /\ unbuilt' = FALSE
  /\ AllVoid
  /\ UNCHANGED << mailVars, up, rules, settings, starting, runVars, excused, stopped,
                  mishaps, changes, runs >>

\* main() comes to its sweeper, and does not stop one that a change of the
\* settings has made meanwhile.
MainSweeper ==
  /\ AtRest /\ starting
  /\ starting' = FALSE
  /\ \E s \in Sweepers \ armed :
       /\ ~Running(s)
       /\ sweeper' = s
       /\ armed' = armed \cup {s}
       /\ cfg' = [cfg EXCEPT ![s] = settings]
       /\ count' = [count EXCEPT ![s] = Zero]
       /\ good' = [good EXCEPT ![s] = {}]
       /\ bad' = [bad EXCEPT ![s] = {}]
       /\ done' = [done EXCEPT ![s] = {}]
       /\ unlogged' = unlogged \ {s}
  /\ UNCHANGED << mailVars, up, rules, settings, engine, listed, listing, runVars, status,
                  cancel, historyVars >>

-----------------------------------------------------------------------------
(* Beginning and ending a run.                                             *)

\* i is not running any more.
Ends(i) ==
  /\ pc' = [pc EXCEPT ![i] = "idle"]
  /\ source' = [source EXCEPT ![i] = "inbox"]
  /\ began' = [began EXCEPT ![i] = 0]
  /\ todo' = [todo EXCEPT ![i] = {}]
  /\ read' = [read EXCEPT ![i] = {}]
  /\ inChunk' = [inChunk EXCEPT ![i] = 0]
  /\ cur' = [cur EXCEPT ![i] = NoMessage]
  /\ goal' = [goal EXCEPT ![i] = "away"]
  /\ result' = [result EXCEPT ![i] = "skipped"]
  /\ excused' = IF \E j \in Instances \ {i} : Running(j) THEN excused ELSE {}
  /\ stopped' = stopped \ {i}

\* The state of an engine when its run ends.
EndsAs(i, s) ==
  /\ Ends(i)
  /\ status' = IF i \in Engines THEN [status EXCEPT ![i] = s] ELSE status

\* A run begins with counters at zero.
Fresh(i) ==
  /\ count' = [count EXCEPT ![i] = Zero]
  /\ good' = [good EXCEPT ![i] = {}]
  /\ bad' = [bad EXCEPT ![i] = {}]
  /\ done' = [done EXCEPT ![i] = {}]
  /\ unlogged' = unlogged \ {i}

\* The numbers of a sweep are local to runSweep(); an engine keeps its own.
KeepsState(i) ==
  IF i \in Sweepers THEN Fresh(i) ELSE UNCHANGED << count, rowVars >>

\* runSweep(), from a timer of s.  It returns at once when a sweep of s runs or
\* the client is not connected.
SweepFires(s) ==
  /\ AtRest /\ s \in armed /\ up /\ ~Running(s)
  /\ CountSweeps => runs < MaxRuns
  /\ runs' = IF CountSweeps THEN runs + 1 ELSE runs
  /\ pc' = [pc EXCEPT ![s] = "fetching"]
  /\ source' = [source EXCEPT ![s] = cfg[s].folder]
  /\ began' = [began EXCEPT ![s] = now]
  /\ Fresh(s)
  /\ UNCHANGED << mailVars, up, rootVars, todo, read, inChunk, cur, goal, result, status,
                  cancel, promised, unbuilt, excused, stopped, mishaps, changes >>

\* POST /api/batch/execute; refused with 409 while the engine runs.  Without
\* a connection the fetch throws.
Execute(folder) ==
  /\ AtRest /\ runs < MaxRuns /\ ~Running(engine)
  /\ cancel' = [cancel EXCEPT ![engine] = FALSE]
  /\ Fresh(engine)
  /\ promised' = IF status[engine] = "previewing" /\ promised[engine].source = folder
                   THEN promised ELSE [promised EXCEPT ![engine] = NoPromise]
  /\ IF up
       THEN /\ pc' = [pc EXCEPT ![engine] = "fetching"]
            /\ source' = [source EXCEPT ![engine] = folder]
            /\ status' = [status EXCEPT ![engine] = "executing"]
       ELSE /\ status' = [status EXCEPT ![engine] = "error"]
            /\ UNCHANGED << pc, source >>
  /\ runs' = runs + 1
  /\ UNCHANGED << mailVars, up, rootVars, began, todo, read, inChunk, cur, goal, result,
                  unbuilt, excused, stopped, mishaps, changes >>

\* POST /api/batch/dry-run; the counters of the last run stay.
DryRun(folder) ==
  /\ AtRest /\ runs < MaxRuns /\ ~Running(engine)
  /\ IF up
       THEN /\ pc' = [pc EXCEPT ![engine] = "previewing"]
            /\ source' = [source EXCEPT ![engine] = folder]
            /\ status' = [status EXCEPT ![engine] = "dry-running"]
       ELSE /\ status' = [status EXCEPT ![engine] = "error"]
            /\ UNCHANGED << pc, source >>
  /\ promised' = [promised EXCEPT ![engine] = NoPromise]
  /\ runs' = runs + 1
  /\ UNCHANGED << mailVars, up, rootVars, began, todo, read, inChunk, cur, goal, result,
                  cancel, count, rowVars, unbuilt, excused, stopped, mishaps, changes >>

\* POST /api/batch/cancel
Cancel ==
  /\ AtRest /\ Running(engine) /\ ~cancel[engine]
  /\ stopped' = stopped \cup {engine}
  /\ cancel' = [cancel EXCEPT ![engine] = TRUE]
  /\ UNCHANGED << mailVars, up, rootVars, runVars, status, count, rowVars, promised,
                  unbuilt, excused, mishaps, changes, runs >>

\* Faulty variant: cancelRequested is cleared only now.
FetchAnswered_Clears(i) ==
  /\ pc[i] = "fetching"
  /\ pc' = [pc EXCEPT ![i] = "next"]
  /\ LET found == {m \in Messages : where[m] = source[i]} IN
       /\ todo' = [todo EXCEPT ![i] = found]
       /\ read' = [read EXCEPT ![i] = found \cap seen]
  /\ cancel' = [e \in Engines |-> IF e = i THEN FALSE ELSE cancel[e]]
  /\ UNCHANGED << mailVars, up, rootVars, source, began, inChunk, cur, goal, result,
                  status, count, rowVars, historyVars >>

\* fetchAllMessages() returns.
FetchAnswered(i) ==
  /\ pc[i] = "fetching"
  /\ pc' = [pc EXCEPT ![i] = "next"]
  /\ LET found == {m \in Messages : where[m] = source[i]} IN
       /\ todo' = [todo EXCEPT ![i] = found]
       /\ read' = [read EXCEPT ![i] = found \cap seen]
  /\ UNCHANGED << mailVars, up, rootVars, source, began, inChunk, cur, goal, result,
                  stateVars, rowVars, historyVars >>

\* The groups of a dry run whose action is not skip or no-match.
Previewed(e, found, verdict) ==
  {m \in found \ sentinels :
     CASE Mode(e, source[e]) = "review"  -> OldEnough(cfg[e], now, m \in seen)
       [] Mode(e, source[e]) = "inbox"   -> verdict \in {"review", "move"}
       [] Mode(e, source[e]) = "generic" -> verdict = "move"}

\* fetchAllMessages() returns to dryRun().
PreviewAnswered(e) ==
  /\ pc[e] = "previewing"
  /\ \E verdict \in RulesOf(e) :
       promised' = [promised EXCEPT ![e] =
         [source |-> source[e],
          messages |-> Previewed(e, {m \in Messages : where[m] = source[e]}, verdict)]]
  /\ EndsAs(e, "previewing")
  /\ UNCHANGED << mailVars, up, rootVars, cancel, count, rowVars, unbuilt, mishaps, changes,
                  runs >>

\* The fetch is refused, or cut off: "Sweep fetch failed", "Batch execute failed".
FetchFails(i) ==
  /\ pc[i] \in {"fetching", "previewing", "cut"}
  /\ EndsAs(i, "error")
  /\ KeepsState(i)
  /\ UNCHANGED << mailVars, up, rootVars, cancel, promised, unbuilt, mishaps, changes,
                  runs >>

-----------------------------------------------------------------------------
(* The messages, one by one.                                               *)

\* Faulty variant: the ages of read and of unread messages swapped.
Fate_Swapped(i, m, verdict) ==
  LET mode == Mode(i, source[i]) IN
  CASE m \in sentinels -> "ignored"
    [] m \notin sentinels /\ mode = "review" ->
         IF OldEnough(cfg[i], IF i \in Sweepers THEN began[i] ELSE now, m \notin read[i])
           THEN "move" ELSE "passed"
    [] m \notin sentinels /\ mode # "review" ->
         CASE verdict = "none" -> "passed"
           [] verdict = "skip" \/ (verdict = "review" /\ mode = "generic") -> "skip"
           [] OTHER -> "move"

\* Faulty variant: a review rule in generic mode files into Review.
Fate_GenericReview(i, m, verdict) ==
  LET mode == Mode(i, source[i]) IN
  CASE m \in sentinels -> "ignored"
    [] m \notin sentinels /\ mode = "review" ->
         IF OldEnough(cfg[i], IF i \in Sweepers THEN began[i] ELSE now, m \in read[i])
           THEN "move" ELSE "passed"
    [] m \notin sentinels /\ mode # "review" ->
         CASE verdict = "none" -> "passed"
           [] verdict = "skip" -> "skip"
           [] OTHER -> "move"

\* What runSweep() and execute() do with a message: nothing at all, nothing
\* but count it, log that it was skipped, or move it.
Fate(i, m, verdict) ==
  LET mode == Mode(i, source[i]) IN
  CASE m \in sentinels -> "ignored"
    [] m \notin sentinels /\ mode = "review" ->
         IF OldEnough(cfg[i], IF i \in Sweepers THEN began[i] ELSE now, m \in read[i])
           THEN "move" ELSE "passed"
    [] m \notin sentinels /\ mode # "review" ->
         CASE verdict = "none" -> "passed"
           [] verdict = "skip" \/ (verdict = "review" /\ mode = "generic") -> "skip"
           [] OTHER -> "move"

\* Where a message goes that is moved.
Goal(i, verdict) ==
  IF Mode(i, source[i]) = "inbox" /\ verdict = "review" THEN cfg[i].folder ELSE "away"

\* Faulty variant: a chunk that is done stays done.
GoesOn_NoReset(i, n, rest) ==
  IF i \in Engines /\ n = Chunk /\ rest # {} /\ ~cancel[i]
    THEN /\ pc' = [pc EXCEPT ![i] = "yielding"]
         /\ inChunk' = [inChunk EXCEPT ![i] = n]
    ELSE /\ pc' = [pc EXCEPT ![i] = "next"]
         /\ inChunk' = [inChunk EXCEPT ![i] = n]

\* After n messages of the chunk: the next one, the next chunk after a
\* setImmediate(), or the end of the loop.
GoesOn(i, n, rest) ==
  IF i \in Engines /\ n = Chunk /\ rest # {} /\ ~cancel[i]
    THEN /\ pc' = [pc EXCEPT ![i] = "yielding"]
         /\ inChunk' = [inChunk EXCEPT ![i] = 0]
    ELSE /\ pc' = [pc EXCEPT ![i] = "next"]
         /\ inChunk' = [inChunk EXCEPT ![i] = n]

Finish(i) ==
  /\ pc[i] = "next" /\ todo[i] = {}
  /\ EndsAs(i, "completed")
  /\ KeepsState(i)
  /\ UNCHANGED << mailVars, up, rootVars, cancel, promised, unbuilt, mishaps, changes,
                  runs >>

\* cancelRequested is looked at before every message.
SeesCancel(i) == i \in Engines /\ cancel[i]

Cancelled(i) ==
  /\ pc[i] = "next" /\ todo[i] # {} /\ SeesCancel(i)
  /\ EndsAs(i, "cancelled")
  /\ UNCHANGED << mailVars, up, rootVars, cancel, count, rowVars, promised, unbuilt, mishaps,
                  changes, runs >>

\* The next message, up to the first await.  Without a connection a MOVE, and
\* the CREATE that executeAction() tries then, throw at once.
Take(i) ==
  /\ pc[i] = "next" /\ ~SeesCancel(i)
  /\ \E m \in todo[i], verdict \in RulesOf(i) :
       LET rest == todo[i] \ {m}
           n == IF i \in Engines THEN inChunk[i] + 1 ELSE 0
           fate == Fate(i, m, verdict)
       IN
       /\ todo' = [todo EXCEPT ![i] = rest]
       /\ \/ /\ fate = "ignored"
             /\ GoesOn(i, n, rest)
             /\ UNCHANGED << cur, goal, result, count >>
          \/ /\ fate = "passed"
             /\ count' = IF i \in Engines
                           THEN [count EXCEPT ![i].processed = @ + 1, ![i].skipped = @ + 1]
                           ELSE count
             /\ GoesOn(i, n, rest)
             /\ UNCHANGED << cur, goal, result >>
          \/ /\ fate = "skip"
             /\ cur' = [cur EXCEPT ![i] = m]
             /\ result' = [result EXCEPT ![i] = "skipped"]
             /\ pc' = [pc EXCEPT ![i] = "settling"]
             /\ inChunk' = [inChunk EXCEPT ![i] = n]
             /\ UNCHANGED << goal, count >>
          \/ /\ fate = "move"
             /\ cur' = [cur EXCEPT ![i] = m]
             /\ goal' = [goal EXCEPT ![i] = Goal(i, verdict)]
             /\ result' = [result EXCEPT ![i] = "failed"]
             /\ pc' = [pc EXCEPT ![i] = IF up THEN "moving" ELSE "settling"]
             /\ inChunk' = [inChunk EXCEPT ![i] = n]
             /\ UNCHANGED count
  /\ UNCHANGED << mailVars, up, rootVars, source, began, read, status, cancel, rowVars,
                  historyVars >>

\* The event loop comes back from setImmediate().
Yielded(i) ==
  /\ pc[i] = "yielding"
  /\ pc' = [pc EXCEPT ![i] = "next"]
  /\ UNCHANGED << mailVars, up, rootVars, source, began, todo, read, inChunk, cur, goal,
                  result, stateVars, rowVars, historyVars >>

\* The server can execute the MOVE of i.
Movable(i) == where[cur[i]] = source[i] /\ (goal[i] = "away" => there)

\* Faulty variant: a MOVE without an effect counts as a success.
Moved_NoResult(i) ==
  /\ AtRest /\ pc[i] \in {"moving", "retrying"}
  /\ where' = IF Movable(i) THEN [where EXCEPT ![cur[i]] = goal[i]] ELSE where
  /\ done' = IF Movable(i) THEN [done EXCEPT ![i] = @ \cup {cur[i]}] ELSE done
  /\ result' = [result EXCEPT ![i] = "moved"]
  /\ pc' = [pc EXCEPT ![i] = "settling"]
  /\ Void(i)
  /\ UNCHANGED << sentinels, seen, now, there, up, rootVars, source, began, todo, read,
                  inChunk, cur, goal, stateVars, good, bad, unlogged, unbuilt, excused, stopped,
                  mishaps, changes, runs >>

\* The server answers that the message is moved.
Moved(i) ==
  /\ AtRest /\ pc[i] \in {"moving", "retrying"} /\ Movable(i)
  /\ where' = [where EXCEPT ![cur[i]] = goal[i]]
  /\ done' = [done EXCEPT ![i] = @ \cup {cur[i]}]
  /\ result' = [result EXCEPT ![i] = "moved"]
  /\ pc' = [pc EXCEPT ![i] = "settling"]
  /\ Void(i)
  /\ UNCHANGED << sentinels, seen, now, there, up, rootVars, source, began, todo, read,
                  inChunk, cur, goal, stateVars, good, bad, unlogged, unbuilt, excused, stopped,
                  mishaps, changes, runs >>

\* It answers that nothing was moved: only executeAction() tries again.
NotMoved(i) ==
  /\ AtRest /\ pc[i] \in {"moving", "retrying"}
  /\ pc' = [pc EXCEPT ![i] = IF pc[i] = "moving" /\ Mode(i, source[i]) = "inbox"
                               THEN "creating" ELSE "settling"]
  /\ UNCHANGED << mailVars, up, rootVars, source, began, todo, read, inChunk, cur, goal,
                  result, stateVars, rowVars, historyVars >>

\* The server answers the CREATE.
Created(i) ==
  /\ AtRest /\ pc[i] = "creating"
  /\ \/ /\ there' = (there \/ goal[i] = "away")
        /\ pc' = [pc EXCEPT ![i] = "retrying"]
     \/ /\ pc' = [pc EXCEPT ![i] = "settling"]
        /\ UNCHANGED there
  /\ UNCHANGED << where, sentinels, seen, now, up, rootVars, source, began, todo, read,
                  inChunk, cur, goal, result, stateVars, rowVars, historyVars >>

\* What may become of the counters and the log: row is what is logged, aborts
\* whether an error leaves the loop, broken whether SQLite has thrown.
Outcome(row, mo, sk, er, aborts, broken) ==
  [row |-> row, moved |-> mo, skipped |-> sk, errors |-> er, aborts |-> aborts,
   broken |-> broken]

\* processSweepMessage(): an error of the log after a MOVE is taken for an
\* error of the MOVE.
SweepOutcomes(res) ==
  { Outcome("none", 0, 0, 0, TRUE, TRUE) } \cup
  IF res = "moved"
    THEN { Outcome("good", 1, 0, 0, FALSE, FALSE), Outcome("bad", 0, 0, 1, FALSE, TRUE) }
    ELSE { Outcome("bad", 0, 0, 1, FALSE, FALSE) }

\* Faulty variant: success is looked at before the action.
InboxOutcomes_SkipMoved(res) ==
  LET er == IF res = "failed" THEN 1 ELSE 0
  IN { Outcome(IF res = "moved" THEN "good" ELSE IF res = "failed" THEN "bad" ELSE "none",
               1 - er, 0, er, FALSE, FALSE),
       Outcome("none", 1 - er, 0, er, TRUE, TRUE) }

\* execute() in inbox mode counts, then logs; nothing catches an error of the
\* log but the end of the run.
InboxOutcomes(res) ==
  LET mo == IF res = "moved" THEN 1 ELSE 0
      sk == IF res = "skipped" THEN 1 ELSE 0
      er == IF res = "failed" THEN 1 ELSE 0
  IN { Outcome(IF res = "moved" THEN "good" ELSE IF res = "failed" THEN "bad" ELSE "none",
               mo, sk, er, FALSE, FALSE),
       Outcome("none", mo, sk, er, TRUE, TRUE) }

\* In generic mode an error of the log is counted as well, and logged.
GenericOutcomes(res) ==
  LET mo == IF res = "moved" THEN 1 ELSE 0
      sk == IF res = "skipped" THEN 1 ELSE 0
  IN { Outcome("none", mo, sk, 1, TRUE, TRUE) } \cup
     IF res = "failed"
       THEN { Outcome("bad", 0, 0, 1, FALSE, FALSE) }
       ELSE { Outcome(IF res = "moved" THEN "good" ELSE "none", mo, sk, 0, FALSE, FALSE),
              Outcome("bad", mo, sk, 1, FALSE, TRUE) }

Outcomes(mode, res) ==
  CASE mode = "review"  -> SweepOutcomes(res)
    [] mode = "inbox"   -> InboxOutcomes(res)
    [] mode = "generic" -> GenericOutcomes(res)

\* The message in hand is counted and logged.
Settle(i) ==
  /\ pc[i] = "settling"
  /\ \E o \in Outcomes(Mode(i, source[i]), result[i]) :
       /\ o.broken => mishaps < MaxMishaps
       /\ mishaps' = IF o.broken THEN mishaps + 1 ELSE mishaps
       /\ unlogged' = IF o.broken THEN unlogged \cup {i} ELSE unlogged
       /\ good' = IF o.row = "good" THEN [good EXCEPT ![i] = @ \cup {cur[i]}] ELSE good
       /\ bad' = IF o.row = "bad" THEN [bad EXCEPT ![i] = @ \cup {cur[i]}] ELSE bad
       /\ count' = [count EXCEPT ![i] =
            [processed |-> IF o.aborts \/ i \in Sweepers THEN @.processed ELSE @.processed + 1,
             moved |-> @.moved + o.moved,
             skipped |-> @.skipped + o.skipped,
             errors |-> @.errors + o.errors]]
       /\ IF o.aborts
            THEN EndsAs(i, "error")
            ELSE /\ GoesOn(i, inChunk[i], todo[i])
                 /\ cur' = [cur EXCEPT ![i] = NoMessage]
                 /\ goal' = [goal EXCEPT ![i] = "away"]
                 /\ result' = [result EXCEPT ![i] = "skipped"]
                 /\ UNCHANGED << source, began, todo, read, status, excused, stopped >>
  /\ UNCHANGED << mailVars, up, rootVars, cancel, done, promised, unbuilt, changes, runs >>

-----------------------------------------------------------------------------
(* The connection.                                                         *)

\* It is lost: what is in flight is rejected, a MOVE perhaps after the server
\* has executed it.
LinkDown ==
  /\ AtRest /\ up /\ mishaps < MaxMishaps
  /\ up' = FALSE
  /\ mishaps' = mishaps + 1
  /\ listed' = FALSE /\ listing' = 0
  /\ \E late \in SUBSET {i \in Instances : pc[i] \in {"moving", "retrying"} /\ Movable(i)} :
       /\ \A i, j \in late : cur[i] = cur[j] => i = j
       /\ where' = [m \in Messages |-> IF \E i \in late : cur[i] = m
                                         THEN goal[CHOOSE i \in late : cur[i] = m]
                                         ELSE where[m]]
       /\ done' = [i \in Instances |-> IF i \in late THEN done[i] \cup {cur[i]} ELSE done[i]]
  /\ pc' = [i \in Instances |-> CASE pc[i] \in {"fetching", "previewing"} -> "cut"
                                    [] pc[i] \in Moving -> "settling"
                                    [] OTHER -> pc[i]]
  /\ AllVoid
  /\ UNCHANGED << sentinels, seen, now, there, rules, settings, engine,
                  sweeper, armed, starting, cfg,
                  source, began, todo, read, inChunk, cur, goal, result, stateVars, good, bad,
                  unlogged, unbuilt, excused, stopped, changes, runs >>

LinkUp ==
  /\ AtRest /\ ~up
  /\ up' = TRUE
  /\ UNCHANGED << mailVars, rootVars, runVars, stateVars, rowVars, historyVars >>

-----------------------------------------------------------------------------
Others ==
  \/ \E m \in Messages : UserMoves(m) \/ ForReview(m) \/ Marks(m)
  \/ Day \/ RulesChange \/ PutReview

Requests ==
  \/ Cancel \/ \E s \in Sweepers : SweepFires(s)
  \/ \E folder \in Sources : Execute(folder) \/ DryRun(folder)

Steps(i) ==
  \/ Finish(i) \/ Cancelled(i) \/ Take(i) \/ Yielded(i) \/ Settle(i)
  \/ pc[i] = "cut" /\ FetchFails(i)

\* The answers of the server; nothing else runs when they are seen.
Answers(i) ==
  \/ AtRest /\ (FetchAnswered(i) \/ FetchFails(i))
  \/ AtRest /\ i \in Engines /\ PreviewAnswered(i)
  \/ Moved(i) \/ NotMoved(i) \/ Created(i)

Next ==
  \/ Others \/ Requests \/ PutReviewListed \/ Rebuilt \/ MainSweeper \/ LinkDown \/ LinkUp
  \/ \E i \in Instances : Steps(i) \/ Answers(i)

Spec == Init /\ [][Next]_vars

\* Fairness: code that runs goes on; timers fire; main() goes on; a lost connection
\* comes back; the server answers every sweeper, and does not refuse the current
\* one for ever a fetch or a MOVE that it can execute.
Fairness ==
  /\ WF_vars(\E i \in Instances : Steps(i))
  /\ \A s \in Sweepers : SF_vars(Answers(s))
  /\ SF_vars(\E s \in Sweepers : s = sweeper /\ SweepFires(s))
  /\ SF_vars(\E s \in Sweepers : s = sweeper /\ AtRest /\ FetchAnswered(s))
  /\ SF_vars(\E s \in Sweepers : s = sweeper /\ Moved(s))
  /\ SF_vars(Rebuilt) /\ SF_vars(MainSweeper) /\ WF_vars(LinkUp)

FairSpec == Spec /\ Fairness

-----------------------------------------------------------------------------
(* Properties.                                                             *)

\* A row of a sweep or a batch that says a message was moved is true, and one
\* that says it failed is true as long as no connection and no write of the log
\* was lost: moveMessage() has no other error after the server has moved a message.
RowsAreTrue ==
  \A i \in Instances :
    /\ good[i] \subseteq done[i]
    /\ mishaps = 0 => bad[i] \cap done[i] = {}

\* The counters the web UI shows of a batch, and those of a sweep, are those of
\* its rows in the log, and every message counted is counted as one of three
\* things, however often the connection is lost; only a run that met a failed
\* write of the log itself is left out.
CountersTellTheLog ==
  \A i \in Instances \ unlogged :
    /\ count[i].moved = Cardinality(good[i])
    /\ count[i].errors = Cardinality(bad[i])
    /\ i \in Engines => count[i].processed =
                          count[i].moved + count[i].skipped + count[i].errors

\* What a sweep, or a batch over the Review folder, takes out of it is old
\* enough by the current settings and by whether it is read, unless the user has
\* marked it read or unread since it was fetched, or the last change of the settings
\* has not made its instances.  This needs those to be of the current settings, the
\* mode to be right and the flags to be the message's.
OnlyAged ==
  [][\A i \in {sweeper, engine} \cap Instances, m \in Messages :
       /\ ~unbuilt
       /\ where[m] = settings.folder
       /\ m \in done'[i] \ done[i]
       => OldEnough(settings, now, m \in seen) \/ m \in excused]_vars

\* A sweep goes by the settings that are current when its timer fires (UC-003).
\* The code does not keep it, and no run asks it: TLC refutes it by a sweeper that
\* was replaced without being stopped (MainSweeper, Rebuilt) and sweeps on.
SweepsByTheSettings ==
  [][\A s \in Sweepers : pc[s] = "idle" /\ pc'[s] = "fetching" => cfg[s] = settings]_vars

\* A cancel lets the chunk in flight complete (IX-010; cancel()'s comment).  The
\* code does not keep it, and no run asks it: the loop looks at cancelRequested
\* before every message, and with a chunk of two TLC refutes it.
ChunkCompletes ==
  [][\A e \in Engines :
       status[e] = "executing" /\ status'[e] = "cancelled" => inChunk[e] \in {0, Chunk}]_vars

\* Once a cancel was accepted the batch begins no other MOVE: the message in
\* hand is the last one, whether the request came during the fetch, during a MOVE
\* or between chunks, and nothing but the end of the run takes it back.
CancelStops ==
  [][\A e \in stopped : pc[e] \notin Moving => pc'[e] \notin Moving]_vars

\* dryRun() and execute() decide by code of their own: if nothing has changed
\* since the preview, and no write of the log fails, a batch that completes has
\* tried to move just the messages the preview said.  A lost connection voids
\* the preview; one that is made afterwards counts.
PreviewIsKept ==
  \A e \in Engines \ unlogged :
    status[e] = "completed" /\ promised[e] # NoPromise
      => good[e] \cup bad[e] = promised[e].messages

\* An old message in the Review folder does not stay there: the sweeper comes
\* back for it after failures, lost connections and a change of the settings.
\* Only a missing destination, which processSweepMessage() does not create, and a
\* change of the settings that failed for lack of a connection keep it there.
Overdue(m) ==
  /\ m \notin sentinels
  /\ where[m] = settings.folder
  /\ OldEnough(settings, now, m \in seen)
OldAreSwept ==
  \A m \in Messages :
    (Overdue(m) /\ there /\ sweeper # NoSweeper)
      ~> (~Overdue(m) \/ (sweeper = NoSweeper /\ listing = 0))
=============================================================================
