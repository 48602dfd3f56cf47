--------------------------- MODULE ActionFolders ---------------------------
(***************************************************************************)
(* Action folders (src/action-folders/): the poller that scans them, the   *)
(* processor that turns a dragged message into a change of the rules, and  *)
(* the rules of ConfigRepository (src/config/repository.ts) they share     *)
(* with the web UI.                                                        *)
(*                                                                         *)
(* Of the rules only what findSenderRule() looks for matters: how many     *)
(* enabled sender-only rules a sender has for each action.  Rules that     *)
(* match on more are never found, so never touched.                        *)
(***************************************************************************)
EXTENDS Naturals, Sequences, FiniteSets

CONSTANTS
  Actions,        \* the action types in use, of the four in ACTION_REGISTRY
  Messages,
  Senders,
  NoSender,       \* an unparseable From address
  Pollers,        \* names for instances of ActionFolderPoller
  NoPoller,
  Planted,        \* each action folder has its sentinel
  WebDuplicates,  \* the web UI may give a sender a second rule
  DiskFails,      \* saveConfig() may throw
  MaxRules,       \* bound: rules of one kind the web UI gives a sender
  MaxPuts,        \* bound: changes of the action folder settings
  MaxGen,         \* bound: names the folders get
  MaxFails,       \* bound: IMAP commands that fail
  MaxCrashes      \* bound: restarts

ASSUME ActionAssumption ==
  Actions # {} /\ Actions \subseteq {"vip", "block", "undoVip", "unblock"}
ASSUME MessageAssumption == IsFiniteSet(Messages)
ASSUME NameAssumption == NoSender \notin Senders /\ NoPoller \notin Pollers
ASSUME FlagAssumption ==
  Planted \in BOOLEAN /\ WebDuplicates \in BOOLEAN /\ DiskFails \in BOOLEAN
ASSUME BoundAssumption ==
  /\ MaxRules \in Nat \ {0} /\ MaxGen \in Nat \ {0}
  /\ MaxPuts \in Nat /\ MaxFails \in Nat /\ MaxCrashes \in Nat

VARIABLES
  \* the mailbox; an action folder is its action and the settings' generation
  place,       \* where each message is
  box,         \* the action folder it is dropped in
  uid,         \* its uid there
  from,        \* its sender
  \* the configuration
  gen,         \* which names the settings give the folders
  enabled,     \* actionFolders.enabled
  rules,       \* enabled sender-only rules in memory, by sender and action
  disk,        \* and in the file
  \* the composition root
  boot,        \* main(): "ensuring" the folders, "scanning" first, or "done"
  first,       \* the poller main() created and has not started yet
  timers,      \* pollers whose interval runs
  leaked,      \* pollers with a second interval, which stop() cannot clear
  current,     \* actionFolderPoller
  rebuilding,  \* change handlers between their awaits
  scan,        \* each poller's scanAll(), with the processMessage() in it
  logged,      \* the activity log: messages and success flags
  \* history
  applied,     \* messages that have had their effect on the rules
  last,        \* what changed each sender's rules last
  \* bounded events
  puts, fails, crashes

mailVars == << place, box, uid, from >>
ruleVars == << rules, disk, applied, last >>
configVars == << gen, enabled, puts >>
rootVars == << boot, first, timers, leaked, current, rebuilding >>
vars == << mailVars, ruleVars, configVars, rootVars, scan, logged, fails, crashes >>

\* ACTION_REGISTRY
Creates(a) == a \in {"vip", "block"}
RuleAction(a) == IF a \in {"vip", "undoVip"} THEN "skip" ELSE "delete"
Destination(a) == IF a = "block" THEN "trash" ELSE "inbox"
InUse(a) == IF a \in Actions THEN << a >> ELSE << >>
Registry == InUse("vip") \o InUse("block") \o InUse("undoVip") \o InUse("unblock")

RuleActions == {"skip", "delete"}
Opposite(k) == IF k = "skip" THEN "delete" ELSE "skip"

Boxes == Actions \X (1 .. MaxGen)
Calling == {"status", "fetching", "moving", "moved", "missed",
            "recheck", "final"}
Running == {"next", "adding"}
RuleCounts == [Senders -> [RuleActions -> 0 .. MaxRules]]

\* One run of scanAll(): the folders to go, under the names of generation
\* "gen", the messages to go of the one at the head, the first or second pass,
\* the generation in the MOVE that was sent, and whether there are rows to log.
Scans == [pc : {"idle"} \cup Calling \cup Running, todo : Seq(Actions),
          gen : 1 .. MaxGen, batch : SUBSET Messages, pass : 1 .. 2,
          target : 1 .. MaxGen, rows : BOOLEAN]
ScanOf(pc, todo, g) == [pc |-> pc, todo |-> todo, gen |-> g, batch |-> {}, pass |-> 1,
                        target |-> 1, rows |-> FALSE]
NoScan == ScanOf("idle", << >>, 1)

TypeOK ==
  /\ place \in [Messages -> {"unseen", "folder", "inbox", "trash", "user"}]
  /\ box \in [Messages -> Boxes]
  /\ uid \in [Messages -> Nat]
  /\ from \in [Messages -> Senders \cup {NoSender}]
  /\ gen \in 1 .. MaxGen
  /\ enabled \in BOOLEAN
  /\ rules \in RuleCounts /\ disk \in RuleCounts
  /\ boot \in {"ensuring", "scanning", "done"}
  /\ first \in Pollers \cup {NoPoller}
  /\ timers \subseteq Pollers /\ leaked \subseteq Pollers
  /\ current \in Pollers \cup {NoPoller}
  /\ rebuilding \in Nat
  /\ scan \in [Pollers -> Scans]
  /\ logged \subseteq Messages \X BOOLEAN
  /\ applied \subseteq Messages
  /\ last \in [Senders -> Actions \cup {"web", "none"}]
  /\ puts \in 0 .. MaxPuts /\ fails \in 0 .. MaxFails /\ crashes \in 0 .. MaxCrashes

\* The process has started: main() is about to ensure the folders.
Init ==
  /\ place = [m \in Messages |-> "unseen"]
  /\ box \in [Messages -> Boxes]
  /\ uid = [m \in Messages |-> 0]
  /\ from \in [Messages -> Senders \cup {NoSender}]
  /\ gen = 1 /\ enabled = TRUE
  /\ rules = [s \in Senders |-> [k \in RuleActions |-> 0]]
  /\ disk = rules
  /\ boot = "ensuring" /\ first = NoPoller
  /\ timers = {} /\ leaked = {} /\ current = NoPoller /\ rebuilding = 0
  /\ scan = [p \in Pollers |-> NoScan]
  /\ logged = {}
  /\ applied = {} /\ last = [s \in Senders |-> "none"]
  /\ puts = 0 /\ fails = 0 /\ crashes = 0

-----------------------------------------------------------------------------
InBox(b) == {m \in Messages : place[m] = "folder" /\ box[m] = b}
Count(b) == Cardinality(InBox(b)) + (IF Planted THEN 1 ELSE 0)

Action(p) == Head(scan[p].todo)
Box(p) == << Action(p), scan[p].gen >>
At(p, pc) == scan[p].pc = pc

\* The message in processMessage(): they come in the order of their uids.
Earliest(p) == {m \in scan[p].batch : \A n \in scan[p].batch : uid[m] <= uid[n]}
Current(p) == CHOOSE m \in Earliest(p) : TRUE
Sender(p) == from[Current(p)]
TakesOne(p) == At(p, "next") /\ scan[p].batch # {}

\* No JavaScript is running: only then are answers, timers and requests seen.
AtRest == \A p \in Pollers : scan[p].pc \notin Running

Goto(p, pc) == scan' = [scan EXCEPT ![p].pc = pc]

\* p goes on with the next folder of its scan, or ends it.
NextFolder(p) ==
  scan' = [scan EXCEPT ![p] =
             IF Len(@.todo) > 1
               THEN ScanOf("status", Tail(@.todo), @.gen)
               ELSE NoScan]

-----------------------------------------------------------------------------
(* The user, with a mail client and in the web UI.                         *)

Drop(m) ==
  /\ place[m] = "unseen" /\ box[m][2] <= gen
  /\ place' = [place EXCEPT ![m] = "folder"]
  /\ uid' = [uid EXCEPT ![m] =
               Cardinality({n \in Messages : place'[n] # "unseen" /\ box[n] = box[m]})]
  /\ UNCHANGED << box, from, ruleVars, configVars, rootVars, scan, logged, fails, crashes >>

TakeBack(m) ==
  /\ place[m] = "folder"
  /\ place' = [place EXCEPT ![m] = "user"]
  /\ UNCHANGED << box, uid, from, ruleVars, configVars, rootVars, scan, logged, fails, crashes >>

\* A rule is added, enabled, disabled, changed or deleted.
WebEdit(s, k) ==
  /\ AtRest
  /\ \/ /\ rules[s][k] < MaxRules
        /\ WebDuplicates \/ rules[s][k] + rules[s][Opposite(k)] = 0
        /\ rules' = [rules EXCEPT ![s][k] = @ + 1]
     \/ /\ rules[s][k] > 0
        /\ rules' = [rules EXCEPT ![s][k] = @ - 1]
  /\ disk' = rules' \/ (DiskFails /\ UNCHANGED disk)
  /\ last' = [last EXCEPT ![s] = "web"]
  /\ UNCHANGED << mailVars, applied, configVars, rootVars, scan, logged, fails, crashes >>

\* PUT /api/config/action-folders, up to the handler's first await.  stop()
\* does not end a scan in progress, nor an interval that start() has replaced,
\* and does nothing to a poller that main() has yet to start.
PutConfig ==
  /\ AtRest /\ puts < MaxPuts
  /\ puts' = puts + 1
  /\ gen' \in gen .. MaxGen
  /\ enabled' \in BOOLEAN
  /\ timers' = timers \ {current}
  /\ current' = NoPoller
  /\ rebuilding' = IF enabled' THEN rebuilding + 1 ELSE rebuilding
  /\ UNCHANGED << mailVars, ruleVars, boot, first, leaked, scan, logged, fails, crashes >>

-----------------------------------------------------------------------------
(* The composition root.                                                   *)

Unused(p) == p \notin timers \cup leaked \cup {first, current} /\ At(p, "idle")

\* scanAll() is called on a poller that is not processing.
Begin(p) ==
  IF enabled
    THEN scan' = [scan EXCEPT ![p] = ScanOf("status", Registry, gen)]
    ELSE UNCHANGED scan

\* main() has ensured the folders: it scans, and starts the timer after that.
FirstScan(p) ==
  /\ AtRest /\ boot = "ensuring" /\ Unused(p)
  /\ boot' = "scanning" /\ first' = p /\ current' = p
  /\ Begin(p)
  /\ UNCHANGED << mailVars, ruleVars, configVars, timers, leaked, rebuilding, logged,
                  fails, crashes >>

\* The scan is over: main() starts whatever poller the shared variable holds by
\* now.  One that a handler made and started meanwhile gets a second interval,
\* and forgets the first.
FirstStart ==
  /\ AtRest /\ boot = "scanning" /\ At(first, "idle") /\ current # NoPoller
  /\ boot' = "done" /\ first' = NoPoller
  /\ timers' = timers \cup {current}
  /\ leaked' = leaked \cup (timers \cap {current})
  /\ UNCHANGED << mailVars, ruleVars, configVars, current, rebuilding, scan, logged,
                  fails, crashes >>

\* The process starts, or starts again, from the file.
Restarts ==
  /\ rules' = disk
  /\ boot' = IF enabled THEN "ensuring" ELSE "done"
  /\ first' = NoPoller
  /\ timers' = {} /\ leaked' = {} /\ current' = NoPoller /\ rebuilding' = 0
  /\ scan' = [p \in Pollers |-> NoScan]
  /\ UNCHANGED << mailVars, disk, applied, last, configVars, logged, fails >>

\* A handler has cleared the variable: start() of undefined throws out of
\* main(), the process exits and its container is started again.
StartFails ==
  /\ AtRest /\ boot = "scanning" /\ At(first, "idle") /\ current = NoPoller
  /\ Restarts
  /\ UNCHANGED crashes

\* A handler has ensured the folders and creates a poller, whether or not
\* another handler has done so.
Rebuilt(p) ==
  /\ AtRest /\ rebuilding > 0 /\ Unused(p)
  /\ rebuilding' = rebuilding - 1
  /\ timers' = timers \cup {p}
  /\ current' = p
  /\ UNCHANGED << mailVars, ruleVars, configVars, boot, first, leaked, scan, logged,
                  fails, crashes >>

\* A folder can be neither found nor created: no poller.
EnsureFails ==
  /\ AtRest /\ fails < MaxFails
  /\ fails' = fails + 1
  /\ \/ /\ boot = "ensuring" /\ boot' = "done" /\ UNCHANGED rebuilding
     \/ /\ rebuilding > 0 /\ rebuilding' = rebuilding - 1 /\ UNCHANGED boot
  /\ UNCHANGED << mailVars, ruleVars, configVars, first, timers, leaked, current, scan,
                  logged, crashes >>

\* The interval fires; a scan that is in progress makes it a no-op.
Tick(p) ==
  /\ AtRest /\ p \in timers \cup leaked /\ At(p, "idle") /\ enabled
  /\ Begin(p)
  /\ UNCHANGED << mailVars, ruleVars, configVars, rootVars, logged, fails, crashes >>

-----------------------------------------------------------------------------
(* scanAll()                                                               *)

\* status() tells how many messages there are.  A single one is taken to be
\* the sentinel.
StatusAnswered(p) ==
  /\ AtRest /\ At(p, "status")
  /\ IF Count(Box(p)) <= 1 THEN NextFolder(p) ELSE Goto(p, "fetching")
  /\ UNCHANGED << mailVars, ruleVars, configVars, rootVars, logged, fails, crashes >>

\* fetchAllMessages(); if all there is is the sentinel, the folder is done.
FetchAnswered(p) ==
  /\ AtRest /\ At(p, "fetching")
  /\ IF InBox(Box(p)) = {} /\ scan[p].pass = 1
       THEN NextFolder(p)
       ELSE scan' = [scan EXCEPT ![p].pc = "next", ![p].batch = InBox(Box(p))]
  /\ UNCHANGED << mailVars, ruleVars, configVars, rootVars, logged, fails, crashes >>

\* The messages are done: look at the folder again.
PassDone(p) ==
  /\ At(p, "next") /\ scan[p].batch = {}
  /\ Goto(p, IF scan[p].pass = 1 THEN "recheck" ELSE "final")
  /\ UNCHANGED << mailVars, ruleVars, configVars, rootVars, logged, fails, crashes >>

\* What is left is processed once more.
Rechecked(p) ==
  /\ AtRest /\ At(p, "recheck")
  /\ IF Count(Box(p)) = 0
       THEN NextFolder(p)
       ELSE scan' = [scan EXCEPT ![p].pc = "fetching", ![p].pass = 2]
  /\ UNCHANGED << mailVars, ruleVars, configVars, rootVars, logged, fails, crashes >>

\* The last count is only logged.
FinalChecked(p) ==
  /\ AtRest /\ At(p, "final")
  /\ NextFolder(p)
  /\ UNCHANGED << mailVars, ruleVars, configVars, rootVars, logged, fails, crashes >>

\* Faulty variant: an error leaves "processing" set.
ScanFails_NoFinally(p) ==
  /\ AtRest /\ scan[p].pc \in {"status", "fetching", "recheck", "final"}
  /\ fails < MaxFails /\ fails' = fails + 1
  /\ Goto(p, "failed")
  /\ UNCHANGED << mailVars, ruleVars, configVars, rootVars, logged, crashes >>

\* An error of a STATUS or a FETCH gives the folder up until the next scan.
ScanFails(p) ==
  /\ AtRest /\ scan[p].pc \in {"status", "fetching", "recheck", "final"}
  /\ fails < MaxFails /\ fails' = fails + 1
  /\ NextFolder(p)
  /\ UNCHANGED << mailVars, ruleVars, configVars, rootVars, logged, crashes >>

-----------------------------------------------------------------------------
(* processMessage()                                                        *)

\* The MOVE is sent for the folder that the settings name now.
SendMove(p, rows) ==
  scan' = [scan EXCEPT ![p].pc = "moving", ![p].target = gen, ![p].rows = rows]

\* The rules have changed: they are saved and the call goes on, or saveConfig()
\* throws and the folder is given up, with the change in memory.
Save(p, goOn) ==
  \/ disk' = rules' /\ goOn
  \/ /\ DiskFails /\ UNCHANGED << disk, applied >>
     /\ last' = [last EXCEPT ![Sender(p)] = "none"]
     /\ NextFolder(p)

\* The message has had its effect; the move follows.
Done(p, rows) ==
  /\ applied' = applied \cup {Current(p)}
  /\ last' = [last EXCEPT ![Sender(p)] = Action(p)]
  /\ SendMove(p, rows)

\* From cannot be parsed: the rules stay.
TakeUnparseable(p) ==
  /\ TakesOne(p) /\ Sender(p) = NoSender
  /\ SendMove(p, FALSE)
  /\ UNCHANGED << mailVars, ruleVars, configVars, rootVars, logged, fails, crashes >>

\* vip and block, until the rule is to be created: the opposite is gone.
ReadyToAdd(p, rows) ==
  /\ scan' = [scan EXCEPT ![p].pc = "adding", ![p].rows = rows]
  /\ last' = [last EXCEPT ![Sender(p)] = "none"]
  /\ UNCHANGED applied

\* Faulty variant: a rule of the opposite kind is left alone.
TakeCreate_KeepsConflict(p) ==
  /\ TakesOne(p) /\ Sender(p) # NoSender /\ Creates(Action(p))
  /\ ReadyToAdd(p, FALSE)
  /\ UNCHANGED << mailVars, rules, disk, configVars, rootVars, logged, fails, crashes >>

\* Remove one rule of the opposite kind, if there is one.
TakeCreate(p) ==
  /\ TakesOne(p) /\ Sender(p) # NoSender /\ Creates(Action(p))
  /\ LET opposite == Opposite(RuleAction(Action(p))) IN
       IF rules[Sender(p)][opposite] > 0
         THEN /\ rules' = [rules EXCEPT ![Sender(p)][opposite] = @ - 1]
              /\ Save(p, ReadyToAdd(p, TRUE))
         ELSE ReadyToAdd(p, FALSE) /\ UNCHANGED << rules, disk >>
  /\ UNCHANGED << mailVars, configVars, rootVars, logged, fails, crashes >>

\* Faulty variant: the rule is created although there is one.
Add_Always(p) ==
  /\ At(p, "adding")
  /\ LET k == RuleAction(Action(p)) IN
       /\ rules' = [rules EXCEPT ![Sender(p)][k] = @ + 1]
       /\ Save(p, Done(p, TRUE))
  /\ UNCHANGED << mailVars, configVars, rootVars, logged, fails, crashes >>

\* Then add the rule, unless there is one.
Add(p) ==
  /\ At(p, "adding")
  /\ LET k == RuleAction(Action(p)) IN
       IF rules[Sender(p)][k] > 0
         THEN Done(p, TRUE) /\ UNCHANGED << rules, disk >>
         ELSE rules' = [rules EXCEPT ![Sender(p)][k] = @ + 1] /\ Save(p, Done(p, TRUE))
  /\ UNCHANGED << mailVars, configVars, rootVars, logged, fails, crashes >>

\* undoVip and unblock: remove one rule, if there is one.
TakeRemove(p) ==
  /\ TakesOne(p) /\ Sender(p) # NoSender /\ ~Creates(Action(p))
  /\ LET k == RuleAction(Action(p)) IN
       IF rules[Sender(p)][k] > 0
         THEN rules' = [rules EXCEPT ![Sender(p)][k] = @ - 1] /\ Save(p, Done(p, TRUE))
         ELSE Done(p, FALSE) /\ UNCHANGED << rules, disk >>
  /\ UNCHANGED << mailVars, configVars, rootVars, logged, fails, crashes >>

\* Faulty variant: the number in the MOVE is a position, not a uid.
Addressed_Position(p) ==
  LET there == InBox(<< Action(p), scan[p].target >>) IN
    {m \in there : Cardinality({n \in there : uid[n] <= uid[m]}) = uid[Current(p)]}

\* What has the uid of the current message in the folder the MOVE names.
Addressed(p) == {m \in InBox(<< Action(p), scan[p].target >>) : uid[m] = uid[Current(p)]}

\* The server executes the MOVE, which may find nothing there: moveMessage()
\* then throws on the empty result.
Moves(p) ==
  /\ At(p, "moving")
  /\ place' = [m \in Messages |->
                 IF m \notin Addressed(p) THEN place[m]
                 ELSE IF Sender(p) = NoSender THEN "inbox" ELSE Destination(Action(p))]
  /\ Goto(p, IF Addressed(p) = {} THEN "missed" ELSE "moved")
  /\ UNCHANGED << box, uid, from, ruleVars, configVars, rootVars, logged, fails, crashes >>

\* The call returns and the next message is taken.
Returns(p) ==
  scan' = [scan EXCEPT ![p].pc = "next", ![p].batch = @ \ {Current(p)}, ![p].rows = FALSE]

LogRows(p, success) ==
  logged' = logged \cup (IF scan[p].rows THEN {<< Current(p), success >>} ELSE {})

MoveAnswered(p) ==
  /\ AtRest /\ At(p, "moved")
  /\ LogRows(p, TRUE)
  /\ Returns(p)
  /\ UNCHANGED << mailVars, ruleVars, configVars, rootVars, fails, crashes >>

\* Faulty variant: the rows of a failed move are those of an answered one.
MoveFails_LogsSuccess(p) ==
  /\ AtRest /\ scan[p].pc \in {"moving", "moved"}
  /\ fails < MaxFails /\ fails' = fails + 1
  /\ LogRows(p, TRUE)
  /\ IF Sender(p) = NoSender THEN NextFolder(p) ELSE Returns(p)
  /\ UNCHANGED << mailVars, ruleVars, configVars, rootVars, crashes >>

\* moveMessage() throws.  The rules stay as they are.  Without a sender the
\* error leaves processMessage().
Unmoved(p) ==
  /\ LogRows(p, FALSE)
  /\ IF Sender(p) = NoSender THEN NextFolder(p) ELSE Returns(p)

MoveMissed(p) ==
  /\ AtRest /\ At(p, "missed")
  /\ Unmoved(p)
  /\ UNCHANGED << mailVars, ruleVars, configVars, rootVars, fails, crashes >>

\* The MOVE fails, or its answer is lost.
MoveFails(p) ==
  /\ AtRest /\ scan[p].pc \in {"moving", "moved"}
  /\ fails < MaxFails /\ fails' = fails + 1
  /\ Unmoved(p)
  /\ UNCHANGED << mailVars, ruleVars, configVars, rootVars, crashes >>

-----------------------------------------------------------------------------
\* The process is killed at any point.
Crash ==
  /\ crashes < MaxCrashes
  /\ crashes' = crashes + 1
  /\ Restarts

-----------------------------------------------------------------------------
Processes(p) ==
  \/ PassDone(p) \/ TakeUnparseable(p) \/ TakeCreate(p) \/ Add(p) \/ TakeRemove(p)

Answered(p) ==
  \/ StatusAnswered(p) \/ FetchAnswered(p) \/ Rechecked(p) \/ FinalChecked(p)
  \/ MoveAnswered(p) \/ MoveMissed(p)

Next ==
  \/ \E m \in Messages : Drop(m) \/ TakeBack(m)
  \/ \E s \in Senders, k \in RuleActions : WebEdit(s, k)
  \/ PutConfig
  \/ FirstStart \/ StartFails \/ EnsureFails
  \/ \E p \in Pollers :
       \/ FirstScan(p) \/ Rebuilt(p) \/ Tick(p)
       \/ Answered(p) \/ ScanFails(p)
       \/ Processes(p) \/ Moves(p) \/ MoveFails(p)
  \/ Crash

Spec == Init /\ [][Next]_vars

\* The handlers, main(), the timers and the calls of each poller go on: other
\* pollers' turns come between, so weak fairness would not do.
Fairness ==
  /\ SF_vars(FirstStart \/ StartFails \/ \E p \in Pollers : FirstScan(p) \/ Rebuilt(p))
  /\ \A p \in Pollers :
       /\ SF_vars(Tick(p) \/ Answered(p))
       /\ WF_vars(Processes(p) \/ Moves(p))

FairSpec == Spec /\ Fairness

-----------------------------------------------------------------------------
(* Properties.                                                             *)

\* What a folder promises of a sender's rules.
Holds(a, r) ==
  IF Creates(a) THEN r[RuleAction(a)] > 0 /\ r[Opposite(RuleAction(a))] = 0
                ELSE r[RuleAction(a)] = 0

\* The last message processed for a sender has its effect on the rules,
\* whatever scans overlapped and wherever one was cut off (processMessage(),
\* IX-008's postconditions).
LastActionHolds ==
  \A s \in Senders : last[s] \in Actions => Holds(last[s], rules[s])

\* No sender gets two rules by crashes, retries or overlapping scans, in
\* memory or in the file (AF-07).
OneRulePerSender ==
  \A s \in Senders : /\ rules[s]["skip"] + rules[s]["delete"] <= 1
                     /\ disk[s]["skip"] + disk[s]["delete"] <= 1

\* No message is moved out of its action folder unread: by then it has had its
\* effect on the rules, if it has a sender (moveMessage() after the change).
NothingMovedUnread ==
  \A m \in Messages :
    place[m] \in {"inbox", "trash"} /\ from[m] # NoSender => m \in applied

\* A row that says a message was moved is true, whichever poller, or the user,
\* was first (logActivity() after the answer).
SuccessIsTrue ==
  \A m \in Messages : << m, TRUE >> \in logged => place[m] # "folder"

\* AF-02: a message in an action folder leaves it, unless the feature is off or
\* the folders could not be ensured: neither changed settings during the first
\* scan, nor a restart, nor overlapping handlers leave the folders unwatched.
Unwatched == current = NoPoller /\ boot = "done" /\ rebuilding = 0

FoldersEmptied ==
  \A m \in Messages :
    (place[m] = "folder" /\ box[m][2] = gen)
      ~> (place[m] # "folder" \/ box[m][2] # gen \/ ~enabled \/ Unwatched)

=============================================================================
