------------------------------ MODULE Monitor ------------------------------
(***************************************************************************)
(* The arrival pipeline: Monitor (src/monitor/index.ts), executeAction     *)
(* (src/actions/index.ts), and the activity log and UID cursor it keeps in *)
(* SQLite (src/log/index.ts).                                              *)
(*                                                                         *)
(* A message is its INBOX uid.  The rules are abstracted to what they      *)
(* currently decide for a message; a rule's review and delete are moves.   *)
(* An action is the code between two awaits, cut further where the SQLite  *)
(* calls may throw or a crash leaves the database between two writes.      *)
(***************************************************************************)
EXTENDS Naturals, FiniteSetsExt

CONSTANTS
  MaxUid,        \* bound: how many messages arrive
  MaxCrashes,    \* bound: how often the process is killed and restarted
  Calls,         \* names for calls of processNewMessages()
  CursorEnabled  \* cursorEnabled, read from the log's state table

ASSUME UidAssumption == MaxUid \in Nat /\ MaxCrashes \in Nat
ASSUME CursorAssumption == CursorEnabled \in BOOLEAN

Uids == 1 .. MaxUid

VARIABLES
  \* the server and the connection
  place,       \* where each message is
  sentinels,   \* the messages that carry the sentinel header
  folder,      \* the rules' destination folder exists
  up,          \* the client is connected
  exists,      \* an EXISTS response is on its way to the client
  \* the Monitor
  rule,        \* what the current rules decide for an ordinary message
  processing,  \* processing
  lastUid,     \* lastUid
  pc,          \* how far each call of processNewMessages() has come
  since,       \* the lastUid it fetches from
  batch,       \* the messages it has fetched and not finished
  outcome,     \* the ActionResult it is about to log
  \* SQLite
  saved,       \* state['lastUid']
  logged,      \* the outcomes in the activity table, by message
  \* history
  handled,     \* messages processMessage() has returned or thrown for
  sinceBoot,   \* messages logged since the process started
  refused,     \* the last fetch ended in an error on a live connection
  crashes

serverVars == << place, sentinels, folder >>
linkVars == << up, exists >>
callVars == << pc, since, batch, outcome >>
dbVars == << saved, logged >>
historyVars == << handled, sinceBoot >>
vars == << serverVars, linkVars, rule, processing, lastUid, callVars, dbVars,
           historyVars, refused, crashes >>

Places == {"unborn", "inbox", "filed", "away"}
Outcomes == {"skip", "moved", "failed", "cut"}
InFlight == {"fetching", "moving", "creating", "retrying"}
Phases == {"idle", "next", "logging", "saving"} \cup InFlight

TypeOK ==
  /\ place \in [Uids -> Places]
  /\ sentinels \subseteq Uids
  /\ folder \in BOOLEAN
  /\ up \in BOOLEAN
  /\ exists \in BOOLEAN
  /\ rule \in {"none", "skip", "move"}
  /\ processing \in BOOLEAN
  /\ lastUid \in 0 .. MaxUid
  /\ pc \in [Calls -> Phases]
  /\ since \in [Calls -> 0 .. MaxUid]
  /\ batch \in [Calls -> SUBSET Uids]
  /\ outcome \in [Calls -> Outcomes]
  /\ saved \in 0 .. MaxUid
  /\ logged \in [Uids -> SUBSET Outcomes]
  /\ handled \subseteq Uids
  /\ sinceBoot \subseteq Uids
  /\ refused \in BOOLEAN
  /\ crashes \in 0 .. MaxCrashes

\* A first start, not connected yet, on an empty INBOX.
Init ==
  /\ place = [u \in Uids |-> "unborn"]
  /\ sentinels = {}
  /\ folder \in BOOLEAN
  /\ up = FALSE
  /\ exists = FALSE
  /\ rule \in {"none", "skip", "move"}
  /\ processing = FALSE
  /\ lastUid = 0
  /\ pc = [c \in Calls |-> "idle"]
  /\ since = [c \in Calls |-> 0]
  /\ batch = [c \in Calls |-> {}]
  /\ outcome = [c \in Calls |-> "skip"]
  /\ saved = 0
  /\ logged = [u \in Uids |-> {}]
  /\ handled = {}
  /\ sinceBoot = {}
  /\ refused = FALSE
  /\ crashes = 0

-----------------------------------------------------------------------------
Inbox == {u \in Uids : place[u] = "inbox"}

\* The message call c is working on: the first of its batch.
Current(c) == Min(batch[c])

\* No JavaScript is running: only then are events and timers delivered.
AtRest == \A c \in Calls : pc[c] \in {"idle"} \cup InFlight

Goto(c, phase) == pc' = [pc EXCEPT ![c] = phase]

-----------------------------------------------------------------------------
(* The mailbox, the network and the user.                                  *)

\* Mail arrives; the server announces it if we are connected.
Arrive(u) ==
  /\ place[u] = "unborn" /\ \A v \in Uids : v < u => place[v] # "unborn"
  /\ place' = [place EXCEPT ![u] = "inbox"]
  /\ sentinels' \in {sentinels, sentinels \cup {u}}
  /\ exists' = (exists \/ up)
  /\ UNCHANGED << folder, up, rule, processing, lastUid, callVars, dbVars,
                  historyVars, refused, crashes >>

\* The user, or another part of the program, moves a message out of INBOX.
TakenAway(u) ==
  /\ place[u] = "inbox"
  /\ place' = [place EXCEPT ![u] = "away"]
  /\ UNCHANGED << sentinels, folder, linkVars, rule, processing, lastUid, callVars,
                  dbVars, historyVars, refused, crashes >>

\* updateRules()
UpdateRules ==
  /\ AtRest
  /\ rule' \in {"none", "skip", "move"} \ {rule}
  /\ UNCHANGED << serverVars, linkVars, processing, lastUid, callVars, dbVars,
                  historyVars, refused, crashes >>

-----------------------------------------------------------------------------
(* processNewMessages()                                                    *)

\* Faulty variant: a call starts while another one runs.
Begin_Reentrant ==
  \E c \in Calls :
    /\ pc[c] = "idle"
    /\ processing' = TRUE
    /\ since' = [since EXCEPT ![c] = lastUid]
    /\ Goto(c, "fetching")

\* The call starts, or returns at once if another one is in progress.
Begin ==
  IF processing
  THEN UNCHANGED << processing, since, pc >>
  ELSE \E c \in Calls :
         /\ pc[c] = "idle"
         /\ processing' = TRUE
         /\ since' = [since EXCEPT ![c] = lastUid]
         /\ Goto(c, "fetching")

\* 'newMail'
NewMail ==
  /\ AtRest /\ up /\ exists
  /\ exists' = FALSE
  /\ Begin
  /\ UNCHANGED << serverVars, up, rule, lastUid, batch, outcome, dbVars, historyVars,
                  refused, crashes >>

\* Faulty variant: nobody listens for 'connected'.
LinkUp_NoScan ==
  /\ AtRest /\ ~up
  /\ up' = TRUE
  /\ UNCHANGED << serverVars, exists, rule, processing, lastUid, callVars, dbVars,
                  historyVars, refused, crashes >>

\* 'connected', and the explicit call in start()
LinkUp ==
  /\ AtRest /\ ~up
  /\ up' = TRUE
  /\ Begin
  /\ UNCHANGED << serverVars, exists, rule, lastUid, batch, outcome, dbVars,
                  historyVars, refused, crashes >>

\* Faulty variant: the fetch starts one too high.
FetchAnswered_Off(c) ==
  /\ pc[c] = "fetching"
  /\ batch' = [batch EXCEPT ![c] = {u \in Inbox : u > since[c] + 1}]
  /\ since' = [since EXCEPT ![c] = 0]
  /\ Goto(c, "next")
  /\ refused' = FALSE
  /\ UNCHANGED << serverVars, linkVars, rule, processing, lastUid, outcome, dbVars,
                  historyVars, crashes >>

\* The server has executed FETCH since+1:*.
FetchAnswered(c) ==
  /\ pc[c] = "fetching"
  /\ batch' = [batch EXCEPT ![c] = {u \in Inbox : u > since[c]}]
  /\ since' = [since EXCEPT ![c] = 0]
  /\ Goto(c, "next")
  /\ refused' = FALSE
  /\ UNCHANGED << serverVars, linkVars, rule, processing, lastUid, outcome, dbVars,
                  historyVars, crashes >>

\* The server refuses it: "Error fetching messages".
FetchRefused(c) ==
  /\ pc[c] = "fetching"
  /\ Goto(c, "idle")
  /\ processing' = FALSE
  /\ since' = [since EXCEPT ![c] = 0]
  /\ refused' = TRUE
  /\ UNCHANGED << serverVars, linkVars, rule, lastUid, batch, outcome, dbVars,
                  historyVars, crashes >>

Finish(c) ==
  /\ pc[c] = "next" /\ batch[c] = {}
  /\ Goto(c, "idle")
  /\ processing' = FALSE
  /\ UNCHANGED << serverVars, linkVars, rule, lastUid, since, batch, outcome, dbVars,
                  historyVars, refused, crashes >>

\* The start of processMessage(): the sentinel guard, evaluateRules, and
\* executeAction up to its first await.  Without a connection both moves and
\* the CREATE between them throw at once.
TakeNext(c) ==
  /\ pc[c] = "next" /\ batch[c] # {}
  /\ LET u == Current(c) IN
       \/ /\ u \in sentinels \/ rule = "none"
          /\ handled' = handled \cup {u}
          /\ Goto(c, "saving")
          /\ UNCHANGED outcome
       \/ /\ u \notin sentinels /\ rule = "skip"
          /\ outcome' = [outcome EXCEPT ![c] = "skip"]
          /\ Goto(c, "logging")
          /\ UNCHANGED handled
       \/ /\ u \notin sentinels /\ rule = "move"
          /\ IF up THEN Goto(c, "moving") /\ UNCHANGED outcome
                   ELSE Goto(c, "logging") /\ outcome' = [outcome EXCEPT ![c] = "cut"]
          /\ UNCHANGED handled
  /\ UNCHANGED << serverVars, linkVars, rule, processing, lastUid, since, batch,
                  dbVars, sinceBoot, refused, crashes >>

\* Faulty variant: a MOVE without an effect counts as a success.
MoveAnswered_NoResult(c) ==
  /\ pc[c] \in {"moving", "retrying"}
  /\ place' = IF folder /\ Current(c) \in Inbox
                THEN [place EXCEPT ![Current(c)] = "filed"] ELSE place
  /\ outcome' = [outcome EXCEPT ![c] = "moved"]
  /\ Goto(c, "logging")
  /\ UNCHANGED << sentinels, folder, linkVars, rule, processing, lastUid, since,
                  batch, dbVars, historyVars, refused, crashes >>

\* The server answers a MOVE: it has moved the message, or it has not (the
\* folder or the message is missing, or an error).
MoveAnswered(c) ==
  /\ pc[c] \in {"moving", "retrying"}
  /\ \/ /\ folder /\ Current(c) \in Inbox
        /\ place' = [place EXCEPT ![Current(c)] = "filed"]
        /\ outcome' = [outcome EXCEPT ![c] = "moved"]
        /\ Goto(c, "logging")
     \/ /\ pc[c] = "moving"
        /\ Goto(c, "creating")
        /\ UNCHANGED << place, outcome >>
     \/ /\ pc[c] = "retrying"
        /\ outcome' = [outcome EXCEPT ![c] = "failed"]
        /\ Goto(c, "logging")
        /\ UNCHANGED place
  /\ UNCHANGED << sentinels, folder, linkVars, rule, processing, lastUid, since,
                  batch, dbVars, historyVars, refused, crashes >>

\* The server answers the CREATE.
CreateAnswered(c) ==
  /\ pc[c] = "creating"
  /\ \/ folder' = TRUE /\ Goto(c, "retrying") /\ UNCHANGED outcome
     \/ /\ outcome' = [outcome EXCEPT ![c] = "failed"]
        /\ Goto(c, "logging")
        /\ UNCHANGED folder
  /\ UNCHANGED << place, sentinels, linkVars, rule, processing, lastUid, since, batch,
                  dbVars, historyVars, refused, crashes >>

\* logActivity() writes the row, or SQLite throws and the message is given up.
Log(c) ==
  /\ pc[c] = "logging"
  /\ \/ /\ logged' = [logged EXCEPT ![Current(c)] = @ \cup {outcome[c]}]
        /\ sinceBoot' = sinceBoot \cup {Current(c)}
        /\ Goto(c, "saving")
        /\ UNCHANGED batch
     \/ /\ batch' = [batch EXCEPT ![c] = @ \ {Current(c)}]
        /\ Goto(c, "next")
        /\ UNCHANGED << logged, sinceBoot >>
  /\ handled' = handled \cup {Current(c)}
  /\ outcome' = [outcome EXCEPT ![c] = "skip"]
  /\ UNCHANGED << serverVars, linkVars, rule, processing, lastUid, since, saved,
                  refused, crashes >>

\* Faulty variant: the cursor is the next uid expected, not the last one seen.
Save_UidNext(c) ==
  /\ pc[c] = "saving"
  /\ lastUid' = Current(c) + 1
  /\ saved' = Current(c) + 1
  /\ batch' = [batch EXCEPT ![c] = @ \ {Current(c)}]
  /\ Goto(c, "next")
  /\ UNCHANGED << serverVars, linkVars, rule, processing, since, outcome, logged,
                  historyVars, refused, crashes >>

\* The cursor advances in memory and, unless SQLite throws, in the database.
Save(c) ==
  /\ pc[c] = "saving"
  /\ IF Current(c) > lastUid
       THEN /\ lastUid' = Current(c)
            /\ saved' \in IF CursorEnabled THEN {saved, Current(c)} ELSE {saved}
       ELSE UNCHANGED << lastUid, saved >>
  /\ batch' = [batch EXCEPT ![c] = @ \ {Current(c)}]
  /\ Goto(c, "next")
  /\ UNCHANGED << serverVars, linkVars, rule, processing, since, outcome, logged,
                  historyVars, refused, crashes >>

-----------------------------------------------------------------------------
(* Failures.                                                               *)

\* The connection is lost, or a timeout tears it down: what is in flight is
\* rejected, a MOVE perhaps after the server has executed it.
LinkDown ==
  /\ AtRest /\ up
  /\ up' = FALSE
  /\ exists' = FALSE
  /\ \E done \in SUBSET {c \in Calls : pc[c] \in {"moving", "retrying"}
                                      /\ folder /\ Current(c) \in Inbox} :
       place' = [u \in Uids |-> IF \E c \in done : u = Current(c) THEN "filed" ELSE place[u]]
  /\ pc' = [c \in Calls |-> CASE pc[c] = "idle" -> "idle"
                               [] pc[c] = "fetching" -> "idle"
                               [] OTHER -> "logging"]
  /\ outcome' = [c \in Calls |->
                   IF pc[c] \in {"moving", "creating", "retrying"} THEN "cut" ELSE outcome[c]]
  /\ processing' = (processing /\ \E c \in Calls : pc[c] \notin {"idle", "fetching"})
  /\ since' = [c \in Calls |-> 0]
  /\ UNCHANGED << sentinels, folder, rule, lastUid, batch, dbVars, historyVars, refused,
                  crashes >>

\* The process is killed at any point and starts again with a new Monitor.
Crash ==
  /\ crashes < MaxCrashes
  /\ crashes' = crashes + 1
  /\ up' = FALSE
  /\ exists' = FALSE
  /\ processing' = FALSE
  /\ pc' = [c \in Calls |-> "idle"]
  /\ since' = [c \in Calls |-> 0]
  /\ batch' = [c \in Calls |-> {}]
  /\ outcome' = [c \in Calls |-> "skip"]
  /\ lastUid' = IF CursorEnabled THEN saved ELSE 0
  /\ sinceBoot' = {}
  /\ UNCHANGED << serverVars, rule, dbVars, handled, refused >>

-----------------------------------------------------------------------------
Step(c) ==
  \/ FetchAnswered(c) \/ FetchRefused(c) \/ Finish(c) \/ TakeNext(c)
  \/ MoveAnswered(c) \/ CreateAnswered(c) \/ Log(c) \/ Save(c)

Next ==
  \/ \E u \in Uids : Arrive(u) \/ TakenAway(u)
  \/ UpdateRules
  \/ NewMail
  \/ \E c \in Calls : Step(c)
  \/ LinkUp
  \/ LinkDown
  \/ Crash

Spec == Init /\ [][Next]_vars

\* The server answers what it is asked (again and again, should the connection
\* break before it can), events are delivered, and the client reconnects
\* (property Reconnects of ImapClient).
Fairness ==
  /\ WF_vars(NewMail)
  /\ WF_vars(LinkUp)
  /\ \A c \in Calls : WF_vars(Step(c)) /\ SF_vars(FetchAnswered(c) \/ FetchRefused(c))

FairSpec == Spec /\ Fairness

-----------------------------------------------------------------------------
(* Properties.                                                             *)

\* The cursor never passes over a message that was not dealt with: for all
\* that is in INBOX at or below it processMessage() has returned or thrown,
\* whatever crashes, lost connections and SQLite errors there were.
NothingPassedOver ==
  \A u \in Inbox : u <= saved => u \in handled

\* Between two starts of the process a message is acted on and logged at most
\* once, however many events call processNewMessages().
OncePerBoot ==
  [][\A c \in Calls :
       pc[c] = "logging" /\ pc'[c] = "saving" => Current(c) \notin sinceBoot]_vars

\* A success in the log is true: the message has left INBOX.
SuccessIsTrue == \A u \in Uids : "moved" \in logged[u] => u \notin Inbox

\* The pipeline with its crashes, retries and lost answers keeps the promises
\* of Arrival: it files a message once, claims only moves that have happened,
\* and saves no cursor past a message in INBOX it has not dealt with.
Promise == INSTANCE Arrival WITH
  dealt <- handled,
  claimed <- {u \in Uids : "moved" \in logged[u]},
  cursor <- saved

KeepsPromise == Promise!Spec

\* A fetch, once begun, gets every message that is in INBOX then through the
\* pipeline, over any number of reconnects, unless the server refuses it.
FetchGetsAll ==
  \A u \in Uids :
    (u \in Inbox /\ \E c \in Calls : pc[c] = "fetching")
      ~> (u \notin Inbox \/ u \in handled \/ refused)

=============================================================================
