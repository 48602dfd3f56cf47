---------------------------- MODULE MoveTracking ----------------------------
(***************************************************************************)
(* MoveTracker and DestinationResolver (src/tracking/): how a message that *)
(* is missing from INBOX or Review becomes the signal of a user's move.    *)
(*                                                                         *)
(* The user and the system move the same mail over the same connection.    *)
(* What the system moves is in the activity log (isSystemMove()), unless   *)
(* the row is missing or old.  The snapshots, the log and the signals are  *)
(* in SQLite; what a scan has seen, the messages awaiting confirmation and *)
(* those awaiting a deep scan are in memory.                               *)
(*                                                                         *)
(* Message-IDs are unique.  A uid is the message's, and counts the folders *)
(* it has entered: a folder's uids are never used again.                   *)
(***************************************************************************)
EXTENDS Naturals

CONSTANTS
  Messages,
  DeepScans,   \* concurrent calls of runDeepScan(): the timer's, the web UI's
  NoEntry,     \* nothing is being resolved or moved
  MaxUid,      \* bound: folders a message enters
  MaxMishaps   \* bound: lost connections, restarts, rows of the log that grow
               \* old and changes of UIDVALIDITY, all together

ASSUME BoundAssumption == MaxUid \in Nat \ {0} /\ MaxMishaps \in Nat

\* An archive is one of COMMON_FOLDERS; "other" is any other folder.
Tracked == {"INBOX", "Review"}
Folders == Tracked \cup {"common", "other"}
Places == Folders \cup {"nowhere"}
Uids == 1 .. MaxUid

\* A message as it was in a tracked folder (TrackedMessage with sourceFolder).
Entries == [msg : Messages, uid : Uids, src : Tracked]
Entry(m, u, f) == [msg |-> m, uid |-> u, src |-> f]

\* A MOVE of the system.
Moves == [msg : Messages, uid : Uids, to : Folders]
Move(m, u, f) == [msg |-> m, uid |-> u, to |-> f]

ASSUME EntryAssumption == NoEntry \notin Entries \cup Moves

VARIABLES
  \* the server and the connection
  place,      \* where each message is
  uid,        \* its uid there
  validity,   \* UIDVALIDITY of the tracked folders
  up,         \* client.state is 'connected'
  moving,     \* a MOVE of the system whose answer is awaited
  \* the activity log
  recent,     \* messages with a successful row of the last day
  known,      \* folders of successful rows: getRecentFolders()
  \* the snapshots
  base,       \* the UIDVALIDITY each was taken under, or 0 if there is none
  snapshot,   \* what was in the folders
  \* the scan
  pc,         \* how far runScan() has come
  folder,     \* the folder it is at
  seen,       \* what it has fetched there
  prev,       \* the snapshot it compares with
  todo,       \* the pending entries it has yet to look at
  resolving,  \* the one resolveFast() is called for
  \* maps in memory
  pending,    \* pendingConfirmation
  deep,       \* pendingDeepScanMeta and pendingDeepScan
  visited,    \* the messages each deep scan has searched for
  found,      \* and those it has found
  deepOn,     \* the deep scans that run
  \* the signals
  signals,    \* how many there are of each entry
  \* history
  taken,      \* who moved each message and uid: a move of the system is
              \* "logged" if it has a successful row of the last day
  mishaps

serverVars == << place, uid, validity >>
linkVars == << up, moving >>
logVars == << recent, known >>
dbVars == << base, snapshot >>
scanVars == << pc, folder, seen, prev, todo, resolving, pending >>
deepVars == << deep, visited, found, deepOn >>
vars == << serverVars, linkVars, logVars, dbVars, scanVars, deepVars, signals,
           taken, mishaps >>

TypeOK ==
  /\ place \in [Messages -> Places]
  /\ uid \in [Messages -> Uids]
  /\ validity \in [Tracked -> Nat \ {0}]
  /\ up \in BOOLEAN
  /\ moving \in Moves \cup {NoEntry}
  /\ recent \subseteq Messages
  /\ known \subseteq Folders
  /\ base \in [Tracked -> Nat]
  /\ snapshot \in [Tracked -> SUBSET Entries]
  /\ \A f \in Tracked : \A e \in snapshot[f] : e.src = f
  /\ pc \in {"idle", "fetching", "confirming", "resolving"}
  /\ folder \in Tracked
  /\ seen \subseteq Entries /\ prev \subseteq Entries /\ todo \subseteq Entries
  /\ resolving \in Entries \cup {NoEntry}
  /\ pending \subseteq Entries
  /\ deep \subseteq Entries
  /\ visited \in [DeepScans -> SUBSET Messages]
  /\ found \in [DeepScans -> SUBSET Messages]
  /\ deepOn \subseteq DeepScans
  /\ signals \in [Entries -> Nat]
  /\ taken \in [Messages -> [Uids -> {"no", "user", "logged", "unlogged"}]]
  /\ mishaps \in 0 .. MaxMishaps

Init ==
  /\ place \in [Messages -> {"INBOX", "nowhere"}]
  /\ uid = [m \in Messages |-> 1]
  /\ validity = [f \in Tracked |-> 1]
  /\ up = TRUE /\ moving = NoEntry
  /\ recent = {} /\ known = {}
  /\ base = [f \in Tracked |-> 0]
  /\ snapshot = [f \in Tracked |-> {}]
  /\ pc = "idle" /\ folder = "INBOX"
  /\ seen = {} /\ prev = {} /\ todo = {} /\ resolving = NoEntry
  /\ pending = {} /\ deep = {} /\ deepOn = {}
  /\ visited = [d \in DeepScans |-> {}]
  /\ found = [d \in DeepScans |-> {}]
  /\ signals = [e \in Entries |-> 0]
  /\ taken = [m \in Messages |-> [u \in Uids |-> "no"]]
  /\ mishaps = 0

-----------------------------------------------------------------------------
\* What is in a tracked folder (fetchFolderState).
Content(f) == {e \in Entries : e.src = f /\ place[e.msg] = f /\ e.uid = uid[e.msg]}

Mishap == mishaps < MaxMishaps /\ mishaps' = mishaps + 1

Leaves(m, who) ==
  taken' = IF place[m] \in Tracked THEN [taken EXCEPT ![m][uid[m]] = who] ELSE taken

\* The message gets a uid in the folder it enters.
Enters(m, f) ==
  /\ uid[m] < MaxUid
  /\ place' = [place EXCEPT ![m] = f]
  /\ uid' = [uid EXCEPT ![m] = @ + 1]

-----------------------------------------------------------------------------
(* The mailbox and the connection.                                         *)

\* Mail arrives, or a message is brought back.
Arrive(m) ==
  /\ place[m] = "nowhere"
  /\ Enters(m, "INBOX")
  /\ UNCHANGED << validity, linkVars, logVars, dbVars, scanVars, deepVars, signals, taken,
                  mishaps >>

UserMoves(m, f) ==
  /\ place[m] \notin {f, "nowhere"}
  /\ Enters(m, f)
  /\ Leaves(m, "user")
  /\ UNCHANGED << validity, linkVars, logVars, dbVars, scanVars, deepVars, signals,
                  mishaps >>

UserDeletes(m) ==
  /\ place[m] # "nowhere"
  /\ place' = [place EXCEPT ![m] = "nowhere"]
  /\ Leaves(m, "user")
  /\ UNCHANGED << uid, validity, linkVars, logVars, dbVars, scanVars, deepVars, signals,
                  mishaps >>

\* The server numbers a folder's messages anew.
Renumber(f) ==
  /\ Mishap
  /\ \A m \in Messages : place[m] = f => uid[m] < MaxUid
  /\ validity' = [validity EXCEPT ![f] = @ + 1]
  /\ uid' = [m \in Messages |-> IF place[m] = f THEN uid[m] + 1 ELSE uid[m]]
  /\ UNCHANGED << place, linkVars, logVars, dbVars, scanVars, deepVars, signals, taken >>

\* Monitor, ReviewSweeper, BatchEngine or the action folders move a message:
\* the server executes the MOVE,
SystemMoves(m, f) ==
  /\ up /\ moving = NoEntry
  /\ place[m] \notin {f, "nowhere"}
  /\ Enters(m, f)
  /\ moving' = Move(m, uid[m], f)
  /\ Leaves(m, "unlogged")
  /\ UNCHANGED << validity, up, logVars, dbVars, scanVars, deepVars, signals, mishaps >>

\* and answers: the move is logged before anything else is sent.
SystemLogs ==
  /\ moving # NoEntry
  /\ recent' = recent \cup {moving.msg}
  /\ known' = known \cup {moving.to}
  /\ taken' = [taken EXCEPT ![moving.msg][moving.uid] = IF @ = "unlogged" THEN "logged" ELSE @]
  /\ moving' = NoEntry
  /\ UNCHANGED << serverVars, up, dbVars, scanVars, deepVars, signals, mishaps >>

\* A rule says to leave the message where it is, and that is logged.
SystemSkips(m) ==
  /\ place[m] = "INBOX"
  /\ recent' = recent \cup {m}
  /\ UNCHANGED << serverVars, linkVars, known, dbVars, scanVars, deepVars, signals, taken,
                  mishaps >>

\* The rows of a message are a day old now.
Age(m) ==
  /\ m \in recent /\ Mishap
  /\ recent' = recent \ {m}
  /\ taken' = [taken EXCEPT ![m] = [u \in Uids |-> IF @[u] = "logged" THEN "unlogged" ELSE @[u]]]
  /\ UNCHANGED << serverVars, linkVars, known, dbVars, scanVars, deepVars, signals >>

\* The connection is lost, or torn down by a timeout: the answer that is
\* awaited will not come, and the move is logged as failed.
LinkDown ==
  /\ up /\ Mishap
  /\ up' = FALSE /\ moving' = NoEntry
  /\ UNCHANGED << serverVars, logVars, dbVars, scanVars, deepVars, signals, taken >>

LinkUp ==
  /\ ~up /\ up' = TRUE
  /\ UNCHANGED << serverVars, moving, logVars, dbVars, scanVars, deepVars, signals, taken,
                  mishaps >>

-----------------------------------------------------------------------------
(* runScan()                                                               *)

\* The interval fires; a scan in progress or a lost connection makes it a no-op.
ScanBegins ==
  /\ up /\ pc = "idle"
  /\ pc' = "fetching" /\ folder' = "INBOX"
  /\ UNCHANGED << serverVars, linkVars, logVars, dbVars, seen, prev, todo, resolving, pending,
                  deepVars, signals, taken, mishaps >>

\* Faulty variant: the folders share one snapshot.
FolderDone_OneKey(content) ==
  /\ snapshot' = [f \in Tracked |-> content]
  /\ seen' = {} /\ prev' = {} /\ todo' = {} /\ resolving' = NoEntry
  /\ IF folder = "INBOX" THEN pc' = "fetching" /\ folder' = "Review"
                         ELSE pc' = "idle" /\ folder' = "INBOX"

\* The folder is done: its snapshot is saved, and Review follows INBOX.
FolderDone(content) ==
  /\ snapshot' = [snapshot EXCEPT ![folder] = content]
  /\ seen' = {} /\ prev' = {} /\ todo' = {} /\ resolving' = NoEntry
  /\ IF folder = "INBOX" THEN pc' = "fetching" /\ folder' = "Review"
                         ELSE pc' = "idle" /\ folder' = "INBOX"

\* fetchFolderState() is answered.  Without a snapshot, or after a change of
\* UIDVALIDITY, there is nothing to compare with.
Fetched ==
  /\ up /\ moving = NoEntry /\ pc = "fetching"
  /\ IF base[folder] # validity[folder]
       THEN /\ FolderDone(Content(folder))
            /\ base' = [base EXCEPT ![folder] = validity[folder]]
            /\ UNCHANGED pending
       ELSE /\ pc' = "confirming"
            /\ seen' = Content(folder)
            /\ prev' = snapshot[folder]
            /\ todo' = {e \in pending : e.src = folder}
            /\ UNCHANGED << dbVars, folder, resolving, pending >>
  /\ UNCHANGED << serverVars, linkVars, logVars, deepVars, signals, taken, mishaps >>

\* It fails, and the scan ends.
ScanFails ==
  /\ pc = "fetching" /\ ~up
  /\ pc' = "idle" /\ folder' = "INBOX"
  /\ UNCHANGED << serverVars, linkVars, logVars, dbVars, seen, prev, todo, resolving, pending,
                  deepVars, signals, taken, mishaps >>

\* A pending entry is looked at: the message is back, or its move is confirmed.
Confirms(e) ==
  /\ pc = "confirming" /\ e \in todo
  /\ todo' = todo \ {e}
  /\ pending' = pending \ {e}
  /\ IF e \in seen THEN UNCHANGED << pc, resolving >> ELSE pc' = "resolving" /\ resolving' = e
  /\ UNCHANGED << serverVars, linkVars, logVars, dbVars, folder, seen, prev, deepVars, signals,
                  taken, mishaps >>

\* The folders resolveFast() looks in.
Fast(src) == ({"common"} \cup known) \ {src, "INBOX"}

LogSignals(S) ==
  signals' = [e \in Entries |-> IF e \in S THEN signals[e] + 1 ELSE signals[e]]

\* resolveFast() finds the message.
Resolved ==
  /\ pc = "resolving" /\ up /\ moving = NoEntry
  /\ place[resolving.msg] \in Fast(resolving.src)
  /\ LogSignals({resolving})
  /\ pc' = "confirming" /\ resolving' = NoEntry
  /\ UNCHANGED << serverVars, linkVars, logVars, dbVars, folder, seen, prev, todo, pending,
                  deepVars, taken, mishaps >>

\* Faulty variant: what is not found is dropped.
Unresolved_Drops ==
  /\ pc = "resolving"
  /\ ~up \/ place[resolving.msg] \notin Fast(resolving.src)
  /\ pc' = "confirming" /\ resolving' = NoEntry
  /\ UNCHANGED << serverVars, linkVars, logVars, dbVars, folder, seen, prev, todo, pending,
                  deepVars, signals, taken, mishaps >>

\* It does not, or the searches fail: a deep scan may.
Unresolved ==
  /\ pc = "resolving"
  /\ ~up \/ place[resolving.msg] \notin Fast(resolving.src)
  /\ deep' = {e \in deep : e.msg # resolving.msg} \cup {resolving}
  /\ pc' = "confirming" /\ resolving' = NoEntry
  /\ UNCHANGED << serverVars, linkVars, logVars, dbVars, folder, seen, prev, todo, pending,
                  visited, found, deepOn, signals, taken, mishaps >>

\* Faulty variant: the log is not asked.
Compares_AllAsUsers ==
  /\ pc = "confirming" /\ todo = {}
  /\ pending' = pending \cup (prev \ seen)
  /\ FolderDone(seen)
  /\ UNCHANGED << base, serverVars, linkVars, logVars, deepVars, signals, taken, mishaps >>

\* What was in the snapshot and is missing is pending until the next scan,
\* unless the system moved it.
Compares ==
  /\ pc = "confirming" /\ todo = {}
  /\ pending' = pending \cup {e \in prev \ seen : e.msg \notin recent}
  /\ FolderDone(seen)
  /\ UNCHANGED << base, serverVars, linkVars, logVars, deepVars, signals, taken, mishaps >>

-----------------------------------------------------------------------------
(* runDeepScan() and triggerDeepScan()                                     *)

\* The folders searched.
Far(src) == {"Review", "other"} \ {src}

DeepBegins(d) ==
  /\ up /\ d \notin deepOn /\ deep # {}
  /\ deepOn' = deepOn \cup {d}
  /\ visited' = [visited EXCEPT ![d] = {}]
  /\ UNCHANGED << serverVars, linkVars, logVars, dbVars, scanVars, deep, found, signals, taken,
                  mishaps >>

\* One message is searched for, entries enqueued meanwhile included.  A search
\* that fails finds nothing.
DeepSearched(d, e) ==
  /\ d \in deepOn /\ e \in deep /\ e.msg \notin visited[d]
  /\ moving = NoEntry
  /\ visited' = [visited EXCEPT ![d] = @ \cup {e.msg}]
  /\ found' = IF up /\ place[e.msg] \in Far(e.src)
                THEN [found EXCEPT ![d] = @ \cup {e.msg}]
                ELSE found
  /\ UNCHANGED << serverVars, linkVars, logVars, dbVars, scanVars, deep, deepOn, signals, taken,
                  mishaps >>

\* Faulty variant: the entries that were found are kept.
DeepEnds_Keeps(d) ==
  /\ d \in deepOn
  /\ \A e \in deep : e.msg \in visited[d]
  /\ LogSignals({e \in deep : e.msg \in found[d]})
  /\ deepOn' = deepOn \ {d}
  /\ visited' = [x \in DeepScans |-> {}]
  /\ found' = [found EXCEPT ![d] = {}]
  /\ UNCHANGED << serverVars, linkVars, logVars, dbVars, scanVars, deep, taken,
                  mishaps >>

\* What was found is logged, and both maps are cleared; another deep scan goes
\* on with what is enqueued after that.
DeepEnds(d) ==
  /\ d \in deepOn
  /\ \A e \in deep : e.msg \in visited[d]
  /\ LogSignals({e \in deep : e.msg \in found[d]})
  /\ deep' = {}
  /\ deepOn' = deepOn \ {d}
  /\ visited' = [x \in DeepScans |-> {}]
  /\ found' = [found EXCEPT ![d] = {}]
  /\ UNCHANGED << serverVars, linkVars, logVars, dbVars, scanVars, taken,
                  mishaps >>

-----------------------------------------------------------------------------
\* The process restarts, or the tracker is replaced after a change of the IMAP
\* settings: what it had in memory is gone.
Crash ==
  /\ Mishap
  /\ moving' = NoEntry
  /\ pc' = "idle" /\ folder' = "INBOX"
  /\ seen' = {} /\ prev' = {} /\ todo' = {} /\ resolving' = NoEntry
  /\ pending' = {} /\ deep' = {} /\ deepOn' = {}
  /\ visited' = [d \in DeepScans |-> {}]
  /\ found' = [d \in DeepScans |-> {}]
  /\ UNCHANGED << serverVars, up, logVars, dbVars, signals, taken >>

-----------------------------------------------------------------------------
Scan ==
  \/ ScanBegins \/ Fetched \/ ScanFails \/ Resolved \/ Unresolved \/ Compares
  \/ \E e \in todo : Confirms(e)

DeepScan(d) ==
  \/ DeepBegins(d) \/ DeepEnds(d)
  \/ \E e \in deep : DeepSearched(d, e)

Next ==
  \/ \E m \in Messages :
       \/ Arrive(m) \/ UserDeletes(m) \/ SystemSkips(m) \/ Age(m)
       \/ \E f \in Folders : UserMoves(m, f) \/ SystemMoves(m, f)
  \/ \E f \in Tracked : Renumber(f)
  \/ SystemLogs
  \/ LinkDown \/ LinkUp
  \/ Scan
  \/ \E d \in DeepScans : DeepScan(d)
  \/ Crash

Spec == Init /\ [][Next]_vars

\* The timers fire, calls end, moves are answered, and the client reconnects
\* (property Reconnects of ImapClient).
Fairness ==
  /\ WF_vars(LinkUp)
  /\ WF_vars(SystemLogs)
  /\ SF_vars(Scan)
  /\ \A d \in DeepScans : SF_vars(DeepScan(d))

FairSpec == Spec /\ Fairness

-----------------------------------------------------------------------------
(* Properties.                                                             *)

\* IX-003: what the system moved gives no signal, as long as the move has a
\* successful row of the last day when the scan asks (isSystemMove()).
SignalsAreUsers ==
  \A e \in Entries : signals[e] > 0 => taken[e.msg][e.uid] \in {"user", "unlogged"}

\* One move gives one signal, whatever restarts, failures and deep scans there
\* are between its steps: a second would count double in the proposals.
OneSignalPerMove ==
  \A e \in Entries : signals[e] <= 1

\* The user moved a message out of a folder whose snapshot has it, to one that
\* is searched, and has not touched it since.
MovedAway(e) == uid[e.msg] = e.uid + 1 /\ place[e.msg] \in {"common", "other"}

UserMoved(e) ==
  taken[e.msg][e.uid] = "user" /\ MovedAway(e) /\ e \in snapshot[e.src]

\* A deep scan that has been at the message looks for an earlier move of it: a
\* second entry replaces the first in the map, and is not looked for.
Replaces(e) ==
  \E d \in deepOn : e.msg \in visited[d] /\ \E x \in deep : x.msg = e.msg /\ x.uid # e.uid

\* IX-003: a user's move from a tracked folder gives a signal, except for
\* messages with a row of the last day, for a change of UIDVALIDITY, and for a
\* message that is moved again during a deep scan.
OtherMovesSignalled ==
  \A e \in Entries :
    (UserMoved(e) /\ mishaps = MaxMishaps)
      ~> \/ signals[e] > 0 \/ ~MovedAway(e)
         \/ e.msg \in recent \/ base[e.src] # validity[e.src] \/ Replaces(e)
=============================================================================
