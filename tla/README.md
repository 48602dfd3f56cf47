# mail-mgr in TLA+

mail-mgr is a Node.js service that keeps one IMAP mailbox in order: it files
arriving mail by rules, ages out a review folder, turns messages dragged into
"action folders" into rules, learns rules from the moves the user makes, and
applies rules to whole folders in batches. It is one process, one event loop,
one shared IMAP connection, one SQLite database and one YAML file. Everything
that is hard about it comes from what happens between two `await`s.

These modules model that behaviour from the code in `src/src/`, TLC checks them
on small instances, and TLAPS proves the most important results for every value
of the constants.

## The system

| Component | State | Operations | Talks to |
| --- | --- | --- | --- |
| `ImapClient` (`imap/client.ts`) | the imapflow object, connection state, back-off, reconnect, idle and poll timers | `connect`, `disconnect`, one method per IMAP operation, all through `guardedOp` and `withMailboxLock` / `withMailboxSwitch` | the server; emits `newMail`, `connected`, `disconnected`, `error` |
| `Monitor` (`monitor/index.ts`) | rules, `lastUid`, `processing` | `processNewMessages`, `updateRules`, `start`, `stop` | client events in; moves and log rows out |
| `ActionExecutor` (`actions/index.ts`) | none | `executeAction`: move, create the folder and retry | client |
| `ActivityLog` (`log/index.ts`) | SQLite tables `activity` and `state` | `logActivity`, `getState`/`setState`, `isSystemMove`, `prune` | everyone |
| `ConfigRepository` (`config/`) | the configuration, rules in order; YAML file | rule CRUD, reorder, section updates, change listeners | web routes and action folders in; the composition root out |
| Rules (`rules/`) | none | `evaluateRules`, matching, `findSenderRule`, proposal conflicts | everyone |
| Action folders (`action-folders/`) | `processing` flag, timer | `scanAll`, `processMessage` per folder | client, `ConfigRepository`, log |
| `MoveTracker`, `DestinationResolver` (`tracking/`) | folder snapshots, pending confirmations, pending deep scans | `runScan`, `triggerDeepScan`, `resolveFast` | client, log, signals |
| `SignalStore`, `PatternDetector`, `ProposalStore` (`tracking/`) | SQLite tables of signals and proposals | `logSignal`, `upsertProposal`, approve, dismiss | MoveTracker in, web routes out |
| `ReviewSweeper` (`sweep/`) | timers, `running` | `runSweep` | client, log |
| `BatchEngine` (`batch/`) | run state, cancel flag | `dryRun`, `execute`, `cancel` | client, log, web routes |
| Sentinels (`sentinel/`) | SQLite map of folder to message-id, scan timer | plant, reconcile, scan, heal a renamed folder | client, `ConfigRepository` |
| Composition root (`index.ts`) | which instance of each service is current | start-up, reaction to each kind of configuration change | everyone |
| Web server (`web/`) | none of its own | REST routes | everyone |

What is hard, and what correctness means, component by component:

* **ImapClient.** Events of an abandoned connection arrive late; a half-open
  socket gives no event at all; several failures arm several timers. *A client
  in use is never left with nothing that will reconnect it; a dead connection is
  found out; nothing revives it after `disconnect()`; work runs on the mailbox
  it was meant for; INBOX and the keepalive come back after each operation (they do not
  when the SELECT of the lock is refused, against INV-001: see below).*
* **Monitor.** Mail arrives while a batch is processed, the connection or the
  process dies between a move, its log row and the cursor. *The cursor passes
  over no message; a message is acted on once; a logged success is true; mail is
  eventually fetched.*
* **Action folders.** One message changes two rules and is then moved, with a
  crash possible between any two writes, while the web UI edits the same rules.
  *A message leaves the folder only with its effect in place; no sender ends up
  with two opposite rules; reprocessing is harmless.*
* **MoveTracker.** It infers user moves from two snapshots while the system
  itself moves mail. *A system move is never taken for a user's; a user's move
  gives one signal.*
* **Proposals.** Signals, approval, dismissal and resurfacing, with the
  precedence among rules. *No rule is made twice; an approval takes no message
  from another rule but by an insertion; a dismissed proposal comes back in time.*
* **Sweep, batch.** Long loops over a snapshot, with rules and settings changing
  under them and a cancel at any time. *Counts add up, nothing is moved after a
  cancel was seen, one run at a time.*
* **Sentinels.** Planting, scanning and healing race edits of the configuration,
  folder renames, lost answers and restarts, and each works on a copy of the table.
  *Every folder in use has its sentinel; one that nobody touched, and about which no
  command failed, is left alone; one
  that was moved or deleted is found or planted again.*
* **Composition root.** Handlers of configuration changes overlap. *One instance
  of each service runs, with the current settings.*

## Plan

In order of importance; each module is written so that it can be proved about
(constants with named assumptions, one action per operation, invariants as
conjunctions, no `RECURSIVE`).

1. `ImapClient` - done. `MailboxLock` - done.
2. `Monitor` (with ActionExecutor and ActivityLog) - done.
3. `ActionFolders` (with ConfigRepository's rules) - done.
4. `MoveTracking` (MoveTracker, DestinationResolver, `isSystemMove`) - done.
   `Proposals` (SignalStore, ProposalStore, the approval routes) - done.
5. `Filing` (ReviewSweeper and BatchEngine, over the rules as a verdict that
   changes under them) - done.
6. `Sentinel` (store, reconciliation, scanner and healer over folders that are
   renamed) - done.
7. `Arrival`, the specification of what users are promised of arriving mail, which
   `Monitor` is shown to implement - done.
8. `AppLifecycle`: a change of the IMAP settings, which stops every service and
   builds it anew while handlers of other changes are under way. The changes of the
   review, action folder and rule settings are in the modules of what they restart.
9. `RuleEval`: the pure functions of `rules/` against a reference definition.

Worth proving next: every safety property of the runs is a theorem. What is left are
specifications worth implementing: one for `MailboxLock` (a lock that gives each holder
its mailbox) up to the restores that break it, and one for `Sentinel`.

## Modules

Each module `M` has one configuration per run, `M_<run>.cfg`, with `MCM` where TLC
needs symmetry sets or small sets of inputs, and `M_proofs` with its theorems.
Operators called "faulty variant" are slips a programmer could make; no run uses
them, they are there to show that the properties notice.

**`ImapClient`** is one `ImapClient` object over several imapflow connections
(`Flows`), because a connection that was given up goes on emitting events. Each
action is what runs from one `await`, event or timer to the next: `Connect`,
`HandshakeDone`, `Connected`, `FlowClose`, `IdleFires`, `OpTimesOut` and so on;
`TearDown` is `handleClose()` and `cleanupFlow()`. `link` is the state of a
connection as the server and the network know it, `bound` the connections whose
listeners are attached, `attempt` the `connect()` calls still awaiting something.

**`MailboxLock`** is the same client seen from its callers: the lock queue of
imapflow, the commands on the wire, which mailbox is selected. A caller asks
(`Request`), gets its SELECT answered (`SelectDone`) or refused, works
(`WorkDone`), and `withMailboxSwitch` restores INBOX (`RestoreDone`).

**`Monitor`** is `processNewMessages()` as concurrent calls (`Calls`): each fetches
(`FetchAnswered`), takes its messages in order (`TakeNext`), waits for the MOVE
(`MoveAnswered`, with `CreateAnswered` for a missing folder), logs (`Log`) and
saves the cursor (`Save`). `executeAction()` and the two SQLite tables are part
of it; `Crash` keeps SQLite and the mailbox only.

**`ActionFolders`** is `scanAll()` of several pollers, since settings are changed
while scans run. Of the rules it keeps what `findSenderRule()` looks for: the
number of enabled sender-only rules of each sender and kind, in memory (`rules`)
and in the file (`disk`). `TakeCreate`, `Add` and `TakeRemove` are the synchronous
part of `processMessage()`, with the two writes as two steps so that `Crash` can
come between; `Moves` and `MoveAnswered` are the two ends of `moveMessage()`.
`PutConfig`, `Rebuilt`, `FirstScan` and `FirstStart` are the composition root's:
`FirstStart` calls `start()` on what the shared variable holds when the pre-scan of
`main()` ends. A change of the settings meanwhile leaves it undefined, which ends the
process (`StartFails`; it is started again), or holding the new poller, which is then
armed twice, one interval of it beyond the reach of `stop()`.

**`MoveTracking`** is one `MoveTracker` with its `DestinationResolver`: a scan
(`ScanBegins`, `Fetched`, `Confirms`, `Resolved` or `Unresolved`, `Compares`) goes from one
`await` to the next while the user and the other services move the same mail
(`UserMoves`, `SystemMoves`, `SystemLogs`), and several deep scans (`DeepBegins`,
`DeepSearched`, `DeepEnds`) share the two maps. What a deep scan found stays with it
until it ends. `taken` is history: who moved a message, and whether the log says so.

**`Proposals`** is the proposals of one sender, one per recipient and source folder,
and the rules they are approved into. `Signal` is `logSignal()` with
`upsertProposal()`; `ApproveAppends` and `ApproveInserts` are the checks of the approve
route with `reorderRules()`, `Adds` is `addRule()` and `Marks` is `approveProposal()`:
three steps only because `Crash` may come between. Rules other than the sender's
matter by their order, and a rule with a subject or another narrow field stands
for them. `Web...` are the routes of `web/routes/rules.ts`.

**`Filing`** is sweepers and batch engines as `Instances`, since one that is replaced
goes on with its run. A run fetches (`FetchAnswered`), takes a message (`Take`),
waits for its MOVE (`Moved`), settles it in counters and log (`Settle`) and yields
between chunks; a preview only decides. `rules` is the verdict of the rules for a
message, `good` and `bad` are the rows of the log, `done` what was really moved.
`PutReview`, `PutReviewListed` and `Rebuilt` are the composition root when the review
settings change, before and after it awaits the list of folders (with the list at hand
it does not wait), and `MainSweeper` is `main()` coming to the sweeper it makes at
start-up. Changes may overlap; `armed` are the sweepers whose timers run, also those
that have been replaced and that nothing stops any more. `unlogged` are the runs that
met a failed write of the log.

**`Sentinel`** is the sentinels table (`row`), the messages (`place`) and the folders the
configuration names (`ref`, `on`). Calls of `reconcileSentinels()` (`Calls`) read the
table and then plant (`Planted`) and remove (`Searched`, `Deleted`); `runScan()` goes
from a fast search (`FastAnswered`) to the LIST and the deep scan (`ListAnswered`,
`DeepAnswered`); each report goes to a call of `handleScanReport()` (`Healers`), with
`Rename`, `NotFound`, `Replanted` and `Notified`. The listeners of the configuration are
`EditRule`, `EditSettings` and `Listener`. A SEARCH that the server fails
finds nothing (`NotSeen`), and a DELETE it refuses counts as done, as in the code. History:
`loose` are the folders that a failed APPEND, a loss, an unsaved change or an overlap of
calls may have left without a row, `misnamed` the paths the healer has made up, `touched`
the messages that others moved or about which a command failed.

**`Arrival`** has no calls, fetches, retries or crashes: mail arrives, leaves INBOX, is
reported and is passed by the cursor. `Monitor` instantiates it as `Promise`, with what
it has handled for `dealt`, the rows that say moved for `claimed` and the cursor in
SQLite for `cursor`; `KeepsPromise` says that it implements it.

In every module a step of JavaScript is atomic up to its next `await`, except
where a crash between two of its writes matters; `AtRest` (or `Quiet`) says that
answers, timers and requests are only seen when nothing runs.

## Runs and bounds

| Run | Shows |
| --- | --- |
| `ImapClient_all` (`TypeOK`; `NeverStranded`; `FlowsAreHeard`; `DisconnectIsFinal`; `Reconnects`) | Over every interleaving of events, timers, timeouts and operations on two connections, a client in use always has something that will reconnect it, hears every connection it keeps, stays down after disconnect(), and gets a connection that works from every failure, and with IDLE from a half-open connection too. |
| `ImapClient_handshake` (`HandshakeSelfHeals`; violated) | connect() emits 'error' before it schedules a reconnect: with no listener on the event the emit throws and no reconnect is scheduled. |
| `MailboxLock_missing` (`OneAtWork`; `InboxWorkOnInbox`; `OperationsEnd`; `ReturnsToInbox`) | The lock is held by exactly the caller at work under it, work on INBOX runs with INBOX selected, every operation ends, and when all have ended the connection listens on INBOX again, unless a SELECT was refused since INBOX was last restored. |
| `MailboxLock_race` (`WorkOnItsMailbox`; violated) | The INBOX restore is sent after the lock is released, so it lands under the next holder's work. |
| `Monitor_all` (`TypeOK`; `NothingPassedOver`; `OncePerBoot`; `FetchGetsAll`; `KeepsPromise`) | Over a crash, lost connections and SQLite errors the pipeline implements Arrival, the promise its users have: a message is filed once, a logged success is true, the cursor passes over nothing; a message is acted on and logged at most once between two starts, and a fetch gets every message then in INBOX through the pipeline. |
| `ActionFolders_overlap` (`OneRulePerSender`; `NothingMovedUnread`; `SuccessIsTrue`) | Two pollers overlap after a change of the settings: no sender gets two rules, no message is moved before its effect, and what is logged as moved has been. |
| `ActionFolders_live` (`TypeOK`; `LastActionHolds`; `FoldersEmptied`) | With vip and undoVip, two pollers that overlap, edits in the web UI, a change of the settings, a failure and a crash, the last message processed has its effect on the rules, and a folder with its sentinel is emptied, unless the feature is off or its folders could not be ensured, though the settings change while main() is scanning and its start() then throws or arms the new poller twice. |
| `MoveTracking_all` (`TypeOK`; `SignalsAreUsers`; `OneSignalPerMove`; `OtherMovesSignalled`) | With a deep scan beside the scans, and a restart, a lost connection, an aged log row or a change of UIDVALIDITY, no logged move of the system becomes a signal, and a move of the user becomes one at most; it does become one if the message has no recent row, the numbering of the folder stands and it is not moved again during a deep scan. |
| `Proposals_safety` (`TypeOK`; `NoTwins`; `KeepsMessages`; `Resurfaces`; `DominantIsRight`) | Two proposals of a sender are signalled, dismissed, approved and approved again, with a crash in the middle of an approval and edits of the rules between: no rule is made twice, no message goes to another rule than it did but by an insertion, a dismissed proposal comes back in time. |
| `Filing_safety` (`TypeOK`; `RowsAreTrue`; `CountersTellTheLog`; `PreviewIsKept`; `OnlyAged`; `CancelStops`) | Two sweeps, batches or previews over two messages in all three modes, with a change of the settings, the rules, a flag or a place, and a lost connection or a failed write of the log at any point: rows that say moved are true, the counters are those of the rows for every run that met no failed write of the log, a preview is kept, a cancel stops, and what leaves Review is old enough. |
| `Filing_live` (`OldAreSwept`) | An old message in the Review folder is filed in the end, over a lost connection and changes of the settings while sweeps run, also while the program still starts and no sweeper is armed. |
| `Sentinel_all` (`TypeOK`; `Guarded`; `LeftAlone`; `Heals`) | A rule, the review settings and an action folder over two folders, with two edits, moves of sentinels or renames, and a crash, a lost answer, a failed command or a failed write: every folder in use keeps its row, unless the APPEND for it failed, it was lost, a change was not saved, calls overlapped or the healer made its path up; a sentinel that nobody touches and about which no command fails is never reported, lost or replaced; and as long as all folders of rows exist every sentinel is brought back to its place. |

Bounds. In `ImapClient` two connections are the current one and the one before it,
whose late events matter, and one operation meets any step of the client;
`MaxLeaked` is one keepalive timer that nobody refers to any more. The handshake run
has a third connection. In `MailboxLock` two operations overlap and a third waits.
In `Monitor` two messages tell "passed over" from "not reached", and two calls are
the one under way and the one that may be dropped. In `ActionFolders` two pollers are
what one change of the settings can leave running together: the overlap run has two
messages of a sender, the live one a message, a crash and a failure.
Back-off runs over two or three values of its scale: the cap is what matters.
A violation needs no more than the bound that shows it.

`MoveTracking` follows one message through two changes of folder: messages meet only
in the connection, UIDVALIDITY and the folders of the log, and the proofs hold for
any number. One bound, `MaxMishaps`, is shared by lost connections, restarts, old rows
and changes of UIDVALIDITY. In `Proposals` two signals bring a proposal back instead
of five, three of them are one more than that, two edits put two rules before an
approval, and a third number is left for the new rule. `NothingMovedUnread` and
`FoldersEmptied` are checked with folder names that stay and with the sentinels
planted; the code keeps neither without.

`Filing_safety` has one sweeper and one engine over two messages, with runs of both
kinds and chunks of one, so that every run yields; `Filing_live` follows one message
with ages 0 and 1, where read mail is filed earlier than unread mail or later, two
sweepers and two changes of the settings, the first of them perhaps before `main()`
has made its sweeper.
`Sentinel_all` starts with a rule, the review settings and an action folder on one folder
and another that nothing names yet, and has three sentinels (one to plant, two for edits,
overlaps and to plant again), two acts of users and one fault; one reconciliation of the listeners beside that of `main()` and one
healer, since two healers are beyond TLC: the proofs have any number. One change of
each kind of settings waits for the server at a time.
`Monitor_all` has one crash. In `ActionFolders`, saves that fail (`DiskFails`) are beyond
TLC: only the proof of `OneRulePerSender` has them. Edits that give a sender two rules
(`WebDuplicates`) are excluded everywhere: there both properties of the rules fail.

## Fairness

* `ImapClient`: timers fire; imapflow emits `close` after `error`, and a promise
  settles, if only by `withTimeout()`. The handshake has strong fairness: each
  attempt may time out, but a server that is dialled again and again answers.
* `MailboxLock`: the server answers every command it is sent.
* `Monitor`: events are delivered, a call goes on, and the client reconnects,
  which is `Reconnects` of `ImapClient`. A fetch has strong fairness because the
  connection may break before each answer.
* `ActionFolders`: strong fairness of ticks, answers and handlers, because the
  turns of other pollers come between; weak fairness of what runs without an
  `await` and of the server. Failures are not fair: a bounded number happens.
* `MoveTracking`: a lost connection comes back and a move is answered and logged;
  strong fairness of scans and deep scans, which are timers that find the
  connection up again and again. Mishaps are bounded, and not fair.
* `Filing`: what runs without an `await` goes on, a connection that is lost comes back,
  and timers, fetches and moves, which may find it lost again, have strong fairness.
* `Sentinel`: the timer of the scanner goes off again and again, and the server answers
  what the scanner, the healer and the reconciliation of `main()` ask: weak fairness.

## What is proved

TLAPS checks these for any number of connections, callers, messages, pollers and
crashes; the only assumptions are the named `ASSUME`s on the constants, which TLC
evaluates in every run.

* `ImapClient`: `TypeOK` is inductive by itself. `FlowsAreHeard`, `NeverStranded` and
  `DisconnectIsFinal` are inductive together with `LifeInv`, which ties a client's
  life to `autoReconnect` and to its having no connection before its first
  `connect()`: without it a new client would look stranded.
* `MailboxLock`: `InboxWorkOnInbox`, by the invariant that every command on the wire
  belongs to a caller in the matching phase (`WireInv`, `QueueInv`), that only the
  holder has a command other than a restore (`HolderAlone`), and that work asked of
  INBOX on the wire finds INBOX selected (`InboxSelected`): a restore selects INBOX,
  so the race of restores, real for other mailboxes, cannot hurt it. `ReturnsToInbox`
  by `RestoreOwed`: while another mailbox is selected, or the keepalive is stopped, some
  caller restores both or has yet to, or a SELECT has been refused since.
  `OneAtWork` by the invariants of the queue.
* `Monitor`: `NothingPassedOver`, `SuccessIsTrue`, `OncePerBoot`. The heart is
  `BatchInv`, that a batch has no gap: nothing unhandled in INBOX lies below one of
  its messages. `CursorInv` relates the two cursors, `CallInv` says one call at most
  is under way, `BootInv` that what was logged is behind the cursor or about to be.
* `ActionFolders`: `TypeOK` with `ScanInv`; `OneRulePerSender` and `LastActionHolds` with
  `AddingInv` (when a rule is about to be added none of the opposite kind is left)
  and `OneRunning`, assuming that the web UI gives no sender a second rule
  (`~WebDuplicates`) and, for `LastActionHolds`, that saving does not fail
  (`~DiskFails`). The constants are there because the code does not grant either.
  `NothingMovedUnread` and `SuccessIsTrue` by `MoveInv`: a uid is never given twice in a
  folder (`UidInv`), a batch holds what had these uids in the folder it was fetched
  from, and the message about to be moved has had its effect (`Mine`), what left the
  folders was moved that way, and its row names it (`LoggedInv`). Both are false
  when the settings change the name of a folder that is being scanned, so the
  theorems say `[]NamesStay`, which only forbids that; `MovesAreRight` has no such
  condition where there is one name for each folder, as in the runs.
* `MoveTracking`: `TypeOK`; `OneSignalPerMove` by following an entry through the places
  where it may be (a snapshot, `pending`, `resolving`, a deep scan's map, or signalled):
  `WayInv` says the places exclude one another and that an entry once gone does not
  come back, since a uid is never used again. `SignalsAreUsers` by `TakenInv`: what is
  on that way has been taken by the user or by a move with no row.
* `Proposals`: `NoTwins` by `RouteInv` (an approval under way met no rule with its
  criteria, and nothing else runs before it ends), assuming that the web UI is not
  used to make twins (`ByHand`); `Resurfaces` by `CounterInv` (a dismissed proposal's
  counter is the number of signals since); `DominantIsRight`; and `KeepsMessages`,
  because making room keeps the order of any two rules (`ShiftedKeeps`).
* `Filing`, for any number of sweepers and engines and any size of a chunk. `TypeOK` with
  `ChunkInv` (how far an engine is in its chunk) and `CurInv` (a message is in hand when
  one is moved or settled). `RowsAreTrue` and `CountersTellTheLog` by `HandInv`: what is
  left of a run, the message in hand and those handled exclude one another, and the
  result in hand is what happened to the message; `Lawful` says what the branches
  of the three modes have in common. `CancelStops` by `CancelInv` (only a running batch is to
  stop, and it has its flag). `OnlyAged` by `CfgInv` (the current instances have the
  current settings, unless there is no sweeper) and `AgeInv` (what is on its way was
  old enough by the flags of the fetch, and these are still true unless the user has
  changed them). `PreviewIsKept` by `KeepInv`: the promise of a preview is carried on from
  the folder as it is to what is left of the run and then to what it has done, with
  `StatusInv`, which ties the status the web UI sees to where the run is.
* `Monitor` implements `Arrival` (`PromiseKept`): each step of `Monitor` is a step of
  `Arrival` or changes nothing of what it sees, from the invariants above.
* `Sentinel`: `TypeOK`; `LeftAlone` by `AloneInv`: what a scan, a healer or a
  reconciliation has read of a sentinel stays true of it, or its row has gone, unless
  somebody touched it or a command about it failed. `Guarded` by `GuardInv`: every folder in use has a row, is about
  to get one or is excused, by `loose` or `misnamed` (`AllCovered`), and what is to be removed is nobody's
  folder (`DropsFine`). An overlap of calls is what would break the latter.

Only model-checked: all liveness, `Reconnects`, `OperationsEnd`, `FetchGetsAll`,
`FoldersEmptied`, `OtherMovesSignalled`, `OldAreSwept` and `Heals` (fairness and `ENABLED`
are out of the prover's reach), and the runs that find a violation.

## What the runs found

A run that ends in a violation states a sentence of a document of the repository,
quoted in `PROJECT.json`, that the code does not keep:

* `ImapClient_handshake`: connect() emits 'error' before scheduleReconnect(); the client built by onImapConfigChange is connected at src/src/index.ts:187 with no 'error' listener, and the one of main() loses its listener in monitor.stop() (src/src/index.ts:333), so the emit throws out of the catch block and no reconnect is scheduled.
* `MailboxLock_race`: withMailboxSwitch releases the lock and only then sends SELECT INBOX, while imapflow grants the lock to the next waiter: the restore changes the mailbox under that holder's work.

What the models show beyond that, and the properties are stated around:

* `MailboxLock`: `withMailboxSwitch()` stops the keepalive (`client.ts:294`) and awaits
  the lock (`:299`) before its `try` (`:304`). When the SELECT of the lock is refused, for a
  missing folder say, the exception skips the `finally`: no mailbox is selected, and
  neither IDLE nor the poll is armed until a later switch succeeds or the client
  reconnects (an operation on INBOX selects INBOX and arms nothing). INV-001
  (`specs/invariants/inv-001-imap-idle-returns-to-inbox.md:12-19`) and FM-001 require INBOX
  and IDLE after any outcome, errors included. `ReturnsToInbox` has the exception, `~refused`;
  `InboxAfterAnyOutcome` is the invariant as the repository states it.
* `Filing`: a cancel does not let the chunk in flight complete, as the comment of
  `cancel()` (`batch/index.ts:330`), IX-010 (step 5 and postconditions), UC-004 and MOD-0019
  say: `execute()` looks at `cancelRequested` before every message (`:197`) and stops there.
  `CancelStops` is what the code does, `ChunkCompletes` what the documents say.
* `Filing`: `main()` makes its sweeper (`index.ts:401`) without a look at the one a change
  of the review settings has made during start-up, and two changes that overlap at the
  await of `index.ts:99` each make one. Nothing can stop the one that is replaced; it sweeps
  on by the settings it was made with, though UC-003 says a change is in effect for the
  next sweep (`SweepsByTheSettings`). `OnlyAged` speaks of the current instances.
* `Proposals`: the approve route reads the order of the shadowing rule after
  `reorderRules()` has changed it (`proposed-rules.ts:112`; `getRules()` returns the
  rules themselves), so the new rule gets the same order, stands behind it in the
  array and never applies. `KeepsMessages` says only where a message may go.
* `Filing`: a write of the log that fails after a MOVE is counted as a failed MOVE, so
  counters and rows are compared only for runs that met no failed write; a lost
  connection excuses nothing there.
* `ActionFolders`: `processMessage()` reads the name of the source folder again for the
  move (`processor.ts:184`). With a change of names during a scan a message nobody
  read can be moved, so `NothingMovedUnread` is checked for names that stay; and a
  folder without a sentinel is never emptied of a last message (`poller.ts:52`).
* `Sentinel`: a row whose folder is missing makes the first search of a scan throw,
  which ends the scan (`scanner.ts:126`), every time. So a folder that was renamed or
  deleted is not healed, nor is any other row while it is missing, although
  `sentinel/format.ts:64` tells the user that renames are detected; `Heals` is stated
  for rows whose folders exist. `handleFolderLoss()` is reached only when the folder
  goes between that search and the LIST. What is healed as a rename is a sentinel
  message that was moved. If the review folder is the missing one, the self-test of
  the next start fails and sentinels are switched off.
* `Sentinel`: two reconciliations at once, or one and the healer, may leave a folder
  in use without a row until the next reconciliation that runs alone: what `loose`
  in `Guarded` excuses. What `misnamed` excuses is the path the healer makes up:
  `handleRename()` stores the whole path as the name of an action folder found outside
  the prefix (`healer.ts:96`), and everything reads prefix/name, a folder that does not
  exist and has no row until the next reconciliation, while the row and the rules got the
  new path. HEAL-01 (`.planning/milestones/v0.7-REQUIREMENTS.md:38`) says that all
  references are updated to it (`RenamesAreFollowed`).
* `Sentinel`: a command that fails without an exception is taken for one that worked:
  `searchByHeader()` reports no match (`client.ts:413`), so that a sentinel in its place
  is given up or planted twice, and `deleteSentinel()` drops the row of a message that
  stayed (`imap-ops.ts:57`). `LeftAlone` speaks of the sentinels this did not happen to;
  that of the others no row goes too early, as `lifecycle.ts:101` has it, is false
  (`OnlyTheMissing`).

The statements named here that the code does not keep (`InboxAfterAnyOutcome`,
`ChunkCompletes`, `SweepsByTheSettings`, `RenamesAreFollowed`, `OnlyTheMissing`) stand in
their modules beside the properties, so that they can be asked for in a configuration,
and TLC answers each with a trace: `ChunkCompletes` with `Chunk = 2` and two messages,
`SweepsByTheSettings` with `Starting = {TRUE}`, two sweepers and two changes, the others
with the configurations of their modules.

## Not modelled

Parsing and formatting of messages, headers and addresses (`imap/messages.ts`, the
text of a sentinel in `sentinel/format.ts`): data. The read-only routes, static files,
authentication and the browser code: no effect on mail or rules. SQLite migrations:
they run once, before anything else. Schema validation: an input that fails it changes
nothing. Log rows are kept only as far as a property or `isSystemMove()` reads them.

`MoveTracking` leaves out which folder a signal names, errors of SQLite, and the race of
the restores (`MailboxLock_race`), by which a fetch of Review may read INBOX; in `Sentinel`
a search that this race sends to another mailbox is a failed one. `Filing` leaves out
that a batch in generic mode takes a destination named `Skip` for a message to skip
(`batch/index.ts:267`). In
`Proposals` a rule's recipient is an address, not a pattern, and `readStatus: any` is
taken for a narrow field, as `checkProposalConflict()` takes it. That a rule approved
without a conflict is reached is not stated: recipients are compared for equality by
the conflict check and matched by the evaluator.

`Sentinel` leaves out the self-test's own message, references to INBOX, which is never
tracked, and the prefix of the action folders as a folder some rule names. A change
of the IMAP settings (`index.ts`, `onImapConfigChange`) is modelled for the client
only (`ImapClient`): the other services are stopped and built anew, and a run of
theirs that is under way goes on with a client that is closed.

`FolderCache` (`folders/`) is a tree kept for five minutes for the web UI; the web server
and its routes pass calls on, and those that change rules, proposals or batches are
actions of `Proposals`, `ActionFolders` and `Filing`.
