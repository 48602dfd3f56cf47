----------------------------- MODULE ImapClient -----------------------------
(***************************************************************************)
(* The connection life cycle of ImapClient (src/imap/client.ts): one       *)
(* shared IMAP connection, its reconnect timer with exponential backoff,   *)
(* its IDLE keepalive, and the public operations that go through           *)
(* guardedOp.  Node runs one callback at a time, so an action is the code  *)
(* between two awaits.                                                     *)
(*                                                                         *)
(* A flow is one imapflow connection object.  The client keeps only the    *)
(* current one in `flow', but listeners, awaited promises and timers of    *)
(* earlier flows can outlive it; flow names are reused once nothing        *)
(* refers to them.  What imapflow itself does is external: it is modelled  *)
(* by what the client relies on (see Usable, Quiet and the Flow actions).  *)
(*                                                                         *)
(* poll() (client.ts:685-696) is absent: whatever its NOOP does, it        *)
(* changes nothing here.  Which mailbox is selected is in MailboxLock.     *)
(***************************************************************************)
EXTENDS Integers, FiniteSets

CONSTANTS
  Flows,        \* names for imapflow connection objects
  NoFlow,       \* this.flow = null
  Ops,          \* concurrent callers of the public operations
  MinBackoff,   \* MIN_BACKOFF_MS
  MaxBackoff,   \* MAX_BACKOFF_MS
  MaxNoops,     \* bound: NOOPs of cycleIdle in flight at once on one flow
  MaxLeaked     \* bound: armed IDLE timers that this.idleTimer has lost

ASSUME FlowAssumption == NoFlow \notin Flows
ASSUME BackoffAssumption ==
  /\ MinBackoff \in Nat \ {0}
  /\ MaxBackoff \in Nat
  /\ MinBackoff <= MaxBackoff
ASSUME BoundAssumption == MaxNoops \in Nat \ {0} /\ MaxLeaked \in Nat

VARIABLES
  state,          \* _state
  autoReconnect,  \* autoReconnect
  flow,           \* flow
  bound,          \* flows that still carry the listeners of bindFlowEvents
  link,           \* what each flow's connection is doing
  backoff,        \* backoffMs
  reconnectTimer, \* reconnectTimer # null and armed
  idleTimer,      \* idleTimer refers to an armed timer
  leaked,         \* armed IDLE timers idleTimer no longer refers to
  pollTimer,      \* pollTimer # null
  idleSupported,  \* _idleSupported
  attempt,        \* connect() calls in progress, by the flow each created
  on,             \* the flow whose promise a connect() call awaits
  awaited,        \* connect() calls awaited by a caller (not by the timer)
  noops,          \* cycleIdle() calls awaiting a NOOP, by flow
  op,             \* the public operation each caller has in progress
  listening,      \* the client's 'error' event has a listener
  life,           \* how far the composition root (src/index.ts) has come
  fault           \* whether an 'error' event was emitted to nobody

vars == << state, autoReconnect, flow, bound, link, backoff, reconnectTimer,
           idleTimer, leaked, pollTimer, idleSupported, attempt, on, awaited,
           noops, op, listening, life, fault >>

\* The variables TearDown changes, the timers of the keepalive, and the rest.
connVars == << state, flow, bound, link, backoff, reconnectTimer >>
timerVars == << idleTimer, pollTimer >>
attemptVars == << attempt, on, awaited >>
rootVars == << listening, life, fault >>

States == {"disconnected", "connecting", "connected", "error"}

\* "dialing" until the handshake ends; "wedged" takes commands and answers
\* none; "dead" is half-open with usable = false; "failing" has emitted
\* 'error' and will emit 'close'; "none" is a name not in use.
Links == {"none", "dialing", "up", "wedged", "dead", "failing", "closed"}

\* The guarded steps of an operation.  withMailboxSwitch has three, any other
\* public operation is "direct" ones (withMailboxLock: two in a row).
Steps == {"direct", "lock", "work", "restore"}
Idle == [pc |-> "none", on |-> NoFlow]

TypeOK ==
  /\ state \in States
  /\ autoReconnect \in BOOLEAN
  /\ flow \in Flows \cup {NoFlow}
  /\ bound \subseteq Flows
  /\ link \in [Flows -> Links]
  /\ backoff \in MinBackoff .. MaxBackoff
  /\ reconnectTimer \in BOOLEAN
  /\ idleTimer \in BOOLEAN
  /\ leaked \in 0 .. MaxLeaked
  /\ pollTimer \in BOOLEAN
  /\ idleSupported \in BOOLEAN
  /\ attempt \in [Flows -> {"none", "tls", "select"}]
  /\ on \in [Flows -> Flows]
  /\ awaited \subseteq Flows
  /\ noops \in [Flows -> 0 .. MaxNoops]
  /\ op \in [Ops -> [pc : Steps, on : Flows] \cup {Idle}]
  /\ listening \in BOOLEAN
  /\ life \in {"new", "booting", "live", "closing", "closed"}
  /\ fault \in {"none", "thrown", "exit"}

\* A new client: at startup src/index.ts:315 has attached an 'error' listener,
\* after a change of the IMAP settings (src/index.ts:182) nobody has.
Init ==
  /\ state = "disconnected"
  /\ autoReconnect = TRUE
  /\ flow = NoFlow
  /\ bound = {}
  /\ link = [f \in Flows |-> "none"]
  /\ backoff = MinBackoff
  /\ reconnectTimer = FALSE
  /\ idleTimer = FALSE
  /\ leaked = 0
  /\ pollTimer = FALSE
  /\ idleSupported = TRUE
  /\ attempt = [f \in Flows |-> "none"]
  /\ on = [f \in Flows |-> f]
  /\ awaited = {}
  /\ noops = [f \in Flows |-> 0]
  /\ op = [o \in Ops |-> Idle]
  /\ listening \in BOOLEAN
  /\ life = "new"
  /\ fault = "none"

-----------------------------------------------------------------------------
(* What the client relies on from imapflow and the event loop.             *)

\* flow.usable.  It is set once the handshake is over and cleared by close().
Usable(f) == f # NoFlow /\ link[f] \in {"up", "wedged", "failing"}

Alive(f) == link[f] \notin {"none", "closed"}

\* Some promise of flow f has not settled yet.
InFlight(f) ==
  \/ \E g \in Flows : attempt[g] # "none" /\ on[g] = f
  \/ noops[f] > 0
  \/ \E o \in Ops : op[o].pc # "none" /\ op[o].on = f

\* close() rejects what is in flight by setImmediate, so the rejections are
\* delivered before any timer (the shortest runs a second) fires.
Quiet == \A f \in Flows : link[f] = "closed" => ~InFlight(f)

-----------------------------------------------------------------------------
(* The private methods.                                                    *)

\* Faulty variant: the delay is not capped.
Double_Uncapped(b) == 2 * b

Double(b) == IF 2 * b > MaxBackoff THEN MaxBackoff ELSE 2 * b

\* scheduleReconnect() when backoffMs is b.
ScheduleReconnect(b) ==
  IF autoReconnect
    THEN reconnectTimer' = TRUE /\ backoff' = Double(b)
    ELSE reconnectTimer' = reconnectTimer /\ backoff' = b

StopIdleAndPoll == idleTimer' = FALSE /\ pollTimer' = FALSE

StartIdleOrPoll(idleOk) == idleTimer' = idleOk /\ pollTimer' = ~idleOk

\* Faulty variant: the listeners of the old flow go, but it is not closed.
TearDown_Abandons(alreadyClosed) ==
  /\ link' = [f \in Flows |-> IF f \in alreadyClosed THEN "closed" ELSE link[f]]
  /\ bound' = bound \ {flow}
  /\ flow' = NoFlow
  /\ IF state = "disconnected"
       THEN UNCHANGED << state, backoff, reconnectTimer >>
       ELSE state' = "disconnected" /\ ScheduleReconnect(backoff)

\* handleClose() but for its StopIdleAndPoll: close the current flow (the
\* network may have closed some already) and, unless already disconnected,
\* report it and schedule a reconnect.
TearDown(alreadyClosed) ==
  /\ link' = [f \in Flows |->
                IF f = flow \/ f \in alreadyClosed THEN "closed" ELSE link[f]]
  /\ bound' = bound \ {flow}
  /\ flow' = NoFlow
  /\ IF state = "disconnected"
       THEN UNCHANGED << state, backoff, reconnectTimer >>
       ELSE state' = "disconnected" /\ ScheduleReconnect(backoff)

HandleClose(alreadyClosed) == TearDown(alreadyClosed) /\ StopIdleAndPoll

\* emit('error') throws when there is no listener.  The exception ends the
\* process unless the code that emits runs in a call somebody awaits.
EmitError(isAwaited) ==
  fault' = IF listening THEN fault
           ELSE IF isAwaited THEN "thrown" ELSE "exit"

-----------------------------------------------------------------------------
(* connect()                                                               *)

\* The start of connect(), up to its first await.  The flow it replaces, if
\* any, keeps its connection and its listeners.
Connect(isAwaited) ==
  IF state \in {"connecting", "connected"}
  THEN UNCHANGED << state, autoReconnect, flow, bound, link, attemptVars >>
  ELSE \E f \in Flows :
         /\ ~Alive(f) /\ ~InFlight(f) /\ attempt[f] = "none"
         /\ state' = "connecting"
         /\ autoReconnect' = TRUE
         /\ flow' = f
         /\ bound' = bound \cup {f}
         /\ link' = [link EXCEPT ![f] = "dialing"]
         /\ attempt' = [attempt EXCEPT ![f] = "tls"]
         /\ on' = [on EXCEPT ![f] = f]
         /\ awaited' = IF isAwaited THEN awaited \cup {f} ELSE awaited

\* The catch block of connect(), for the call that created flow f.
ConnectFails(f, b) ==
  /\ state' = "error"
  /\ on' = [on EXCEPT ![f] = f]
  /\ attempt' = [attempt EXCEPT ![f] = "none"]
  /\ awaited' = awaited \ {f}
  /\ EmitError(f \in awaited)
  /\ IF listening
       THEN ScheduleReconnect(b)
       ELSE reconnectTimer' = reconnectTimer /\ backoff' = b

\* flow.connect() resolves; SELECT INBOX goes to whatever this.flow is now.
HandshakeDone(f) ==
  /\ attempt[f] = "tls" /\ link[f] = "dialing"
  /\ link' = [link EXCEPT ![f] = "up"]
  /\ IF flow = NoFlow
       THEN ConnectFails(f, backoff)
       ELSE /\ attempt' = [attempt EXCEPT ![f] = "select"]
            /\ on' = [on EXCEPT ![f] = flow]
            /\ UNCHANGED << state, backoff, reconnectTimer, awaited, fault >>
  /\ UNCHANGED << autoReconnect, flow, bound, idleTimer, leaked, pollTimer,
                  idleSupported, noops, op, listening, life >>

\* SELECT INBOX resolves.  Without a flow detectIdleSupport throws.
Connected(f) ==
  /\ attempt[f] = "select" /\ link[on[f]] = "up"
  /\ IF flow = NoFlow
       THEN /\ ConnectFails(f, MinBackoff)
            /\ UNCHANGED << idleSupported, timerVars >>
       ELSE /\ state' = "connected"
            /\ backoff' = MinBackoff
            /\ idleSupported' \in BOOLEAN
            /\ StartIdleOrPoll(idleSupported')
            /\ attempt' = [attempt EXCEPT ![f] = "none"]
            /\ on' = [on EXCEPT ![f] = f]
            /\ awaited' = awaited \ {f}
            /\ UNCHANGED << reconnectTimer, fault >>
  /\ UNCHANGED << autoReconnect, flow, bound, link, leaked, noops, op,
                  listening, life >>

\* A server error, a timeout, or the rejection that follows a close.
AttemptFails(f) ==
  /\ attempt[f] # "none"
  /\ ConnectFails(f, backoff)
  /\ UNCHANGED << autoReconnect, flow, bound, link, timerVars, leaked,
                  idleSupported, noops, op, listening, life >>

ReconnectFires ==
  /\ reconnectTimer /\ Quiet
  /\ reconnectTimer' = FALSE
  /\ Connect(FALSE)
  /\ UNCHANGED << backoff, timerVars, leaked, idleSupported, noops, op,
                  rootVars >>

-----------------------------------------------------------------------------
(* What the network does, and the listeners of bindFlowEvents.             *)

\* The connection goes half-open: imapflow may notice (usable = false) or not.
LinkBreaks(f) ==
  /\ link[f] = "up"
  /\ \E l \in {"wedged", "dead"} : link' = [link EXCEPT ![f] = l]
  /\ UNCHANGED << state, autoReconnect, flow, bound, backoff, reconnectTimer,
                  timerVars, leaked, idleSupported, attemptVars, noops, op,
                  rootVars >>

\* Faulty variant: the error listener already marks the client disconnected.
FlowError_Disconnects(f) ==
  /\ Alive(f) /\ link[f] # "failing"
  /\ link' = [link EXCEPT ![f] = "failing"]
  /\ IF f \in bound
       THEN state' = "disconnected" /\ EmitError(FALSE)
       ELSE UNCHANGED << state, fault >>
  /\ UNCHANGED << autoReconnect, flow, bound, backoff, reconnectTimer,
                  timerVars, leaked, idleSupported, attemptVars, noops, op,
                  listening, life >>

\* Flow f emits 'error'; 'close' follows.
FlowError(f) ==
  /\ Alive(f) /\ link[f] # "failing"
  /\ link' = [link EXCEPT ![f] = "failing"]
  /\ IF f \in bound
       THEN state' = "error" /\ EmitError(FALSE)
       ELSE UNCHANGED << state, fault >>
  /\ UNCHANGED << autoReconnect, flow, bound, backoff, reconnectTimer,
                  timerVars, leaked, idleSupported, attemptVars, noops, op,
                  listening, life >>

\* Flow f emits 'close': whichever flow it is, the current one is torn down.
FlowClose(f) ==
  /\ Alive(f)
  /\ IF f \in bound
       THEN HandleClose({f})
       ELSE /\ link' = [link EXCEPT ![f] = "closed"]
            /\ UNCHANGED << state, flow, bound, backoff, reconnectTimer,
                            timerVars >>
  /\ UNCHANGED << autoReconnect, leaked, idleSupported, attemptVars, noops,
                  op, rootVars >>

-----------------------------------------------------------------------------
(* The keepalive: cycleIdle().                                             *)

\* An armed IDLE timer fires, the one idleTimer refers to or a lost one.
IdleFires ==
  /\ Quiet
  /\ \/ idleTimer /\ idleTimer' = FALSE /\ UNCHANGED << leaked, pollTimer >>
     \/ leaked > 0 /\ leaked' = leaked - 1 /\ UNCHANGED timerVars
  /\ IF state = "connected"
       THEN /\ Usable(flow) /\ noops[flow] < MaxNoops
            /\ noops' = [noops EXCEPT ![flow] = @ + 1]
       ELSE UNCHANGED noops
  /\ UNCHANGED << connVars, autoReconnect, idleSupported, attemptVars, op,
                  rootVars >>

\* Faulty variant: an unusable connection is left for somebody else to close.
IdleFindsDead_NoOp ==
  /\ Quiet
  /\ state = "connected" /\ ~Usable(flow)
  /\ idleTimer /\ idleTimer' = FALSE
  /\ UNCHANGED << connVars, pollTimer, leaked, autoReconnect, idleSupported,
                  attemptVars, noops, op, rootVars >>

\* The same on a connection that is not usable: it is closed at once.
IdleFindsDead ==
  /\ Quiet
  /\ state = "connected" /\ ~Usable(flow)
  /\ \/ idleTimer /\ UNCHANGED leaked
     \/ leaked > 0 /\ leaked' = leaked - 1
  /\ HandleClose({})
  /\ UNCHANGED << autoReconnect, idleSupported, attemptVars, noops, op,
                  rootVars >>

\* The NOOP is answered: arm the next cycle, whatever idleTimer refers to.
NoopAnswered(f) ==
  /\ noops[f] > 0 /\ link[f] = "up"
  /\ noops' = [noops EXCEPT ![f] = @ - 1]
  /\ IF state = "connected"
       THEN /\ idleTimer' = TRUE
            /\ idleTimer => leaked < MaxLeaked
            /\ leaked' = IF idleTimer THEN leaked + 1 ELSE leaked
       ELSE UNCHANGED << idleTimer, leaked >>
  /\ UNCHANGED << connVars, autoReconnect, pollTimer, idleSupported,
                  attemptVars, op, rootVars >>

\* It is refused, rejected by a close, or not answered in NOOP_TIMEOUT_MS.
NoopFails(f) ==
  /\ noops[f] > 0
  /\ noops' = [noops EXCEPT ![f] = @ - 1]
  /\ HandleClose({})
  /\ UNCHANGED << autoReconnect, leaked, idleSupported, attemptVars, op,
                  rootVars >>

-----------------------------------------------------------------------------
(* The public operations.                                                  *)

\* The checks at the start of guardedOp when it opens an operation: no flow,
\* an unusable flow (torn down at once), or the command is issued.
OpBegins(o, step) ==
  /\ op[o].pc = "none"
  /\ op' = IF Usable(flow)
             THEN [op EXCEPT ![o] = [pc |-> step, on |-> flow]] ELSE op
  /\ IF Usable(flow) \/ flow = NoFlow
       THEN UNCHANGED connVars ELSE TearDown({})
  /\ UNCHANGED << autoReconnect, leaked, idleSupported, attemptVars, noops,
                  rootVars >>

\* listFolders, status, createMailbox, withMailboxLock, ...
DirectBegins(o) ==
  /\ OpBegins(o, "direct")
  /\ IF Usable(flow) \/ flow = NoFlow
       THEN UNCHANGED timerVars ELSE StopIdleAndPoll

\* withMailboxSwitch: the keepalive stops before the lock is asked for.
SwitchBegins(o) == OpBegins(o, "lock") /\ StopIdleAndPoll

\* The next guardedOp of a withMailboxSwitch that holds the lock.  If its
\* checks fail, so does the restore that follows, and the keepalive restarts.
Continue(o, step) ==
  \/ /\ Usable(flow)
     /\ op' = [op EXCEPT ![o] = [pc |-> step, on |-> flow]]
     /\ UNCHANGED << connVars, timerVars >>
  \/ /\ ~Usable(flow)
     /\ op' = [op EXCEPT ![o] = Idle]
     /\ IF flow = NoFlow THEN UNCHANGED connVars ELSE TearDown({})
     /\ StartIdleOrPoll(idleSupported)

\* The awaited promise of o's step settles other than by our timeout: the
\* server answers (a result or an error), or a close rejects it.
Settles(o, step) ==
  /\ op[o].pc = step
  /\ link[op[o].on] \in {"up", "closed"}
  /\ UNCHANGED << autoReconnect, leaked, idleSupported, attemptVars, noops,
                  rootVars >>

DirectSettles(o) ==
  /\ Settles(o, "direct")
  /\ op' = [op EXCEPT ![o] = Idle]
  /\ UNCHANGED << connVars, timerVars >>

LockGranted(o) ==
  /\ Settles(o, "lock") /\ link[op[o].on] = "up"
  /\ Continue(o, "work")

\* The acquisition is outside the try block: nothing restarts the keepalive.
LockRefused(o) ==
  /\ Settles(o, "lock")
  /\ op' = [op EXCEPT ![o] = Idle]
  /\ UNCHANGED << connVars, timerVars >>

WorkSettles(o) == Settles(o, "work") /\ Continue(o, "restore")

RestoreSettles(o) ==
  /\ Settles(o, "restore")
  /\ op' = [op EXCEPT ![o] = Idle]
  /\ StartIdleOrPoll(idleSupported)
  /\ UNCHANGED connVars

\* Our own timeout: tear down, and leave through the finally block if inside.
OpTimesOut(o) ==
  /\ op[o].pc # "none" /\ link[op[o].on] # "closed"
  /\ TearDown({})
  /\ IF op[o].pc \in {"work", "restore"}
       THEN StartIdleOrPoll(idleSupported) ELSE StopIdleAndPoll
  /\ op' = [op EXCEPT ![o] = Idle]
  /\ UNCHANGED << autoReconnect, leaked, idleSupported, attemptVars, noops,
                  rootVars >>

-----------------------------------------------------------------------------
(* The callers in src/index.ts that start and stop a client.               *)

\* The root's own connect() call, with or without an 'error' listener.
FirstConnect ==
  /\ life = "new"
  /\ Connect(TRUE)
  /\ life' = "booting"
  /\ UNCHANGED << backoff, reconnectTimer, timerVars, leaked, idleSupported,
                  noops, op, listening, fault >>

\* monitor.stop(), when the probe found another envelope header: it removes
\* every listener of the shared client.
StopMonitor ==
  /\ life = "booting" /\ awaited = {} /\ fault = "none"
  /\ listening /\ listening' = FALSE
  /\ UNCHANGED << connVars, autoReconnect, timerVars, leaked, idleSupported,
                  attemptVars, noops, op, life, fault >>

\* monitor.start(): attach listeners, then connect() unless connected.
StartMonitor ==
  /\ life = "booting" /\ awaited = {} /\ fault = "none"
  /\ listening' = TRUE
  /\ Connect(TRUE)
  /\ life' = "live"
  /\ UNCHANGED << backoff, reconnectTimer, timerVars, leaked, idleSupported,
                  noops, op, fault >>

\* Faulty variant: a pending reconnect survives disconnect().
Disconnect_KeepsTimer ==
  /\ life = "live" \/ (life = "booting" /\ fault = "thrown")
  /\ listening' = FALSE
  /\ autoReconnect' = FALSE
  /\ StopIdleAndPoll
  /\ IF flow = NoFlow
       THEN state' = "disconnected" /\ life' = "closed"
       ELSE state' = state /\ life' = "closing"
  /\ UNCHANGED << flow, bound, link, backoff, reconnectTimer, leaked,
                  idleSupported, attemptVars, noops, op, fault >>

\* The IMAP settings change: monitor.stop(), then disconnect() to its logout.
Disconnect ==
  /\ life = "live" \/ (life = "booting" /\ fault = "thrown")
  /\ listening' = FALSE
  /\ autoReconnect' = FALSE
  /\ reconnectTimer' = FALSE
  /\ StopIdleAndPoll
  /\ IF flow = NoFlow
       THEN state' = "disconnected" /\ life' = "closed"
       ELSE state' = state /\ life' = "closing"
  /\ UNCHANGED << flow, bound, link, backoff, leaked, idleSupported,
                  attemptVars, noops, op, fault >>

\* The logout is answered, fails, or times out.
LogoutSettles ==
  /\ life = "closing"
  /\ link' = [f \in Flows |-> IF f = flow THEN "closed" ELSE link[f]]
  /\ bound' = bound \ {flow}
  /\ flow' = NoFlow
  /\ state' = "disconnected"
  /\ life' = "closed"
  /\ UNCHANGED << autoReconnect, backoff, reconnectTimer, timerVars, leaked,
                  idleSupported, attemptVars, noops, op, listening, fault >>

-----------------------------------------------------------------------------
OfFlow(f) ==
  \/ HandshakeDone(f) \/ Connected(f) \/ AttemptFails(f)
  \/ LinkBreaks(f) \/ FlowError(f) \/ FlowClose(f)
  \/ NoopAnswered(f) \/ NoopFails(f)

OfOp(o) ==
  \/ DirectBegins(o) \/ SwitchBegins(o)
  \/ DirectSettles(o) \/ LockGranted(o) \/ LockRefused(o)
  \/ WorkSettles(o) \/ RestoreSettles(o) \/ OpTimesOut(o)

OfRoot == FirstConnect \/ StopMonitor \/ StartMonitor \/ Disconnect \/ LogoutSettles

\* An uncaught exception has ended the process: nothing runs any more.
Running == fault # "exit"

Next ==
  /\ Running
  /\ \/ \E f \in Flows : OfFlow(f)
     \/ \E o \in Ops : OfOp(o)
     \/ ReconnectFires \/ IdleFires \/ IdleFindsDead
     \/ OfRoot

Spec == Init /\ [][Next]_vars

\* Fairness.  Timers fire and promises settle, if only by a timeout; imapflow
\* emits 'close' after 'error' and gives up a connection nobody uses (its
\* socket timeout); a server that is dialled again and again answers.
Fairness ==
  /\ WF_vars(Running /\ ReconnectFires)
  /\ WF_vars(Running /\ (IdleFires \/ IdleFindsDead))
  /\ \A f \in Flows :
       /\ SF_vars(Running /\ HandshakeDone(f))
       /\ SF_vars(Running /\ Connected(f))
       /\ WF_vars(Running /\ (AttemptFails(f) \/ NoopFails(f)
                             \/ ((f # flow \/ link[f] = "failing") /\ FlowClose(f))))
  /\ \A o \in Ops :
       WF_vars(Running /\ (OpTimesOut(o) \/ DirectSettles(o) \/ LockGranted(o)
                           \/ LockRefused(o) \/ WorkSettles(o) \/ RestoreSettles(o)))

FairSpec == Spec /\ Fairness

-----------------------------------------------------------------------------
(* Properties.                                                             *)

InUse == life \in {"booting", "live"}

\* Something is under way that will bring a client out of its state: a client
\* that is not connected has a reconnect timer, a connect() call, or a 'close'
\* event still to come.
Recovering ==
  /\ state = "disconnected" => reconnectTimer
  /\ state = "connecting" => \E f \in Flows : attempt[f] # "none"
  /\ state = "error" => reconnectTimer \/ \E f \in bound : link[f] = "failing"
  /\ state = "connected" => flow # NoFlow

\* A client in use never gets stuck without a connection, whatever closes,
\* errors, timeouts and late events of earlier flows it meets, as long as
\* every 'error' event has found a listener.
NeverStranded == InUse /\ fault = "none" => Recovering

\* The current flow is not closed and the client hears its events, and a flow
\* nobody listens to any more has been closed, so that nobody waits on it.
FlowsAreHeard ==
  /\ flow # NoFlow => flow \in bound /\ Alive(flow)
  /\ \A f \in Flows : Alive(f) => f \in bound

\* No late event, timer or promise revives a client after disconnect().
DisconnectIsFinal ==
  life = "closed" =>
    flow = NoFlow /\ ~reconnectTimer /\ state \in {"disconnected", "error"}

\* A client in use gets a connection that works, if the server can be reached
\* again and again: from any failure, and from a connection that has gone
\* half-open while the IDLE keepalive is armed, even if operations stop and
\* restart the keepalive meanwhile.  With polling nothing notices the latter.
Working == state = "connected" /\ flow # NoFlow /\ link[flow] = "up"
Reconnects ==
  (InUse /\ (state = "connected" => idleTimer)) ~> (Working \/ ~InUse \/ fault # "none")

\* FM-002: a wedge during the handshake heals by itself.
HandshakeSelfHeals == InUse => Recovering

=============================================================================
