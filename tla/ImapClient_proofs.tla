-------------------------- MODULE ImapClient_proofs --------------------------
(***************************************************************************)
(* What holds of the connection life cycle for any number of flows and     *)
(* callers, any backoff bounds and any timing.                             *)
(***************************************************************************)
EXTENDS ImapClient, TLAPS

-----------------------------------------------------------------------------
(* Types.                                                                  *)

\* The backoff never leaves MIN_BACKOFF_MS .. MAX_BACKOFF_MS.
LEMMA DoubleInRange ==
  ASSUME NEW STATE b, b \in MinBackoff .. MaxBackoff
  PROVE  Double(b) \in MinBackoff .. MaxBackoff
  BY BackoffAssumption DEF Double

LEMMA TypeInit == Init => TypeOK
  <1>. SUFFICES ASSUME Init PROVE TypeOK
    OBVIOUS
  <1>1. op \in [Ops -> [pc : Steps, on : Flows] \cup {Idle}]
    BY DEF Init
  <1>2. backoff \in MinBackoff .. MaxBackoff /\ leaked \in 0 .. MaxLeaked
        /\ noops \in [Flows -> 0 .. MaxNoops]
    BY BackoffAssumption, BoundAssumption DEF Init
  <1>3. /\ link \in [Flows -> Links]
        /\ attempt \in [Flows -> {"none", "tls", "select"}]
        /\ on \in [Flows -> Flows]
    BY DEF Init, Links
  <1>. QED BY <1>1, <1>2, <1>3 DEF Init, TypeOK, States

LEMMA ScheduleType ==
  ASSUME NEW STATE b, b \in MinBackoff .. MaxBackoff,
         reconnectTimer \in BOOLEAN, ScheduleReconnect(b)
  PROVE  reconnectTimer' \in BOOLEAN /\ backoff' \in MinBackoff .. MaxBackoff
  BY DoubleInRange DEF ScheduleReconnect

\* What TearDown assigns has the right types.
LEMMA TearDownType ==
  ASSUME TypeOK, NEW S, TearDown(S)
  PROVE  /\ state' \in States
         /\ flow' \in Flows \cup {NoFlow}
         /\ bound' \subseteq Flows
         /\ link' \in [Flows -> Links]
         /\ backoff' \in MinBackoff .. MaxBackoff
         /\ reconnectTimer' \in BOOLEAN
  <1>1. state' \in States /\ flow' \in Flows \cup {NoFlow} /\ bound' \subseteq Flows
    BY DEF TearDown, TypeOK, States
  <1>2. link' \in [Flows -> Links]
    BY DEF TearDown, TypeOK, Links
  <1>3. reconnectTimer' \in BOOLEAN /\ backoff' \in MinBackoff .. MaxBackoff
    <2>1. CASE state = "disconnected"
      BY <2>1 DEF TearDown, TypeOK
    <2>2. CASE state # "disconnected"
      BY <2>2, ScheduleType DEF TearDown, TypeOK
    <2>. QED BY <2>1, <2>2
  <1>. QED BY <1>1, <1>2, <1>3

LEMMA ConnectType ==
  ASSUME TypeOK, NEW isAwaited \in BOOLEAN, Connect(isAwaited)
  PROVE  /\ state' \in States
         /\ autoReconnect' \in BOOLEAN
         /\ flow' \in Flows \cup {NoFlow}
         /\ bound' \subseteq Flows
         /\ link' \in [Flows -> Links]
         /\ attempt' \in [Flows -> {"none", "tls", "select"}]
         /\ on' \in [Flows -> Flows]
         /\ awaited' \subseteq Flows
  <1>1. CASE state \in {"connecting", "connected"}
    BY <1>1 DEF Connect, TypeOK, attemptVars
  <1>2. CASE state \notin {"connecting", "connected"}
    <2>1. PICK f \in Flows :
            /\ state' = "connecting"
            /\ autoReconnect' = TRUE
            /\ flow' = f
            /\ bound' = bound \cup {f}
            /\ link' = [link EXCEPT ![f] = "dialing"]
            /\ attempt' = [attempt EXCEPT ![f] = "tls"]
            /\ on' = [on EXCEPT ![f] = f]
            /\ awaited' = IF isAwaited THEN awaited \cup {f} ELSE awaited
      BY <1>2 DEF Connect
    <2>. QED BY <2>1 DEF TypeOK, States, Links
  <1>. QED BY <1>1, <1>2

LEMMA ConnectFailsType ==
  ASSUME TypeOK, NEW f \in Flows, NEW STATE b, b \in MinBackoff .. MaxBackoff,
         ConnectFails(f, b)
  PROVE  /\ state' \in States
         /\ attempt' \in [Flows -> {"none", "tls", "select"}]
         /\ on' \in [Flows -> Flows]
         /\ awaited' \subseteq Flows
         /\ fault' \in {"none", "thrown", "exit"}
         /\ backoff' \in MinBackoff .. MaxBackoff
         /\ reconnectTimer' \in BOOLEAN
  BY ScheduleType DEF ConnectFails, EmitError, TypeOK, States

LEMMA OfFlowType ==
  ASSUME TypeOK, NEW f \in Flows, OfFlow(f)
  PROVE  TypeOK'
  <1>. USE DEF connVars, timerVars, attemptVars, rootVars
  <1>1. CASE HandshakeDone(f)
    <2>1. link' \in [Flows -> Links]
      BY <1>1 DEF HandshakeDone, TypeOK, Links
    <2>2. CASE flow = NoFlow
      BY <1>1, <2>1, <2>2, ConnectFailsType DEF HandshakeDone, TypeOK
    <2>3. CASE flow # NoFlow
      BY <1>1, <2>1, <2>3 DEF HandshakeDone, TypeOK
    <2>. QED BY <2>2, <2>3
  <1>2. CASE Connected(f)
    <2>1. MinBackoff \in MinBackoff .. MaxBackoff
      BY BackoffAssumption
    <2>2. CASE flow = NoFlow
      BY <1>2, <2>1, <2>2, ConnectFailsType DEF Connected, TypeOK
    <2>3. CASE flow # NoFlow
      BY <1>2, <2>1, <2>3 DEF Connected, StartIdleOrPoll, TypeOK, States
    <2>. QED BY <2>2, <2>3
  <1>3. CASE AttemptFails(f)
    <2>1. backoff \in MinBackoff .. MaxBackoff /\ ConnectFails(f, backoff)
      BY <1>3 DEF AttemptFails, TypeOK
    <2>2. /\ state' \in States
          /\ attempt' \in [Flows -> {"none", "tls", "select"}]
          /\ on' \in [Flows -> Flows]
          /\ awaited' \subseteq Flows
          /\ fault' \in {"none", "thrown", "exit"}
          /\ backoff' \in MinBackoff .. MaxBackoff
          /\ reconnectTimer' \in BOOLEAN
      BY <2>1, ConnectFailsType
    <2>. QED BY <1>3, <2>2 DEF AttemptFails, TypeOK
  <1>4. CASE LinkBreaks(f)
    BY <1>4 DEF LinkBreaks, TypeOK, Links
  <1>5. CASE FlowError(f)
    BY <1>5 DEF FlowError, EmitError, TypeOK, Links, States
  <1>6. CASE FlowClose(f)
    <2>1. CASE f \in bound
      BY <1>6, <2>1, TearDownType DEF FlowClose, HandleClose, StopIdleAndPoll, TypeOK
    <2>2. CASE f \notin bound
      BY <1>6, <2>2 DEF FlowClose, TypeOK, Links
    <2>. QED BY <2>1, <2>2
  <1>7. CASE NoopAnswered(f)
    <2>1. noops' \in [Flows -> 0 .. MaxNoops]
      BY <1>7, BoundAssumption DEF NoopAnswered, TypeOK
    <2>2. leaked' \in 0 .. MaxLeaked
      BY <1>7, BoundAssumption DEF NoopAnswered, TypeOK
    <2>. QED BY <1>7, <2>1, <2>2 DEF NoopAnswered, TypeOK
  <1>8. CASE NoopFails(f)
    <2>1. noops' \in [Flows -> 0 .. MaxNoops]
      BY <1>8, BoundAssumption DEF NoopFails, TypeOK
    <2>2. TearDown({}) /\ StopIdleAndPoll
      BY <1>8 DEF NoopFails, HandleClose
    <2>. QED BY <1>8, <2>1, <2>2, TearDownType DEF NoopFails, StopIdleAndPoll, TypeOK
  <1>. QED BY <1>1, <1>2, <1>3, <1>4, <1>5, <1>6, <1>7, <1>8 DEF OfFlow

\* What every step of an operation assigns to op keeps its type.
LEMMA OpType ==
  ASSUME TypeOK, NEW o \in Ops, NEW step \in Steps, NEW f \in Flows
  PROVE  /\ [op EXCEPT ![o] = [pc |-> step, on |-> f]]
              \in [Ops -> [pc : Steps, on : Flows] \cup {Idle}]
         /\ [op EXCEPT ![o] = Idle]
              \in [Ops -> [pc : Steps, on : Flows] \cup {Idle}]
  BY DEF TypeOK

LEMMA OpBeginsType ==
  ASSUME TypeOK, NEW o \in Ops, NEW step \in Steps, OpBegins(o, step),
         idleTimer' \in BOOLEAN, pollTimer' \in BOOLEAN
  PROVE  TypeOK'
  <1>1. op' \in [Ops -> [pc : Steps, on : Flows] \cup {Idle}]
    BY OpType DEF OpBegins, Usable, TypeOK
  <1>2. CASE Usable(flow) \/ flow = NoFlow
    BY <1>1, <1>2 DEF OpBegins, TypeOK, connVars, attemptVars, rootVars
  <1>3. CASE ~(Usable(flow) \/ flow = NoFlow)
    <2>1. TearDown({})
      BY <1>3 DEF OpBegins
    <2>. QED BY <1>1, <2>1, TearDownType DEF OpBegins, TypeOK, attemptVars, rootVars
  <1>. QED BY <1>2, <1>3

LEMMA ContinueType ==
  ASSUME TypeOK, NEW o \in Ops, NEW step \in Steps, NEW before,
         Settles(o, before), Continue(o, step)
  PROVE  TypeOK'
  <1>1. CASE Usable(flow)
    BY <1>1, OpType
    DEF Settles, Continue, Usable, TypeOK, connVars, timerVars, attemptVars, rootVars
  <1>2. CASE ~Usable(flow)
    <2>1. op' \in [Ops -> [pc : Steps, on : Flows] \cup {Idle}]
      BY <1>2, OpType DEF Continue, TypeOK
    <2>2. idleTimer' \in BOOLEAN /\ pollTimer' \in BOOLEAN
      BY <1>2 DEF Continue, StartIdleOrPoll, TypeOK
    <2>3. CASE flow = NoFlow
      BY <1>2, <2>1, <2>2, <2>3
      DEF Settles, Continue, TypeOK, connVars, attemptVars, rootVars
    <2>4. CASE flow # NoFlow
      <3>1. TearDown({})
        BY <1>2, <2>4 DEF Continue
      <3>. QED BY <2>1, <2>2, <3>1, TearDownType DEF Settles, TypeOK, attemptVars, rootVars
    <2>. QED BY <2>3, <2>4
  <1>. QED BY <1>1, <1>2

LEMMA OfOpType ==
  ASSUME TypeOK, NEW o \in Ops, OfOp(o)
  PROVE  TypeOK'
  <1>. USE DEF Steps
  <1>0. [op EXCEPT ![o] = Idle] \in [Ops -> [pc : Steps, on : Flows] \cup {Idle}]
    BY DEF TypeOK
  <1>1. CASE DirectBegins(o)
    <2>1. OpBegins(o, "direct") /\ idleTimer' \in BOOLEAN /\ pollTimer' \in BOOLEAN
      BY <1>1 DEF DirectBegins, StopIdleAndPoll, TypeOK, timerVars
    <2>. QED BY <2>1, OpBeginsType
  <1>2. CASE SwitchBegins(o)
    <2>1. OpBegins(o, "lock") /\ idleTimer' \in BOOLEAN /\ pollTimer' \in BOOLEAN
      BY <1>2 DEF SwitchBegins, StopIdleAndPoll
    <2>. QED BY <2>1, OpBeginsType
  <1>3. CASE DirectSettles(o) \/ LockRefused(o)
    BY <1>0, <1>3
    DEF DirectSettles, LockRefused, Settles, TypeOK, connVars, timerVars,
        attemptVars, rootVars
  <1>4. CASE LockGranted(o)
    BY <1>4, ContinueType DEF LockGranted
  <1>5. CASE WorkSettles(o)
    BY <1>5, ContinueType DEF WorkSettles
  <1>6. CASE RestoreSettles(o)
    BY <1>0, <1>6
    DEF RestoreSettles, Settles, StartIdleOrPoll, TypeOK, connVars, attemptVars, rootVars
  <1>7. CASE OpTimesOut(o)
    <2>1. idleTimer' \in BOOLEAN /\ pollTimer' \in BOOLEAN
      BY <1>7 DEF OpTimesOut, StartIdleOrPoll, StopIdleAndPoll, TypeOK
    <2>2. TearDown({})
      BY <1>7 DEF OpTimesOut
    <2>. QED BY <1>0, <1>7, <2>1, <2>2, TearDownType
             DEF OpTimesOut, TypeOK, attemptVars, rootVars
  <1>. QED BY <1>1, <1>2, <1>3, <1>4, <1>5, <1>6, <1>7 DEF OfOp

LEMMA TimerType ==
  ASSUME TypeOK, ReconnectFires \/ IdleFires \/ IdleFindsDead
  PROVE  TypeOK'
  <1>. USE DEF connVars, timerVars, attemptVars, rootVars
  <1>1. CASE ReconnectFires
    BY <1>1, ConnectType DEF ReconnectFires, TypeOK
  <1>2. CASE IdleFires
    <2>1. noops' \in [Flows -> 0 .. MaxNoops]
      <3>1. CASE state = "connected"
        <4>1. flow \in Flows /\ noops[flow] < MaxNoops
              /\ noops' = [noops EXCEPT ![flow] = @ + 1]
          BY <1>2, <3>1 DEF IdleFires, Usable, TypeOK
        <4>. QED BY <4>1, BoundAssumption DEF TypeOK
      <3>2. CASE state # "connected"
        BY <1>2, <3>2 DEF IdleFires, TypeOK
      <3>. QED BY <3>1, <3>2
    <2>2. /\ leaked' \in 0 .. MaxLeaked
          /\ idleTimer' \in BOOLEAN /\ pollTimer' \in BOOLEAN
      <3>1. \/ idleTimer' = FALSE /\ leaked' = leaked /\ pollTimer' = pollTimer
            \/ /\ leaked > 0 /\ leaked' = leaked - 1
               /\ idleTimer' = idleTimer /\ pollTimer' = pollTimer
        BY <1>2 DEF IdleFires
      <3>2. leaked \in 0 .. MaxLeaked /\ idleTimer \in BOOLEAN /\ pollTimer \in BOOLEAN
        BY DEF TypeOK
      <3>3. leaked' \in 0 .. MaxLeaked
        BY <3>1, <3>2, BoundAssumption
      <3>4. idleTimer' \in BOOLEAN /\ pollTimer' \in BOOLEAN
        BY <3>1, <3>2
      <3>. QED BY <3>3, <3>4
    <2>. QED BY <1>2, <2>1, <2>2 DEF IdleFires, TypeOK
  <1>3. CASE IdleFindsDead
    <2>1. TearDown({}) /\ StopIdleAndPoll
      BY <1>3 DEF IdleFindsDead, HandleClose
    <2>2. leaked' \in 0 .. MaxLeaked
      BY <1>3, BoundAssumption DEF IdleFindsDead, TypeOK
    <2>. QED BY <1>3, <2>1, <2>2, TearDownType DEF IdleFindsDead, StopIdleAndPoll, TypeOK
  <1>. QED BY <1>1, <1>2, <1>3

LEMMA OfRootType ==
  ASSUME TypeOK, OfRoot
  PROVE  TypeOK'
  <1>. USE DEF connVars, timerVars, attemptVars
  <1>1. CASE FirstConnect
    BY <1>1, ConnectType DEF FirstConnect, TypeOK
  <1>2. CASE StopMonitor
    BY <1>2 DEF StopMonitor, TypeOK
  <1>3. CASE StartMonitor
    BY <1>3, ConnectType DEF StartMonitor, TypeOK
  <1>4. CASE Disconnect
    BY <1>4 DEF Disconnect, StopIdleAndPoll, TypeOK, States
  <1>5. CASE LogoutSettles
    BY <1>5 DEF LogoutSettles, TypeOK, States, Links
  <1>. QED BY <1>1, <1>2, <1>3, <1>4, <1>5 DEF OfRoot

\* Type correctness; in particular backoffMs stays between its two bounds and
\* a promise is only ever awaited on a flow that exists.
THEOREM TypeCorrect == Spec => []TypeOK
  <1>1. TypeOK /\ [Next]_vars => TypeOK'
    <2>. SUFFICES ASSUME TypeOK, [Next]_vars PROVE TypeOK'
      OBVIOUS
    <2>1. CASE UNCHANGED vars
      BY <2>1 DEF vars, TypeOK
    <2>2. CASE Next
      BY <2>2, OfFlowType, OfOpType, TimerType, OfRootType DEF Next
    <2>. QED BY <2>1, <2>2
  <1>. QED BY <1>1, TypeInit, PTL DEF Spec

-----------------------------------------------------------------------------
(* The inductive invariant.                                                *)

\* How the life of a client constrains its state: nothing has happened to a
\* new one, one in use reconnects, one that is closing will not.
LifeInv ==
  /\ life = "new" =>
       /\ state = "disconnected" /\ flow = NoFlow /\ ~reconnectTimer
       /\ \A f \in Flows : ~Alive(f) /\ attempt[f] = "none"
  /\ life \in {"new", "booting", "live"} => autoReconnect
  /\ life \in {"closing", "closed"} => ~autoReconnect /\ ~reconnectTimer

IInv == TypeOK /\ LifeInv /\ FlowsAreHeard /\ NeverStranded /\ DisconnectIsFinal

\* The part of the invariant about flows survives a TearDown.
LEMMA TearDownHeard ==
  ASSUME TypeOK, FlowsAreHeard, NEW S, TearDown(S)
  PROVE  FlowsAreHeard'
  BY FlowAssumption DEF TearDown, FlowsAreHeard, Alive, TypeOK

\* A TearDown while the client is in use leaves it with a reconnect timer.
LEMMA TearDownSchedules ==
  ASSUME TypeOK, NEW S, TearDown(S), autoReconnect,
         state = "disconnected" => reconnectTimer
  PROVE  state' = "disconnected" /\ reconnectTimer'
  BY DEF TearDown, ScheduleReconnect

\* Whatever else a step does, if all it does to the connection is a TearDown,
\* the invariant is preserved.
LEMMA TearDownStep ==
  ASSUME IInv, TypeOK', NEW S \in SUBSET Flows, TearDown(S),
         S = {} \/ \E f \in S : Alive(f),
         UNCHANGED << autoReconnect, attempt, life, fault >>
  PROVE  IInv'
  <1>1. FlowsAreHeard'
    BY TearDownHeard DEF IInv
  <1>2. NeverStranded'
    <2>1. InUse /\ fault = "none" => (state = "disconnected" => reconnectTimer) /\ autoReconnect
      BY DEF IInv, NeverStranded, Recovering, LifeInv, InUse
    <2>2. InUse /\ fault = "none" => state' = "disconnected" /\ reconnectTimer'
      BY <2>1, TearDownSchedules DEF IInv
    <2>. QED BY <2>2 DEF NeverStranded, Recovering, InUse
  <1>3. LifeInv'
    <2>1. CASE life = "new"
      <3>1. S = {} /\ flow = NoFlow /\ state = "disconnected"
        BY <2>1 DEF IInv, LifeInv
      <3>2. \A f \in Flows : link'[f] = link[f]
        BY <3>1, FlowAssumption DEF TearDown
      <3>. QED BY <2>1, <3>1, <3>2 DEF TearDown, IInv, LifeInv, Alive
    <2>2. CASE life \in {"booting", "live"}
      BY <2>2 DEF IInv, LifeInv
    <2>3. CASE life \in {"closing", "closed"}
      BY <2>3 DEF IInv, LifeInv, TearDown, ScheduleReconnect
    <2>. QED BY <2>1, <2>2, <2>3 DEF IInv, TypeOK
  <1>4. DisconnectIsFinal'
    BY DEF IInv, DisconnectIsFinal, LifeInv, TearDown, ScheduleReconnect
  <1>. QED BY <1>1, <1>2, <1>3, <1>4 DEF IInv

\* A step that leaves the connection alone preserves the invariant.
LEMMA QuietStep ==
  ASSUME IInv, TypeOK',
         UNCHANGED << connVars, autoReconnect, attempt, life, fault >>
  PROVE  IInv'
  BY DEF IInv, LifeInv, FlowsAreHeard, NeverStranded, Recovering, InUse,
         DisconnectIsFinal, Alive, connVars

LEMMA OfOpInv ==
  ASSUME IInv, NEW o \in Ops, OfOp(o)
  PROVE  IInv'
  <1>1. TypeOK'
    BY OfOpType DEF IInv
  <1>2. /\ UNCHANGED << autoReconnect, attempt, life, fault >>
        /\ UNCHANGED connVars \/ TearDown({})
    BY DEF OfOp, DirectBegins, SwitchBegins, OpBegins, DirectSettles, LockGranted,
           LockRefused, WorkSettles, RestoreSettles, OpTimesOut, Settles, Continue,
           attemptVars, rootVars
  <1>. QED BY <1>1, <1>2, QuietStep, TearDownStep

\* The catch block of connect() preserves the invariant: it leaves a client in
\* use with a reconnect timer, or an 'error' event nobody heard.
LEMMA ConnectFailsStep ==
  ASSUME IInv, TypeOK', FlowsAreHeard', NEW f \in Flows, NEW STATE b, ConnectFails(f, b),
         life # "new", UNCHANGED << autoReconnect, flow, life >>
  PROVE  IInv'
  <1>1. state' = "error" /\ (life \in {"booting", "live"} /\ fault' = "none" => reconnectTimer')
    BY DEF IInv, LifeInv, ConnectFails, EmitError, ScheduleReconnect
  <1>2. life \in {"closing", "closed"} => reconnectTimer' = reconnectTimer
    BY DEF IInv, LifeInv, ConnectFails, ScheduleReconnect
  <1>3. NeverStranded'
    BY <1>1 DEF NeverStranded, Recovering, InUse
  <1>4. LifeInv' /\ DisconnectIsFinal'
    BY <1>1, <1>2 DEF IInv, LifeInv, DisconnectIsFinal
  <1>. QED BY <1>3, <1>4 DEF IInv

\* So does a step that changes links only, if it closes, opens and heals none.
LEMMA SameLives ==
  ASSUME IInv, TypeOK',
         UNCHANGED << state, flow, bound, autoReconnect, attempt, life, fault,
                      reconnectTimer >>,
         \A g \in Flows : (Alive(g) <=> Alive(g)')
                          /\ (link[g] = "failing" => link'[g] = "failing")
  PROVE  IInv'
  <1>1. FlowsAreHeard'
    BY DEF IInv, FlowsAreHeard, TypeOK
  <1>2. NeverStranded'
    BY DEF IInv, NeverStranded, Recovering, InUse, TypeOK
  <1>3. LifeInv' /\ DisconnectIsFinal'
    BY DEF IInv, LifeInv, DisconnectIsFinal
  <1>. QED BY <1>1, <1>2, <1>3 DEF IInv

\* What happens on one flow preserves the invariant.
LEMMA OfFlowInv ==
  ASSUME IInv, NEW f \in Flows, OfFlow(f)
  PROVE  IInv'
  <1>. USE DEF connVars, timerVars, attemptVars, rootVars
  <1>0. TypeOK'
    BY OfFlowType DEF IInv
  <1>1. CASE HandshakeDone(f)
    <2>1. life # "new" /\ flow' = flow /\ bound' = bound /\ life' = life
          /\ autoReconnect' = autoReconnect
      BY <1>1 DEF HandshakeDone, IInv, LifeInv
    <2>2. link' = [link EXCEPT ![f] = "up"] /\ link[f] = "dialing" /\ attempt[f] = "tls"
      BY <1>1 DEF HandshakeDone
    <2>3. FlowsAreHeard'
      BY <2>1, <2>2, FlowAssumption DEF IInv, FlowsAreHeard, Alive, TypeOK
    <2>4. CASE flow = NoFlow
      <3>1. ConnectFails(f, backoff)
        BY <1>1, <2>4 DEF HandshakeDone
      <3>. QED BY <1>0, <2>1, <2>3, <2>4, <3>1, ConnectFailsStep DEF IInv
    <2>5. CASE flow # NoFlow
      <3>1. state' = state /\ reconnectTimer' = reconnectTimer /\ fault' = fault
            /\ attempt' = [attempt EXCEPT ![f] = "select"]
        BY <1>1, <2>5 DEF HandshakeDone
      <3>2. attempt'[f] # "none"
        BY <3>1 DEF IInv, TypeOK
      <3>3. \A g \in bound : link[g] = "failing" => link'[g] = "failing"
        BY <2>2 DEF IInv, TypeOK
      <3>4. NeverStranded'
        BY <2>1, <3>1, <3>2, <3>3 DEF IInv, NeverStranded, Recovering, InUse
      <3>5. LifeInv' /\ DisconnectIsFinal'
        BY <2>1, <3>1 DEF IInv, LifeInv, DisconnectIsFinal
      <3>. QED BY <1>0, <2>3, <3>4, <3>5 DEF IInv
    <2>. QED BY <2>4, <2>5
  <1>2. CASE Connected(f)
    <2>1. life # "new" /\ flow' = flow /\ bound' = bound /\ life' = life
          /\ autoReconnect' = autoReconnect /\ link' = link
      BY <1>2 DEF Connected, IInv, LifeInv
    <2>2. FlowsAreHeard'
      BY <2>1 DEF IInv, FlowsAreHeard, Alive
    <2>3. CASE flow = NoFlow
      <3>1. ConnectFails(f, MinBackoff)
        BY <1>2, <2>3 DEF Connected
      <3>. QED BY <1>0, <2>1, <2>2, <2>3, <3>1, ConnectFailsStep DEF IInv
    <2>4. CASE flow # NoFlow
      <3>1. state' = "connected" /\ reconnectTimer' = reconnectTimer
        BY <1>2, <2>4 DEF Connected
      <3>. QED BY <1>0, <2>1, <2>2, <2>4, <3>1
           DEF IInv, NeverStranded, Recovering, LifeInv, DisconnectIsFinal
    <2>. QED BY <2>3, <2>4
  <1>3. CASE AttemptFails(f)
    <2>1. life # "new" /\ flow' = flow /\ bound' = bound /\ life' = life
          /\ autoReconnect' = autoReconnect /\ link' = link /\ ConnectFails(f, backoff)
      BY <1>3 DEF AttemptFails, IInv, LifeInv
    <2>2. FlowsAreHeard'
      BY <2>1 DEF IInv, FlowsAreHeard, Alive
    <2>. QED BY <1>0, <2>1, <2>2, ConnectFailsStep DEF IInv
  <1>4. CASE LinkBreaks(f)
    <2>1. UNCHANGED << state, flow, bound, autoReconnect, attempt, life, fault, reconnectTimer >>
      BY <1>4 DEF LinkBreaks
    <2>2. PICK l \in {"wedged", "dead"} : link[f] = "up" /\ link' = [link EXCEPT ![f] = l]
      BY <1>4 DEF LinkBreaks
    <2>3. \A g \in Flows : (Alive(g) <=> Alive(g)') /\ (link[g] = "failing" => link'[g] = "failing")
      BY <2>2 DEF IInv, TypeOK, Alive
    <2>. QED BY <1>0, <2>1, <2>3, FlowAssumption, SameLives DEF IInv
  <1>5. CASE FlowError(f)
    <2>1. UNCHANGED << flow, bound, autoReconnect, attempt, life, reconnectTimer >>
      BY <1>5 DEF FlowError
    <2>2. Alive(f) /\ link' = [link EXCEPT ![f] = "failing"] /\ f \in bound
          /\ state' = "error"
      BY <1>5 DEF FlowError, IInv, FlowsAreHeard
    <2>3. \A g \in Flows : (Alive(g) <=> Alive(g)')
      BY <2>2 DEF IInv, TypeOK, Alive
    <2>4. FlowsAreHeard'
      BY <2>1, <2>3 DEF IInv, FlowsAreHeard, TypeOK
    <2>5. link'[f] = "failing" /\ f \in bound'
      BY <2>1, <2>2 DEF IInv, TypeOK
    <2>6. NeverStranded'
      BY <2>2, <2>5 DEF NeverStranded, Recovering
    <2>7. LifeInv' /\ DisconnectIsFinal'
      BY <2>1, <2>2 DEF IInv, LifeInv, DisconnectIsFinal
    <2>. QED BY <1>0, <2>4, <2>6, <2>7 DEF IInv
  <1>6. CASE FlowClose(f)
    <2>1. Alive(f) /\ f \in bound
      BY <1>6 DEF FlowClose, IInv, FlowsAreHeard
    <2>2. TearDown({f}) /\ UNCHANGED << autoReconnect, attempt, life, fault >>
      BY <1>6, <2>1 DEF FlowClose, HandleClose
    <2>. QED BY <1>0, <2>1, <2>2, TearDownStep
  <1>7. CASE NoopAnswered(f)
    BY <1>0, <1>7, QuietStep DEF NoopAnswered
  <1>8. CASE NoopFails(f)
    <2>1. TearDown({}) /\ UNCHANGED << autoReconnect, attempt, life, fault >>
      BY <1>8 DEF NoopFails, HandleClose
    <2>. QED BY <1>0, <2>1, TearDownStep
  <1>. QED BY <1>1, <1>2, <1>3, <1>4, <1>5, <1>6, <1>7, <1>8 DEF OfFlow

\* A connect() call, the timer's or the root's, preserves the invariant: the
\* flow it creates carries the listeners and the call is under way.
LEMMA ConnectStep ==
  ASSUME IInv, TypeOK', NEW isAwaited \in BOOLEAN, Connect(isAwaited),
         fault' = fault, life \in {"new", "booting", "live"}, life' \in {"booting", "live"}
  PROVE  IInv'
  <1>1. CASE state \in {"connecting", "connected"}
    BY <1>1 DEF Connect, attemptVars, IInv, LifeInv, FlowsAreHeard, NeverStranded,
                Recovering, InUse, DisconnectIsFinal, Alive
  <1>2. CASE state \notin {"connecting", "connected"}
    <2>1. PICK f \in Flows :
            /\ state' = "connecting" /\ autoReconnect' = TRUE
            /\ flow' = f /\ bound' = bound \cup {f}
            /\ link' = [link EXCEPT ![f] = "dialing"]
            /\ attempt' = [attempt EXCEPT ![f] = "tls"]
      BY <1>2 DEF Connect
    <2>2. attempt'[f] # "none" /\ \A g \in Flows : Alive(g)' => g \in bound'
      BY <2>1 DEF IInv, TypeOK, FlowsAreHeard, Alive
    <2>3. Alive(f)'
      BY <2>1 DEF IInv, TypeOK, Alive
    <2>. QED BY <2>1, <2>2, <2>3
         DEF IInv, LifeInv, FlowsAreHeard, NeverStranded, Recovering, DisconnectIsFinal
  <1>. QED BY <1>1, <1>2

LEMMA TimerInv ==
  ASSUME IInv, ReconnectFires \/ IdleFires \/ IdleFindsDead
  PROVE  IInv'
  <1>. USE DEF connVars, timerVars, attemptVars, rootVars
  <1>0. TypeOK'
    BY TimerType DEF IInv
  <1>1. CASE ReconnectFires
    <2>1. life \in {"booting", "live"}
      BY <1>1 DEF ReconnectFires, IInv, LifeInv, TypeOK
    <2>. QED BY <1>0, <1>1, <2>1, ConnectStep DEF ReconnectFires
  <1>2. CASE IdleFires
    BY <1>0, <1>2, QuietStep DEF IdleFires
  <1>3. CASE IdleFindsDead
    <2>1. TearDown({}) /\ UNCHANGED << autoReconnect, attempt, life, fault >>
      BY <1>3 DEF IdleFindsDead, HandleClose
    <2>. QED BY <1>0, <2>1, TearDownStep
  <1>. QED BY <1>1, <1>2, <1>3

LEMMA OfRootInv ==
  ASSUME IInv, OfRoot
  PROVE  IInv'
  <1>. USE DEF connVars, timerVars, attemptVars
  <1>0. TypeOK'
    BY OfRootType DEF IInv
  <1>1. CASE FirstConnect
    BY <1>0, <1>1, ConnectStep DEF FirstConnect
  <1>2. CASE StopMonitor
    BY <1>0, <1>2, QuietStep DEF StopMonitor
  <1>3. CASE StartMonitor
    BY <1>0, <1>3, ConnectStep DEF StartMonitor
  <1>4. CASE Disconnect
    <2>1. UNCHANGED << flow, bound, link >> /\ life' \in {"closing", "closed"}
          /\ ~autoReconnect' /\ ~reconnectTimer'
          /\ (life' = "closed" => flow = NoFlow /\ state' = "disconnected")
      BY <1>4 DEF Disconnect
    <2>2. FlowsAreHeard'
      BY <2>1 DEF IInv, FlowsAreHeard, Alive
    <2>. QED BY <1>0, <2>1, <2>2
         DEF IInv, LifeInv, NeverStranded, InUse, DisconnectIsFinal
  <1>5. CASE LogoutSettles
    <2>1. life = "closing" /\ life' = "closed" /\ flow' = NoFlow /\ state' = "disconnected"
          /\ UNCHANGED << autoReconnect, reconnectTimer >>
      BY <1>5 DEF LogoutSettles
    <2>2. FlowsAreHeard'
      BY <1>5, FlowAssumption DEF LogoutSettles, IInv, FlowsAreHeard, Alive, TypeOK
    <2>. QED BY <1>0, <2>1, <2>2
         DEF IInv, LifeInv, NeverStranded, InUse, DisconnectIsFinal
  <1>. QED BY <1>1, <1>2, <1>3, <1>4, <1>5 DEF OfRoot

LEMMA InvInit == Init => IInv
  <1>. SUFFICES ASSUME Init PROVE IInv
    OBVIOUS
  <1>1. \A f \in Flows : ~Alive(f)
    BY DEF Init, Alive
  <1>. QED BY <1>1, TypeInit
       DEF Init, IInv, LifeInv, FlowsAreHeard, NeverStranded, InUse, DisconnectIsFinal

LEMMA InvStep == IInv /\ [Next]_vars => IInv'
  <1>. SUFFICES ASSUME IInv, [Next]_vars PROVE IInv'
    OBVIOUS
  <1>1. CASE UNCHANGED vars
    <2>1. TypeOK'
      BY <1>1 DEF IInv, vars, TypeOK
    <2>. QED BY <1>1, <2>1, QuietStep DEF vars, connVars
  <1>2. CASE Next
    BY <1>2, OfFlowInv, OfOpInv, TimerInv, OfRootInv DEF Next
  <1>. QED BY <1>1, <1>2

\* A client in use is connected, or has a connect() call, a reconnect timer or
\* a 'close' event to come, in every reachable state of any instance.
THEOREM NeverStrandedAlways == Spec => []NeverStranded
  <1>1. IInv => NeverStranded
    BY DEF IInv
  <1>. QED BY <1>1, InvInit, InvStep, PTL DEF Spec

\* At any time the current flow is open and heard, and every flow that nobody
\* listens to is closed.
THEOREM FlowsAlwaysHeard == Spec => []FlowsAreHeard
  <1>1. IInv => FlowsAreHeard
    BY DEF IInv
  <1>. QED BY <1>1, InvInit, InvStep, PTL DEF Spec

\* Once disconnect() has finished, no flow and no reconnect timer ever returns.
THEOREM DisconnectStaysFinal == Spec => []DisconnectIsFinal
  <1>1. IInv => DisconnectIsFinal
    BY DEF IInv
  <1>. QED BY <1>1, InvInit, InvStep, PTL DEF Spec
=============================================================================
