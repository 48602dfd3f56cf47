---------------------------- MODULE MailboxLock ----------------------------
(***************************************************************************)
(* Which mailbox the shared connection has selected: withMailboxLock and   *)
(* withMailboxSwitch (src/imap/client.ts:218-246, 289-334) over imapflow's *)
(* lock queue.                                                             *)
(*                                                                         *)
(* Three queues order what happens.  Callers wait for the lock in `lockQ'; *)
(* the lock's holder selects its mailbox and works on it; commands go to   *)
(* the server one at a time through `wire'.  The restore of INBOX at the   *)
(* end of withMailboxSwitch is sent after the lock has been released.      *)
(*                                                                         *)
(* The connection's own life, timeouts included, is in ImapClient: here it *)
(* is lost and comes back.                                                 *)
(***************************************************************************)
EXTENDS Sequences, Naturals

CONSTANTS
  Ops,      \* concurrent callers
  Nobody,   \* the lock is free
  Boxes,    \* mailbox paths callers ask for
  INBOX,    \* one of them
  NoBox,    \* no mailbox is selected
  Missing   \* paths that do not exist on the server

ASSUME OpsAssumption == Nobody \notin Ops
ASSUME BoxAssumption ==
  /\ INBOX \in Boxes
  /\ NoBox \notin Boxes
  /\ Missing \subseteq Boxes \ {INBOX}

VARIABLES
  up,         \* the connection is there
  mailbox,    \* the selected mailbox
  keepalive,  \* the IDLE or poll timer is armed
  lockQ,      \* imapflow's queue of lock requests
  holder,     \* whose lock request is granted or being granted
  wire,       \* commands the server has yet to answer
  pc,         \* how far each caller has come
  target,     \* the mailbox it asked for
  refused     \* history: a SELECT was refused since INBOX was last restored

vars == << up, mailbox, keepalive, lockQ, holder, wire, pc, target, refused >>

Phases == {"idle", "waiting", "selecting", "working", "restoring"}
Commands == [cmd : {"select", "work", "restore"}, by : Ops]

TypeOK ==
  /\ up \in BOOLEAN
  /\ mailbox \in Boxes \cup {NoBox}
  /\ keepalive \in BOOLEAN
  /\ lockQ \in Seq(Ops)
  /\ holder \in Ops \cup {Nobody}
  /\ wire \in Seq(Commands)
  /\ pc \in [Ops -> Phases]
  /\ target \in [Ops -> Boxes]
  /\ refused \in BOOLEAN

\* A client that has just connected (connect() selects INBOX).
Init ==
  /\ up = TRUE
  /\ mailbox = INBOX
  /\ keepalive = TRUE
  /\ lockQ = << >>
  /\ holder = Nobody
  /\ wire = << >>
  /\ pc = [o \in Ops |-> "idle"]
  /\ target = [o \in Ops |-> INBOX]
  /\ refused = FALSE

-----------------------------------------------------------------------------
Command(name, o) == [cmd |-> name, by |-> o]

\* Faulty variant: INBOX is taken to be selected whenever the lock is free.
NextLock_AssumesInbox(q, w, after, box, p) ==
  IF q = << >>
  THEN /\ holder' = Nobody
       /\ lockQ' = q
       /\ wire' = w \o after
       /\ pc' = p
  ELSE LET o == Head(q) IN
       /\ holder' = o
       /\ lockQ' = Tail(q)
       /\ IF target'[o] \in {box, INBOX}
            THEN /\ wire' = w \o after \o << Command("work", o) >>
                 /\ pc' = [p EXCEPT ![o] = "working"]
            ELSE /\ wire' = w \o << Command("select", o) >> \o after
                 /\ pc' = [p EXCEPT ![o] = "selecting"]

\* processLocks of imapflow: hand the lock to the head of q, given that w is
\* on the wire, `box' is selected and p are the phases.  A mailbox that is
\* selected already is granted without a SELECT, and its holder's command is
\* issued in a later microtask; a SELECT is issued at once.  The caller that
\* released the lock sends `after' in between.
NextLock(q, w, after, box, p) ==
  IF q = << >>
  THEN /\ holder' = Nobody
       /\ lockQ' = q
       /\ wire' = w \o after
       /\ pc' = p
  ELSE LET o == Head(q) IN
       /\ holder' = o
       /\ lockQ' = Tail(q)
       /\ IF box = target'[o]
            THEN /\ wire' = w \o after \o << Command("work", o) >>
                 /\ pc' = [p EXCEPT ![o] = "working"]
            ELSE /\ wire' = w \o << Command("select", o) >> \o after
                 /\ pc' = [p EXCEPT ![o] = "selecting"]

\* A caller enters withMailboxLock (INBOX) or withMailboxSwitch (any other
\* path), which first stops the keepalive.
Request(o, b) ==
  /\ up /\ pc[o] = "idle"
  /\ target' = [target EXCEPT ![o] = b]
  /\ keepalive' = (keepalive /\ b = INBOX)
  /\ IF holder = Nobody
       THEN NextLock(<< o >>, wire, << >>, mailbox, pc)
       ELSE /\ lockQ' = Append(lockQ, o)
            /\ pc' = [pc EXCEPT ![o] = "waiting"]
            /\ UNCHANGED << holder, wire >>
  /\ UNCHANGED << up, mailbox, refused >>

\* The server answers the command at the head of the wire.
Answers(name, o) == wire # << >> /\ Head(wire) = Command(name, o)

\* Faulty variant: `return this.guardedOp(...)' without its await, so that the
\* finally block runs, and releases the lock, as soon as the work is issued.
SelectDone_NoAwait(o) ==
  /\ Answers("select", o)
  /\ target[o] \notin Missing
  /\ mailbox' = target[o]
  /\ target' = target
  /\ NextLock(lockQ, Append(Tail(wire), Command("work", o)),
              IF target[o] = INBOX THEN << >> ELSE << Command("restore", o) >>,
              target[o], [pc EXCEPT ![o] = "working"])
  /\ UNCHANGED << up, keepalive, refused >>

\* The lock's SELECT succeeds: the holder issues its command.
SelectDone(o) ==
  /\ Answers("select", o)
  /\ target[o] \notin Missing
  /\ mailbox' = target[o]
  /\ pc' = [pc EXCEPT ![o] = "working"]
  /\ wire' = Append(Tail(wire), Command("work", o))
  /\ UNCHANGED << up, keepalive, lockQ, holder, target, refused >>

\* Faulty variant: the queue is not looked at after a failed SELECT.
SelectRefused_KeepsLock(o) ==
  /\ Answers("select", o)
  /\ target[o] \in Missing
  /\ mailbox' = NoBox
  /\ refused' = TRUE
  /\ wire' = Tail(wire)
  /\ pc' = [pc EXCEPT ![o] = "idle"]
  /\ UNCHANGED << up, keepalive, lockQ, holder, target >>

\* It fails: nothing is selected, the request is rejected, and the exception
\* leaves withMailboxSwitch before its try block: neither INBOX nor the
\* keepalive comes back.
SelectRefused(o) ==
  /\ Answers("select", o)
  /\ target[o] \in Missing
  /\ mailbox' = NoBox
  /\ refused' = TRUE
  /\ target' = target
  /\ NextLock(lockQ, Tail(wire), << >>, NoBox, [pc EXCEPT ![o] = "idle"])
  /\ UNCHANGED << up, keepalive >>

\* Faulty variant: the finally block only releases the lock.
WorkDone_NoRestore(o) ==
  /\ Answers("work", o)
  /\ target' = target
  /\ NextLock(lockQ, Tail(wire), << >>, mailbox, [pc EXCEPT ![o] = "idle"])
  /\ UNCHANGED << up, mailbox, keepalive, refused >>

\* The holder's command is answered, with a result or an error: the finally
\* block releases the lock and, outside INBOX, restores INBOX.
WorkDone(o) ==
  /\ Answers("work", o)
  /\ target' = target
  /\ IF target[o] = INBOX
       THEN NextLock(lockQ, Tail(wire), << >>, mailbox, [pc EXCEPT ![o] = "idle"])
       ELSE NextLock(lockQ, Tail(wire), << Command("restore", o) >>, mailbox,
                     [pc EXCEPT ![o] = "restoring"])
  /\ UNCHANGED << up, mailbox, keepalive, refused >>

\* mailboxOpen('INBOX') is answered: the keepalive restarts.
RestoreDone(o) ==
  /\ Answers("restore", o)
  /\ mailbox' = INBOX
  /\ keepalive' = TRUE
  /\ refused' = FALSE
  /\ pc' = [pc EXCEPT ![o] = "idle"]
  /\ wire' = Tail(wire)
  /\ UNCHANGED << up, lockQ, holder, target >>

\* The connection is lost, or torn down by a timeout: everything in flight is
\* rejected.
ConnectionLost ==
  /\ up /\ up' = FALSE
  /\ mailbox' = NoBox
  /\ keepalive' = FALSE
  /\ refused' = FALSE
  /\ lockQ' = << >>
  /\ holder' = Nobody
  /\ wire' = << >>
  /\ pc' = [o \in Ops |-> "idle"]
  /\ UNCHANGED target

Reconnected ==
  /\ ~up /\ up' = TRUE
  /\ mailbox' = INBOX
  /\ keepalive' = TRUE
  /\ UNCHANGED << lockQ, holder, wire, pc, target, refused >>

Serve(o) == SelectDone(o) \/ SelectRefused(o) \/ WorkDone(o) \/ RestoreDone(o)

Next ==
  \/ \E o \in Ops, b \in Boxes : Request(o, b)
  \/ \E o \in Ops : Serve(o)
  \/ ConnectionLost
  \/ Reconnected

Spec == Init /\ [][Next]_vars

\* The server answers every command it is sent.
FairSpec == Spec /\ WF_vars(\E o \in Ops : Serve(o))

-----------------------------------------------------------------------------
(* Properties.                                                             *)

AllIdle == \A o \in Ops : pc[o] = "idle"

\* The lock serializes (withMailboxLock, withMailboxSwitch): whoever has a
\* SELECT or its command with the server holds the lock, and a lock that is held
\* has its holder at work, so that no release is early, doubled or forgotten.
AtWork(o) == pc[o] \in {"selecting", "working"}
OneAtWork == \A o \in Ops : AtWork(o) <=> holder = o

\* However restores and other callers' work interleave, whether the work
\* succeeded or failed, the connection comes back to INBOX and listens there
\* (withMailboxSwitch's finally block), unless a SELECT was refused since INBOX
\* was last restored.
ReturnsToInbox == up /\ AllIdle /\ ~refused => mailbox = INBOX /\ keepalive

\* The same without the exception, as INV-001 and FM-001 of the repository state
\* it.  The code does not keep it, and no run asks it: TLC refutes it by a SELECT
\* of the lock that is refused.
InboxAfterAnyOutcome == up /\ AllIdle => mailbox = INBOX /\ keepalive

\* The command of an INBOX operation (the fetch of new mail, a move out of
\* INBOX) is never executed on another mailbox, whoever else is restoring.
InboxWorkOnInbox ==
  [][\A o \in Ops : WorkDone(o) /\ target[o] = INBOX => mailbox = INBOX]_vars

\* The lock serializes: the command of any operation is executed on the
\* mailbox the operation asked for.
WorkOnItsMailbox ==
  [][\A o \in Ops : WorkDone(o) => mailbox = target[o]]_vars

\* Every operation comes to an end: the lock is not lost on any path.
OperationsEnd == \A o \in Ops : pc[o] # "idle" ~> pc[o] = "idle"
=============================================================================
