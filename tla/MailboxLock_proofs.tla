------------------------- MODULE MailboxLock_proofs -------------------------
(***************************************************************************)
(* Work on INBOX runs on INBOX, and INBOX is restored, for any number of   *)
(* callers and mailboxes.                                                  *)
(***************************************************************************)
EXTENDS MailboxLock, SequenceTheorems, TLAPS

\* Each command on the wire is the one its caller's phase says, and a caller
\* has at most one there.
WireInv(w, p) ==
  /\ \A i \in 1 .. Len(w) :
       /\ w[i].cmd = "select" => p[w[i].by] = "selecting"
       /\ w[i].cmd = "work" => p[w[i].by] = "working"
       /\ w[i].cmd = "restore" => p[w[i].by] = "restoring"
  /\ \A i, j \in 1 .. Len(w) : w[i].by = w[j].by => i = j

\* Whoever is in the lock's queue is waiting there, once.
QueueInv(q, p) ==
  /\ \A i \in 1 .. Len(q) : p[q[i]] = "waiting"
  /\ \A i, j \in 1 .. Len(q) : q[i] = q[j] => i = j

\* Only the holder of the lock has a command other than a restore.
HolderAlone ==
  \A i \in 1 .. Len(wire) : wire[i].cmd # "restore" => wire[i].by = holder

InboxSelected ==
  \A i \in 1 .. Len(wire) :
    wire[i].cmd = "work" /\ target[wire[i].by] = INBOX => mailbox = INBOX

IInv ==
  /\ TypeOK
  /\ WireInv(wire, pc)
  /\ QueueInv(lockQ, pc)
  /\ HolderAlone
  /\ InboxSelected

OnlyRestores(w) == \A i \in 1 .. Len(w) : w[i].cmd = "restore"

\* Inserting an element in the middle, and at the end, of a sequence.
LEMMA Inserted ==
  ASSUME NEW S, NEW w \in Seq(S), NEW after \in Seq(S), NEW c \in S
  PROVE  /\ w \o << c >> \o after \in Seq(S)
         /\ Len(w \o << c >> \o after) = Len(w) + Len(after) + 1
         /\ (w \o << c >> \o after)[Len(w) + 1] = c
         /\ \A i \in 1 .. Len(w) : (w \o << c >> \o after)[i] = (w \o after)[i]
         /\ \A i \in Len(w) + 1 .. Len(w) + Len(after) :
              (w \o << c >> \o after)[i + 1] = (w \o after)[i]
  <1> DEFINE v == w \o << c >>
  <1>1. v \in Seq(S) /\ Len(v) = Len(w) + 1 /\ v[Len(w) + 1] = c
        /\ \A i \in 1 .. Len(w) : v[i] = w[i]
    OBVIOUS
  <1>2. /\ \A i \in 1 .. Len(w) : (w \o after)[i] = w[i]
        /\ \A i \in Len(w) + 1 .. Len(w) + Len(after) : (w \o after)[i] = after[i - Len(w)]
    OBVIOUS
  <1> HIDE DEF v
  <1>3. v \o after \in Seq(S) /\ Len(v \o after) = Len(v) + Len(after)
        /\ \A i \in 1 .. Len(v) : (v \o after)[i] = v[i]
    BY <1>1
  <1>4. \A i \in Len(w) + 1 .. Len(w) + Len(after) : (v \o after)[i + 1] = after[i - Len(w)]
    BY <1>1
  <1>5. Len(w) \in Nat /\ Len(after) \in Nat
    OBVIOUS
  <1>6. (v \o after)[Len(w) + 1] = c /\ \A i \in 1 .. Len(w) : (v \o after)[i] = (w \o after)[i]
    BY <1>1, <1>2, <1>3, <1>5
  <1>7. \A i \in Len(w) + 1 .. Len(w) + Len(after) : (v \o after)[i + 1] = (w \o after)[i]
    BY <1>2, <1>4
  <1>. QED BY <1>1, <1>3, <1>5, <1>6, <1>7 DEF v

\* The caller at the head of the queue q is given the lock and its command c
\* joins the restores r at position k: the wire becomes W, the phases P.
Granted(q, r, p, c, k, W, P) ==
  /\ q \in Seq(Ops) /\ q # << >> /\ QueueInv(q, p)
  /\ r \in Seq(Commands) /\ OnlyRestores(r) /\ WireInv(r, p)
  /\ p \in [Ops -> Phases]
  /\ c \in Commands /\ c.by = Head(q)
  /\ \/ c.cmd = "select" /\ P = [p EXCEPT ![c.by] = "selecting"]
     \/ c.cmd = "work" /\ P = [p EXCEPT ![c.by] = "working"]
  /\ k \in 0 .. Len(r) /\ Len(W) = Len(r) + 1 /\ W[k + 1] = c
  /\ \A i \in 1 .. k : W[i] = r[i]
  /\ \A i \in k + 1 .. Len(r) : W[i + 1] = r[i]

LEMMA GrantedInv ==
  ASSUME NEW q, NEW r, NEW p, NEW c, NEW k, NEW W, NEW P, Granted(q, r, p, c, k, W, P)
  PROVE  /\ P \in [Ops -> Phases]
         /\ WireInv(W, P) /\ QueueInv(Tail(q), P)
         /\ \A i \in 1 .. Len(W) : W[i].cmd # "restore" => W[i] = c
  <1>0. /\ q \in Seq(Ops) /\ q # << >> /\ QueueInv(q, p)
        /\ r \in Seq(Commands) /\ OnlyRestores(r) /\ WireInv(r, p)
        /\ p \in [Ops -> Phases] /\ c \in Commands /\ c.by = Head(q)
        /\ \/ c.cmd = "select" /\ P = [p EXCEPT ![c.by] = "selecting"]
           \/ c.cmd = "work" /\ P = [p EXCEPT ![c.by] = "working"]
        /\ k \in Nat /\ k <= Len(r) /\ Len(W) = Len(r) + 1 /\ W[k + 1] = c /\ Len(r) \in Nat
        /\ \A i \in 1 .. k : W[i] = r[i]
        /\ \A i \in k + 1 .. Len(r) : W[i + 1] = r[i]
    BY DEF Granted
  <1> DEFINE phase == IF c.cmd = "select" THEN "selecting" ELSE "working"
  <1>1. P = [p EXCEPT ![c.by] = phase] /\ c.cmd \in {"select", "work"}
    BY <1>0
  <1>2. c.by \in Ops /\ Tail(q) \in Seq(Ops) /\ p[c.by] = "waiting"
        /\ \A i \in 1 .. Len(Tail(q)) : i + 1 \in 1 .. Len(q) /\ Tail(q)[i] = q[i + 1]
                                        /\ Tail(q)[i] # c.by /\ Tail(q)[i] \in Ops
    BY <1>0 DEF QueueInv
  <1>3. P \in [Ops -> Phases] /\ P[c.by] = phase /\ \A o \in Ops \ {c.by} : P[o] = p[o]
    BY <1>0, <1>1, <1>2 DEF Phases
  <1>4. QueueInv(Tail(q), P)
    <2>1. \A i \in 1 .. Len(Tail(q)) : P[Tail(q)[i]] = "waiting"
      BY <1>0, <1>2, <1>3 DEF QueueInv
    <2>2. \A i, j \in 1 .. Len(Tail(q)) : Tail(q)[i] = Tail(q)[j] => i = j
      BY <1>0, <1>2 DEF QueueInv
    <2>. QED BY <2>1, <2>2 DEF QueueInv
  <1>5. ASSUME NEW i \in 1 .. Len(r)
        PROVE  r[i].by # c.by /\ r[i].cmd = "restore" /\ P[r[i].by] = "restoring"
    <2>1. r[i].by \in Ops
      <3>1. r[i] \in Commands
        BY <1>0
      <3>. QED BY <3>1 DEF Commands
    <2>2. r[i].cmd = "restore" /\ p[r[i].by] = "restoring"
      BY <1>0 DEF OnlyRestores, WireInv
    <2>. QED BY <1>2, <1>3, <2>1, <2>2
  <1>6. ASSUME NEW i \in 1 .. Len(W), W[i] # c
        PROVE  \E m \in 1 .. Len(r) : W[i] = r[m] /\ i = (IF m <= k THEN m ELSE m + 1)
    <2>1. CASE i <= k
      <3>1. i \in 1 .. k /\ i \in 1 .. Len(r)
        BY <1>0, <2>1
      <3>. QED BY <1>0, <2>1, <3>1
    <2>2. CASE i > k
      <3>1. i - 1 \in k + 1 .. Len(r) /\ i - 1 \in 1 .. Len(r) /\ (i - 1) + 1 = i /\ ~(i - 1 <= k)
        BY <1>0, <1>6, <2>2
      <3>. QED BY <1>0, <3>1
    <2>. QED BY <1>0, <2>1, <2>2
  <1>7. \A i \in 1 .. Len(W) : W[i].cmd # "restore" => W[i] = c
    BY <1>5, <1>6
  <1>8. ASSUME NEW i \in 1 .. Len(W), NEW j \in 1 .. Len(W), W[i].by = W[j].by
        PROVE  i = j
    <2>1. \A n \in 1 .. Len(W) : W[n].by = c.by => n = k + 1
      <3>. SUFFICES ASSUME NEW n \in 1 .. Len(W), W[n].by = c.by, n # k + 1 PROVE FALSE
        OBVIOUS
      <3>1. CASE n <= k
        <4>1. n \in 1 .. k /\ n \in 1 .. Len(r)
          BY <1>0, <3>1
        <4>. QED BY <1>0, <1>5, <4>1
      <3>2. CASE n > k
        <4>1. n - 1 \in k + 1 .. Len(r) /\ n - 1 \in 1 .. Len(r) /\ (n - 1) + 1 = n
          BY <1>0, <3>2
        <4>2. W[(n - 1) + 1] = r[n - 1]
          BY <1>0, <4>1
        <4>. QED BY <1>5, <4>1, <4>2
      <3>. QED BY <1>0, <3>1, <3>2
    <2>2. CASE W[i].by = c.by
      BY <1>8, <2>1, <2>2
    <2>3. CASE W[i].by # c.by
      <3>1. PICK m \in 1 .. Len(r) : W[i] = r[m] /\ i = (IF m <= k THEN m ELSE m + 1)
        BY <1>6, <2>3
      <3>2. PICK n \in 1 .. Len(r) : W[j] = r[n] /\ j = (IF n <= k THEN n ELSE n + 1)
        BY <1>6, <1>8, <2>3
      <3>3. \A x, y \in 1 .. Len(r) : r[x].by = r[y].by => x = y
        BY <1>0 DEF WireInv
      <3>4. m = n
        BY <1>8, <3>1, <3>2, <3>3
      <3>. QED BY <3>1, <3>2, <3>4
    <2>. QED BY <2>2, <2>3
  <1>9. ASSUME NEW i \in 1 .. Len(W)
        PROVE  /\ W[i].cmd = "select" => P[W[i].by] = "selecting"
               /\ W[i].cmd = "work" => P[W[i].by] = "working"
               /\ W[i].cmd = "restore" => P[W[i].by] = "restoring"
    <2>1. CASE W[i] = c
      BY <1>1, <1>3, <2>1
    <2>2. CASE W[i] # c
      BY <1>5, <1>6, <2>2
    <2>. QED BY <2>1, <2>2
  <1>. QED BY <1>3, <1>4, <1>7, <1>8, <1>9 DEF WireInv

\* The lock is handed on when only restores are on the wire.
HandedOn(q, w, after, box, p) ==
  /\ q \in Seq(Ops) /\ w \in Seq(Commands) /\ after \in Seq(Commands)
  /\ p \in [Ops -> Phases] /\ target' \in [Ops -> Boxes] /\ box = mailbox'
  /\ OnlyRestores(w \o after) /\ WireInv(w \o after, p) /\ QueueInv(q, p)
  /\ NextLock(q, w, after, box, p)

LEMMA NextLockInv ==
  ASSUME NEW STATE q, NEW STATE w, NEW STATE after, NEW STATE box, NEW STATE p,
         HandedOn(q, w, after, box, p)
  PROVE  /\ holder' \in Ops \cup {Nobody}
         /\ lockQ' \in Seq(Ops)
         /\ wire' \in Seq(Commands)
         /\ pc' \in [Ops -> Phases]
         /\ WireInv(wire', pc') /\ QueueInv(lockQ', pc') /\ HolderAlone' /\ InboxSelected'
  <1>0. /\ q \in Seq(Ops) /\ w \in Seq(Commands) /\ after \in Seq(Commands)
        /\ p \in [Ops -> Phases] /\ target' \in [Ops -> Boxes] /\ box = mailbox'
        /\ OnlyRestores(w \o after) /\ WireInv(w \o after, p) /\ QueueInv(q, p)
        /\ NextLock(q, w, after, box, p)
    BY DEF HandedOn
  <1> USE <1>0
  <1>1. w \o after \in Seq(Commands) /\ Len(w \o after) = Len(w) + Len(after)
        /\ Len(w) \in 0 .. Len(w \o after) /\ Len(w \o after) \in 0 .. Len(w \o after)
    OBVIOUS
  <1>2. CASE q = << >>
    <2>1. holder' = Nobody /\ lockQ' = q /\ wire' = w \o after /\ pc' = p
      BY <1>2 DEF NextLock
    <2>2. WireInv(wire', pc') /\ QueueInv(lockQ', pc') /\ OnlyRestores(wire')
      BY <2>1
    <2>. QED BY <1>1, <2>1, <2>2 DEF OnlyRestores, WireInv, QueueInv, HolderAlone, InboxSelected
  <1>3. CASE q # << >>
    <2>1. Head(q) \in Ops
      BY <1>3
    <2>3. CASE box = target'[Head(q)]
      <3>1. Command("work", Head(q)) \in Commands /\ Command("work", Head(q)).by = Head(q)
            /\ Command("work", Head(q)).cmd = "work"
        BY <2>1 DEF Command, Commands
      <3>2. /\ wire' = (w \o after) \o << Command("work", Head(q)) >>
            /\ holder' = Head(q) /\ lockQ' = Tail(q) /\ pc' = [p EXCEPT ![Head(q)] = "working"]
        BY <1>3, <2>3 DEF NextLock
      <3>3. /\ wire' \in Seq(Commands) /\ Len(wire') = Len(w \o after) + 1
            /\ wire'[Len(w \o after) + 1] = Command("work", Head(q))
            /\ \A i \in 1 .. Len(w \o after) : wire'[i] = (w \o after)[i]
            /\ \A i \in Len(w \o after) + 1 .. Len(w \o after) : wire'[i + 1] = (w \o after)[i]
        BY <1>1, <3>1, <3>2
      <3>4. Granted(q, w \o after, p, Command("work", Head(q)), Len(w \o after), wire', pc')
        BY <1>1, <1>3, <3>1, <3>2, <3>3 DEF Granted
      <3>5. /\ pc' \in [Ops -> Phases] /\ WireInv(wire', pc') /\ QueueInv(Tail(q), pc')
            /\ \A i \in 1 .. Len(wire') :
                 wire'[i].cmd # "restore" => wire'[i] = Command("work", Head(q))
        BY <3>4, GrantedInv
      <3>6. HolderAlone' /\ InboxSelected'
        BY <2>3, <3>1, <3>2, <3>5 DEF HolderAlone, InboxSelected
      <3>. QED BY <1>3, <2>1, <3>2, <3>3, <3>5, <3>6
    <2>4. CASE box # target'[Head(q)]
      <3>1. Command("select", Head(q)) \in Commands /\ Command("select", Head(q)).by = Head(q)
            /\ Command("select", Head(q)).cmd = "select"
        BY <2>1 DEF Command, Commands
      <3>2. /\ wire' = w \o << Command("select", Head(q)) >> \o after
            /\ holder' = Head(q) /\ lockQ' = Tail(q) /\ pc' = [p EXCEPT ![Head(q)] = "selecting"]
        BY <1>3, <2>4 DEF NextLock
      <3>3. /\ wire' \in Seq(Commands) /\ Len(wire') = Len(w \o after) + 1
            /\ wire'[Len(w) + 1] = Command("select", Head(q))
            /\ \A i \in 1 .. Len(w) : wire'[i] = (w \o after)[i]
            /\ \A i \in Len(w) + 1 .. Len(w \o after) : wire'[i + 1] = (w \o after)[i]
        BY <1>1, <3>1, <3>2, Inserted
      <3>4. Granted(q, w \o after, p, Command("select", Head(q)), Len(w), wire', pc')
        BY <1>1, <1>3, <3>1, <3>2, <3>3 DEF Granted
      <3>5. /\ pc' \in [Ops -> Phases] /\ WireInv(wire', pc') /\ QueueInv(Tail(q), pc')
            /\ \A i \in 1 .. Len(wire') :
                 wire'[i].cmd # "restore" => wire'[i] = Command("select", Head(q))
        BY <3>4, GrantedInv
      <3>6. HolderAlone' /\ InboxSelected'
        BY <3>1, <3>2, <3>5 DEF HolderAlone, InboxSelected
      <3>. QED BY <1>3, <2>1, <3>2, <3>3, <3>5, <3>6
    <2>. QED BY <2>1, <2>3, <2>4
  <1>. QED BY <1>2, <1>3

\* Once the holder's command at the head of the wire is answered, only
\* restores are left, and its caller may enter any phase.
LEMMA HolderAnswered ==
  ASSUME IInv, NEW o \in Ops, NEW name \in {"select", "work"}, Answers(name, o),
         NEW phase \in Phases
  PROVE  /\ Tail(wire) \in Seq(Commands)
         /\ OnlyRestores(Tail(wire))
         /\ [pc EXCEPT ![o] = phase] \in [Ops -> Phases]
         /\ WireInv(Tail(wire), [pc EXCEPT ![o] = phase])
         /\ QueueInv(lockQ, [pc EXCEPT ![o] = phase])
         /\ \A i \in 1 .. Len(Tail(wire)) : Tail(wire)[i].by # o
  <1>1. wire \in Seq(Commands) /\ Len(wire) > 0 /\ wire[1] = Command(name, o)
        /\ pc \in [Ops -> Phases] /\ lockQ \in Seq(Ops)
    BY DEF IInv, TypeOK, Answers
  <1>2. Tail(wire) \in Seq(Commands) /\ Len(Tail(wire)) = Len(wire) - 1
        /\ \A i \in 1 .. Len(Tail(wire)) :
             i + 1 \in 1 .. Len(wire) /\ i + 1 # 1 /\ Tail(wire)[i] = wire[i + 1]
    BY <1>1
  <1>3. wire[1].by = o /\ wire[1].cmd = name /\ 1 \in 1 .. Len(wire)
    BY <1>1 DEF Command
  <1>4. \A i \in 1 .. Len(wire) : i # 1 => wire[i].by # o /\ wire[i].by \in Ops
    <2>1. \A i \in 1 .. Len(wire) : wire[i].by \in Ops
      <3>1. \A i \in 1 .. Len(wire) : wire[i] \in Commands
        BY <1>1
      <3>. QED BY <3>1 DEF Commands
    <2>. QED BY <1>3, <2>1 DEF IInv, WireInv
  <1>5. \A i \in 1 .. Len(wire) : i # 1 => wire[i].cmd = "restore"
    BY <1>3, <1>4 DEF IInv, HolderAlone
  <1>6. pc[o] \in {"selecting", "working"}
    BY <1>3 DEF IInv, WireInv
  <1>7. QueueInv(lockQ, [pc EXCEPT ![o] = phase])
    <2>1. \A i \in 1 .. Len(lockQ) : lockQ[i] # o /\ lockQ[i] \in Ops
      BY <1>1, <1>6 DEF IInv, QueueInv
    <2>. QED BY <1>1, <2>1 DEF IInv, QueueInv
  <1>8. WireInv(Tail(wire), [pc EXCEPT ![o] = phase])
    <2>1. \A i, j \in 1 .. Len(Tail(wire)) : Tail(wire)[i].by = Tail(wire)[j].by => i = j
      BY <1>1, <1>2 DEF IInv, WireInv
    <2>2. \A i \in 1 .. Len(Tail(wire)) : Tail(wire)[i].cmd = "restore"
            /\ [pc EXCEPT ![o] = phase][Tail(wire)[i].by] = "restoring"
      BY <1>1, <1>2, <1>4, <1>5 DEF IInv, WireInv
    <2>. QED BY <2>1, <2>2 DEF WireInv
  <1>. QED BY <1>1, <1>2, <1>4, <1>5, <1>7, <1>8 DEF OnlyRestores

LEMMA RequestInv ==
  ASSUME IInv, NEW o \in Ops, NEW b \in Boxes, Request(o, b)
  PROVE  IInv'
  <1>1. /\ target' \in [Ops -> Boxes] /\ target' = [target EXCEPT ![o] = b]
        /\ up' = up /\ mailbox' = mailbox /\ keepalive' \in BOOLEAN /\ pc[o] = "idle"
        /\ refused' \in BOOLEAN
        /\ wire \in Seq(Commands) /\ lockQ \in Seq(Ops) /\ pc \in [Ops -> Phases]
    BY DEF Request, IInv, TypeOK
  <1>2. \A i \in 1 .. Len(wire) : wire[i] \in Commands /\ wire[i].by \in Ops
    <2>1. \A i \in 1 .. Len(wire) : wire[i] \in Commands
      BY <1>1
    <2>. QED BY <2>1 DEF Commands
  <1>3. \A i \in 1 .. Len(wire) : wire[i].by # o
    <2>1. \A i \in 1 .. Len(wire) : wire[i].cmd \in {"select", "work", "restore"}
      BY <1>2 DEF Commands
    <2>. QED BY <1>1, <2>1 DEF IInv, WireInv
  <1>4. CASE holder = Nobody
    <2> DEFINE p == [pc EXCEPT ![o] = "waiting"]
    <2>1. OnlyRestores(wire)
      BY <1>2, <1>4, OpsAssumption DEF IInv, HolderAlone, OnlyRestores
    <2>2. wire \o << >> = wire /\ << o >> \in Seq(Ops) /\ << >> \in Seq(Commands)
      BY <1>1
    <2>3. p \in [Ops -> Phases] /\ WireInv(wire, p) /\ QueueInv(<< o >>, p)
      <3>1. p \in [Ops -> Phases] /\ p[o] = "waiting" /\ \A x \in Ops : x # o => p[x] = pc[x]
        BY <1>1 DEF Phases
      <3>2. \A i \in 1 .. Len(wire) : p[wire[i].by] = pc[wire[i].by]
        BY <1>2, <1>3, <3>1
      <3> HIDE DEF p
      <3>3. WireInv(wire, p)
        BY <3>2 DEF IInv, WireInv
      <3>4. QueueInv(<< o >>, p)
        BY <3>1 DEF QueueInv
      <3>. QED BY <3>1, <3>3, <3>4
    <2>4. NextLock(<< o >>, wire, << >>, mailbox, p)
      <3>1. \A phase : [p EXCEPT ![o] = phase] = [pc EXCEPT ![o] = phase]
        BY <1>1
      <3>2. << o >> # << >> /\ Head(<< o >>) = o
        OBVIOUS
      <3>3. NextLock(<< o >>, wire, << >>, mailbox, pc)
        BY <1>4 DEF Request
      <3> HIDE DEF p
      <3>. QED BY <3>1, <3>2, <3>3 DEF NextLock
    <2> HIDE DEF p
    <2>5. HandedOn(<< o >>, wire, << >>, mailbox, p)
      BY <1>1, <2>1, <2>2, <2>3, <2>4 DEF HandedOn
    <2>. QED BY <1>1, <2>5, NextLockInv DEF IInv, TypeOK
  <1>5. CASE holder # Nobody
    <2>1. lockQ' = Append(lockQ, o) /\ pc' = [pc EXCEPT ![o] = "waiting"]
          /\ holder' = holder /\ wire' = wire
      BY <1>5 DEF Request
    <2>2. TypeOK'
      BY <1>1, <2>1 DEF IInv, TypeOK, Phases
    <2>3. \A i \in 1 .. Len(wire) : pc'[wire[i].by] = pc[wire[i].by]
                                    /\ target'[wire[i].by] = target[wire[i].by]
      BY <1>1, <1>2, <1>3, <2>1 DEF IInv, TypeOK
    <2>4. WireInv(wire', pc') /\ HolderAlone' /\ InboxSelected'
      BY <1>1, <2>1, <2>3 DEF IInv, WireInv, HolderAlone, InboxSelected
    <2>5. \A i \in 1 .. Len(lockQ) : lockQ[i] # o /\ lockQ[i] \in Ops
      BY <1>1 DEF IInv, QueueInv
    <2>6. QueueInv(lockQ', pc')
      BY <1>1, <2>1, <2>5 DEF IInv, QueueInv
    <2>. QED BY <2>2, <2>4, <2>6 DEF IInv
  <1>. QED BY <1>4, <1>5

LEMMA ServeInv ==
  ASSUME IInv, NEW o \in Ops, Serve(o)
  PROVE  IInv'
  <1>0. wire \in Seq(Commands) /\ pc \in [Ops -> Phases] /\ target \in [Ops -> Boxes]
        /\ lockQ \in Seq(Ops) /\ mailbox \in Boxes \cup {NoBox} /\ up \in BOOLEAN
        /\ keepalive \in BOOLEAN /\ << >> \in Seq(Commands) /\ holder \in Ops \cup {Nobody}
        /\ refused \in BOOLEAN
    BY DEF IInv, TypeOK
  <1>1. CASE SelectDone(o)
    <2> DEFINE p == [pc EXCEPT ![o] = "working"]
               w == Tail(wire)
               c == Command("work", o)
    <2>1. /\ w \in Seq(Commands) /\ OnlyRestores(w)
          /\ p \in [Ops -> Phases] /\ WireInv(w, p) /\ QueueInv(lockQ, p)
          /\ \A i \in 1 .. Len(w) : w[i].by # o
      BY <1>1, HolderAnswered DEF SelectDone, Phases
    <2>2. holder = o
      <3>1. Len(wire) > 0 /\ wire[1] = Command("select", o)
        BY <1>0, <1>1 DEF SelectDone, Answers
      <3>. QED BY <3>1 DEF IInv, HolderAlone, Command
    <2>3. wire' = Append(w, c) /\ holder' = o /\ target' = target
          /\ pc' = p /\ mailbox' = target[o]
          /\ lockQ' = lockQ /\ up' = up /\ keepalive' = keepalive /\ refused' = refused
      BY <1>1, <2>2 DEF SelectDone
    <2>4. c \in Commands /\ c.cmd = "work" /\ c.by = o /\ p[o] = "working"
      BY <1>0 DEF Command, Commands
    <2> HIDE DEF p, w, c
    <2>5. wire' \in Seq(Commands) /\ Len(wire') = Len(w) + 1 /\ wire'[Len(w) + 1] = c
          /\ \A i \in 1 .. Len(w) : wire'[i] = w[i]
      BY <2>1, <2>3, <2>4
    <2>6. \A i \in 1 .. Len(wire') : i = Len(w) + 1 \/ i \in 1 .. Len(w)
      BY <2>1, <2>5
    <2>7. WireInv(wire', pc')
      BY <2>1, <2>3, <2>4, <2>5, <2>6 DEF WireInv
    <2>8. HolderAlone' /\ InboxSelected'
      BY <2>1, <2>3, <2>4, <2>5, <2>6 DEF OnlyRestores, HolderAlone, InboxSelected
    <2>9. TypeOK'
      BY <1>0, <2>1, <2>3, <2>5 DEF TypeOK
    <2>. QED BY <2>1, <2>3, <2>7, <2>8, <2>9 DEF IInv
  <1>2. ASSUME NEW STATE after, after \in Seq(Commands), NEW STATE box, box = mailbox',
               NEW STATE p, p \in [Ops -> Phases], OnlyRestores(Tail(wire) \o after),
               WireInv(Tail(wire) \o after, p), QueueInv(lockQ, p), Tail(wire) \in Seq(Commands),
               NextLock(lockQ, Tail(wire), after, box, p),
               mailbox' \in Boxes \cup {NoBox}, refused' \in BOOLEAN,
               UNCHANGED << up, keepalive, target >>
        PROVE  IInv'
    <2>1. target' \in [Ops -> Boxes]
      BY <1>0, <1>2
    <2>2. HandedOn(lockQ, Tail(wire), after, box, p)
      BY <1>0, <1>2, <2>1 DEF HandedOn
    <2>3. /\ holder' \in Ops \cup {Nobody} /\ lockQ' \in Seq(Ops)
          /\ wire' \in Seq(Commands) /\ pc' \in [Ops -> Phases]
          /\ WireInv(wire', pc') /\ QueueInv(lockQ', pc') /\ HolderAlone' /\ InboxSelected'
      BY <2>2, NextLockInv
    <2>. QED BY <1>0, <1>2, <2>1, <2>3 DEF IInv, TypeOK
  <1>3. CASE SelectRefused(o)
    <2>1. NextLock(lockQ, Tail(wire), << >>, NoBox, [pc EXCEPT ![o] = "idle"])
          /\ mailbox' = NoBox /\ refused' = TRUE /\ UNCHANGED << up, keepalive, target >>
      BY <1>3 DEF SelectRefused
    <2>2. /\ Tail(wire) \in Seq(Commands) /\ OnlyRestores(Tail(wire))
          /\ [pc EXCEPT ![o] = "idle"] \in [Ops -> Phases]
          /\ WireInv(Tail(wire), [pc EXCEPT ![o] = "idle"])
          /\ QueueInv(lockQ, [pc EXCEPT ![o] = "idle"])
      BY <1>3, HolderAnswered DEF SelectRefused, Phases
    <2>3. Tail(wire) \o << >> = Tail(wire)
      BY <2>2
    <2>. QED BY <1>0, <1>2, <2>1, <2>2, <2>3
  <1>4. CASE WorkDone(o)
    <2>1. Answers("work", o) /\ UNCHANGED << mailbox, refused, up, keepalive, target >>
      BY <1>4 DEF WorkDone
    <2>2. CASE target[o] = INBOX
      <3>1. NextLock(lockQ, Tail(wire), << >>, mailbox, [pc EXCEPT ![o] = "idle"])
        BY <1>4, <2>2 DEF WorkDone
      <3>2. /\ Tail(wire) \in Seq(Commands) /\ OnlyRestores(Tail(wire))
            /\ [pc EXCEPT ![o] = "idle"] \in [Ops -> Phases]
            /\ WireInv(Tail(wire), [pc EXCEPT ![o] = "idle"])
            /\ QueueInv(lockQ, [pc EXCEPT ![o] = "idle"])
        BY <2>1, HolderAnswered DEF Phases
      <3>3. Tail(wire) \o << >> = Tail(wire)
        BY <3>2
      <3>. QED BY <1>0, <1>2, <2>1, <3>1, <3>2, <3>3
    <2>3. CASE target[o] # INBOX
      <3> DEFINE p == [pc EXCEPT ![o] = "restoring"]
                 w == Tail(wire)
                 c == Command("restore", o)
      <3>1. NextLock(lockQ, w, << c >>, mailbox, p)
        BY <1>4, <2>3 DEF WorkDone
      <3>2. /\ w \in Seq(Commands) /\ OnlyRestores(w)
            /\ p \in [Ops -> Phases] /\ WireInv(w, p) /\ QueueInv(lockQ, p)
            /\ \A i \in 1 .. Len(w) : w[i].by # o
        BY <2>1, HolderAnswered DEF Phases
      <3>3. c \in Commands /\ c.by = o /\ c.cmd = "restore" /\ p[o] = "restoring"
        BY <1>0 DEF Command, Commands
      <3>4. w = Tail(wire) /\ mailbox \in Boxes \cup {NoBox}
        BY <1>0
      <3> HIDE DEF p, w, c
      <3>5. << c >> \in Seq(Commands) /\ Len(w \o << c >>) = Len(w) + 1
            /\ (w \o << c >>)[Len(w) + 1] = c
            /\ \A i \in 1 .. Len(w) : (w \o << c >>)[i] = w[i]
        BY <3>2, <3>3
      <3>6. \A i \in 1 .. Len(w \o << c >>) : i = Len(w) + 1 \/ i \in 1 .. Len(w)
        BY <3>2, <3>5
      <3>7. OnlyRestores(w \o << c >>) /\ WireInv(w \o << c >>, p)
        BY <3>2, <3>3, <3>5, <3>6 DEF OnlyRestores, WireInv
      <3>. QED BY <1>0, <1>2, <2>1, <3>1, <3>2, <3>4, <3>5, <3>7
    <2>. QED BY <2>2, <2>3
  <1>5. CASE RestoreDone(o)
    <2>1. wire[1] = Command("restore", o) /\ Len(wire) > 0 /\ wire' = Tail(wire)
          /\ mailbox' = INBOX /\ pc' = [pc EXCEPT ![o] = "idle"]
          /\ UNCHANGED << up, lockQ, holder, target >> /\ keepalive' = TRUE
          /\ refused' = FALSE
      BY <1>0, <1>5 DEF RestoreDone, Answers
    <2>2. wire' \in Seq(Commands) /\ Len(wire') = Len(wire) - 1
          /\ \A i \in 1 .. Len(wire') :
               i + 1 \in 1 .. Len(wire) /\ i + 1 # 1 /\ wire'[i] = wire[i + 1]
      BY <1>0, <2>1
    <2>3. TypeOK'
      BY <1>0, <2>1, <2>2, BoxAssumption DEF TypeOK, Phases
    <2>4. HolderAlone' /\ InboxSelected'
      BY <2>1, <2>2 DEF IInv, HolderAlone, InboxSelected
    <2>5. pc[o] = "restoring" /\ 1 \in 1 .. Len(wire) /\ wire[1].by = o
      BY <2>1 DEF IInv, WireInv, Command
    <2>6. \A i \in 1 .. Len(wire') : wire'[i].by # o /\ wire'[i].by \in Ops
      <3>1. \A i \in 1 .. Len(wire') : wire'[i] \in Commands
        BY <2>2
      <3>2. \A i \in 1 .. Len(wire') : wire'[i].by \in Ops
        BY <3>1 DEF Commands
      <3>. QED BY <2>2, <2>5, <3>2 DEF IInv, WireInv
    <2>7. \A i \in 1 .. Len(wire') : pc'[wire'[i].by] = pc[wire'[i].by]
      BY <1>0, <2>1, <2>6
    <2>8. \A i, j \in 1 .. Len(wire') : wire'[i].by = wire'[j].by => i = j
      <3>. SUFFICES ASSUME NEW i \in 1 .. Len(wire'), NEW j \in 1 .. Len(wire'),
                           wire'[i].by = wire'[j].by
                    PROVE  i = j
        OBVIOUS
      <3>1. /\ i + 1 \in 1 .. Len(wire) /\ wire'[i] = wire[i + 1]
            /\ j + 1 \in 1 .. Len(wire) /\ wire'[j] = wire[j + 1]
        BY <2>2
      <3>2. i + 1 = j + 1
        BY <3>1 DEF IInv, WireInv
      <3>. QED BY <3>2
    <2>9. WireInv(wire', pc')
      <3>1. \A i \in 1 .. Len(wire) :
              /\ wire[i].cmd = "select" => pc[wire[i].by] = "selecting"
              /\ wire[i].cmd = "work" => pc[wire[i].by] = "working"
              /\ wire[i].cmd = "restore" => pc[wire[i].by] = "restoring"
        BY DEF IInv, WireInv
      <3>2. \A i \in 1 .. Len(wire') :
              /\ wire'[i].cmd = "select" => pc'[wire'[i].by] = "selecting"
              /\ wire'[i].cmd = "work" => pc'[wire'[i].by] = "working"
              /\ wire'[i].cmd = "restore" => pc'[wire'[i].by] = "restoring"
        BY <2>2, <2>7, <3>1
      <3>. QED BY <2>8, <3>2 DEF WireInv
    <2>10. QueueInv(lockQ', pc')
      <3>1. \A i \in 1 .. Len(lockQ) : lockQ[i] # o /\ lockQ[i] \in Ops
        BY <1>0, <2>5 DEF IInv, QueueInv
      <3>. QED BY <1>0, <2>1, <3>1 DEF IInv, QueueInv
    <2>. QED BY <2>3, <2>4, <2>9, <2>10 DEF IInv
  <1>. QED BY <1>1, <1>3, <1>4, <1>5 DEF Serve

LEMMA InvInit == Init => IInv
  <1>. SUFFICES ASSUME Init PROVE IInv
    OBVIOUS
  <1>1. TypeOK
    <2>1. << >> \in Seq(Commands) /\ << >> \in Seq(Ops)
      OBVIOUS
    <2>2. pc \in [Ops -> Phases]
      BY DEF Init, Phases
    <2>. QED BY <2>1, <2>2, BoxAssumption DEF Init, TypeOK
  <1>2. WireInv(wire, pc) /\ QueueInv(lockQ, pc) /\ HolderAlone /\ InboxSelected
    BY DEF Init, WireInv, QueueInv, HolderAlone, InboxSelected
  <1>. QED BY <1>1, <1>2 DEF IInv

LEMMA InvStep == IInv /\ [Next]_vars => IInv'
  <1>. SUFFICES ASSUME IInv, [Next]_vars PROVE IInv'
    OBVIOUS
  <1>1. CASE UNCHANGED vars
    BY <1>1 DEF vars, IInv, TypeOK, WireInv, QueueInv, HolderAlone, InboxSelected
  <1>2. CASE ConnectionLost
    <2>1. wire' = << >> /\ lockQ' = << >> /\ pc' = [o \in Ops |-> "idle"]
          /\ up' = FALSE /\ mailbox' = NoBox /\ keepalive' = FALSE /\ holder' = Nobody
          /\ target' = target /\ refused' = FALSE
      BY <1>2 DEF ConnectionLost
    <2>2. target \in [Ops -> Boxes]
      BY DEF IInv, TypeOK
    <2>3. << >> \in Seq(Commands) /\ << >> \in Seq(Ops)
          /\ [o \in Ops |-> "idle"] \in [Ops -> Phases]
      BY DEF Phases
    <2>4. TypeOK'
      BY <2>1, <2>2, <2>3 DEF TypeOK
    <2>. QED BY <2>1, <2>4 DEF IInv, WireInv, QueueInv, HolderAlone, InboxSelected
  <1>3. CASE Reconnected
    BY <1>3, BoxAssumption
    DEF Reconnected, IInv, TypeOK, WireInv, QueueInv, HolderAlone, InboxSelected
  <1>. QED BY <1>1, <1>2, <1>3, RequestInv, ServeInv DEF Next

\* Types: commands and lock requests always belong to callers.
THEOREM TypeCorrect == Spec => []TypeOK
  <1>1. IInv => TypeOK
    BY DEF IInv
  <1>. QED BY <1>1, InvInit, InvStep, PTL DEF Spec

\* Whatever the interleaving of callers and restores, whichever mailboxes are
\* missing, an answer to work asked of INBOX is an answer from INBOX.
THEOREM InboxWorkRunsOnInbox == Spec => InboxWorkOnInbox
  <1>1. IInv /\ [Next]_vars =>
          [\A o \in Ops : WorkDone(o) /\ target[o] = INBOX => mailbox = INBOX]_vars
    <2>. SUFFICES ASSUME IInv, NEW o \in Ops, WorkDone(o), target[o] = INBOX
                  PROVE  mailbox = INBOX
      OBVIOUS
    <2>1. wire \in Seq(Commands) /\ wire # << >> /\ Head(wire) = Command("work", o)
      BY DEF WorkDone, Answers, IInv, TypeOK
    <2>2. 1 \in 1 .. Len(wire) /\ wire[1] = Command("work", o)
      BY <2>1
    <2>. QED BY <2>2 DEF IInv, InboxSelected, Command
  <1>. QED BY <1>1, InvInit, InvStep, PTL DEF Spec, InboxWorkOnInbox

-----------------------------------------------------------------------------
\* Handing on the lock disturbs no caller but the head of the queue, which is at
\* work afterwards.
LEMMA NextLockOthers ==
  ASSUME NEW STATE q, NEW STATE w, NEW STATE after, NEW STATE box, NEW STATE p,
         p \in [Ops -> Phases], NextLock(q, w, after, box, p), NEW o \in Ops
  PROVE  /\ (q # << >> => Head(q) # o) => pc'[o] = p[o]
         /\ q # << >> /\ Head(q) = o => pc'[o] \in {"selecting", "working"}
         /\ holder' = IF q = << >> THEN Nobody ELSE Head(q)
  <1>1. CASE q = << >>
    BY <1>1 DEF NextLock
  <1>2. CASE q # << >>
    BY <1>2 DEF NextLock
  <1>. QED BY <1>1, <1>2

\* The phase of a caller whose command is answered.
LEMMA Phase ==
  ASSUME IInv, NEW o \in Ops
  PROVE  /\ Answers("select", o) => pc[o] = "selecting"
         /\ Answers("work", o) =>
              pc[o] = "working" /\ (target[o] = INBOX => mailbox = INBOX)
         /\ Answers("restore", o) => pc[o] = "restoring"
         /\ pc[o] # "waiting" /\ lockQ # << >> => Head(lockQ) # o
  <1>1. wire \in Seq(Commands) /\ lockQ \in Seq(Ops)
    BY DEF IInv, TypeOK
  <1>2. ASSUME NEW name, Answers(name, o)
        PROVE  1 \in 1 .. Len(wire) /\ wire[1].cmd = name /\ wire[1].by = o
    BY <1>1, <1>2 DEF Answers, Command
  <1>3. ASSUME Answers("select", o) PROVE pc[o] = "selecting"
    <2>1. 1 \in 1 .. Len(wire) /\ wire[1].cmd = "select" /\ wire[1].by = o
      BY <1>2, <1>3
    <2>. QED BY <2>1 DEF IInv, WireInv
  <1>4. ASSUME Answers("work", o) PROVE pc[o] = "working" /\ (target[o] = INBOX => mailbox = INBOX)
    <2>1. 1 \in 1 .. Len(wire) /\ wire[1].cmd = "work" /\ wire[1].by = o
      BY <1>2, <1>4
    <2>. QED BY <2>1 DEF IInv, WireInv, InboxSelected
  <1>5. ASSUME Answers("restore", o) PROVE pc[o] = "restoring"
    <2>1. 1 \in 1 .. Len(wire) /\ wire[1].cmd = "restore" /\ wire[1].by = o
      BY <1>2, <1>5
    <2>. QED BY <2>1 DEF IInv, WireInv
  <1>6. pc[o] # "waiting" /\ lockQ # << >> => Head(lockQ) # o
    <2>1. lockQ # << >> => 1 \in 1 .. Len(lockQ) /\ Head(lockQ) = lockQ[1]
      BY <1>1
    <2>. QED BY <2>1 DEF IInv, QueueInv
  <1>. QED BY <1>3, <1>4, <1>5, <1>6

-----------------------------------------------------------------------------
LEMMA LockHandedOn ==
  ASSUME OneAtWork, NEW STATE q, NEW STATE w, NEW STATE after, NEW STATE box, NEW STATE p,
         q \in Seq(Ops), p \in [Ops -> Phases], NextLock(q, w, after, box, p),
         \A x \in Ops : p[x] \notin {"selecting", "working"}
  PROVE  OneAtWork'
  <1>. SUFFICES ASSUME NEW x \in Ops PROVE AtWork(x)' <=> holder' = x
    BY DEF OneAtWork
  <1>. QED BY NextLockOthers, OpsAssumption DEF AtWork

LEMMA LockStep == IInv /\ OneAtWork /\ [Next]_vars => OneAtWork'
  <1>. SUFFICES ASSUME IInv, OneAtWork, [Next]_vars PROVE OneAtWork'
    OBVIOUS
  <1>0. pc \in [Ops -> Phases] /\ lockQ \in Seq(Ops)
    BY DEF IInv, TypeOK
  <1>1. ASSUME NEW o \in Ops, NEW b \in Boxes, Request(o, b) PROVE OneAtWork'
    <2>1. CASE holder = Nobody
      <3>1. \A x \in Ops : pc[x] \notin {"selecting", "working"}
        BY <2>1, OpsAssumption DEF OneAtWork, AtWork
      <3>2. NextLock(<< o >>, wire, << >>, mailbox, pc) /\ << o >> \in Seq(Ops)
        BY <1>1, <2>1 DEF Request
      <3>. QED BY <1>0, <3>1, <3>2, LockHandedOn
    <2>2. CASE holder # Nobody
      BY <1>0, <1>1, <2>2 DEF Request, OneAtWork, AtWork
    <2>. QED BY <2>1, <2>2
  <1>2. ASSUME NEW o \in Ops, SelectDone(o) PROVE OneAtWork'
    <2>1. pc[o] = "selecting"
      BY <1>2, Phase DEF SelectDone
    <2>. QED BY <1>0, <1>2, <2>1 DEF SelectDone, OneAtWork, AtWork
  <1>3. ASSUME NEW o \in Ops, NEW phase \in {"idle", "restoring"}, AtWork(o)
        PROVE  /\ [pc EXCEPT ![o] = phase] \in [Ops -> Phases]
               /\ \A x \in Ops : [pc EXCEPT ![o] = phase][x] \notin {"selecting", "working"}
    BY <1>0, <1>3 DEF OneAtWork, AtWork, Phases
  <1>4. ASSUME NEW o \in Ops, SelectRefused(o) PROVE OneAtWork'
    <2>1. AtWork(o)
      BY <1>4, Phase DEF SelectRefused, AtWork
    <2>2. NextLock(lockQ, Tail(wire), << >>, NoBox, [pc EXCEPT ![o] = "idle"])
      BY <1>4 DEF SelectRefused
    <2>. QED BY <1>0, <1>3, <2>1, <2>2, LockHandedOn
  <1>5. ASSUME NEW o \in Ops, WorkDone(o) PROVE OneAtWork'
    <2>1. AtWork(o)
      BY <1>5, Phase DEF WorkDone, AtWork
    <2>2. CASE target[o] = INBOX
      <3>1. NextLock(lockQ, Tail(wire), << >>, mailbox, [pc EXCEPT ![o] = "idle"])
        BY <1>5, <2>2 DEF WorkDone
      <3>. QED BY <1>0, <1>3, <2>1, <3>1, LockHandedOn
    <2>3. CASE target[o] # INBOX
      <3>1. NextLock(lockQ, Tail(wire), << Command("restore", o) >>, mailbox,
                     [pc EXCEPT ![o] = "restoring"])
        BY <1>5, <2>3 DEF WorkDone
      <3>. QED BY <1>0, <1>3, <2>1, <3>1, LockHandedOn
    <2>. QED BY <2>2, <2>3
  <1>6. ASSUME NEW o \in Ops, RestoreDone(o) PROVE OneAtWork'
    <2>1. pc[o] = "restoring"
      BY <1>6, Phase DEF RestoreDone
    <2>. QED BY <1>0, <1>6, <2>1 DEF RestoreDone, OneAtWork, AtWork
  <1>7. CASE ConnectionLost
    BY <1>7, OpsAssumption DEF ConnectionLost, OneAtWork, AtWork
  <1>8. CASE Reconnected \/ UNCHANGED vars
    BY <1>8 DEF Reconnected, vars, OneAtWork, AtWork
  <1>. QED BY <1>1, <1>2, <1>4, <1>5, <1>6, <1>7, <1>8 DEF Next, Serve

\* The lock is held by exactly the caller that is at work under it: it is never
\* released early or twice, and never kept by a caller that is done.
THEOREM LockIsExclusive == Spec => []OneAtWork
  <1>1. Init => OneAtWork
    BY OpsAssumption DEF Init, OneAtWork, AtWork
  <1>. QED BY <1>1, LockStep, InvInit, InvStep, PTL DEF Spec

-----------------------------------------------------------------------------
\* A caller that will restore INBOX and re-arm the keepalive, or be refused.
Switching(o) == pc[o] # "idle" /\ target[o] # INBOX

\* A caller whose switch is made: its restore is sent, or will be.
Owed(o) == pc[o] = "restoring" \/ (pc[o] = "working" /\ target[o] # INBOX)

NothingSelected == up /\ mailbox = NoBox => refused
OtherSelected == up /\ mailbox \notin {INBOX, NoBox} => \E o \in Ops : Owed(o)
NotListening == up /\ ~keepalive => refused \/ \E o \in Ops : Switching(o)
RestoreOwed == NothingSelected /\ OtherSelected /\ NotListening

\* A request stops the keepalive only on its way to another mailbox, and takes
\* nothing from the callers under way.
LEMMA RequestOwes ==
  ASSUME IInv, RestoreOwed, NEW o \in Ops, NEW b \in Boxes, Request(o, b)
  PROVE  RestoreOwed'
  <1>1. /\ mailbox' = mailbox /\ up' = up /\ refused' = refused /\ pc[o] = "idle"
        /\ target' = [target EXCEPT ![o] = b] /\ keepalive' = (keepalive /\ b = INBOX)
        /\ pc \in [Ops -> Phases] /\ target \in [Ops -> Boxes]
    BY DEF Request, IInv, TypeOK
  <1>2. pc'[o] # "idle" /\ \A x \in Ops : x # o => pc'[x] = pc[x]
    <2>1. CASE holder = Nobody
      <3>1. NextLock(<< o >>, wire, << >>, mailbox, pc) /\ << o >> # << >> /\ Head(<< o >>) = o
        BY <2>1 DEF Request
      <3>. QED BY <1>1, <3>1, NextLockOthers
    <2>2. CASE holder # Nobody
      BY <1>1, <2>2 DEF Request
    <2>. QED BY <2>1, <2>2
  <1>3. \A x \in Ops : (Owed(x) => Owed(x)') /\ (Switching(x) => Switching(x)')
    BY <1>1, <1>2 DEF Owed, Switching
  <1>4. b # INBOX => Switching(o)'
    BY <1>1, <1>2 DEF Switching
  <1>5. NothingSelected' /\ OtherSelected'
    BY <1>1, <1>3 DEF RestoreOwed, NothingSelected, OtherSelected
  <1>6. NotListening'
    BY <1>1, <1>3, <1>4 DEF RestoreOwed, NotListening
  <1>. QED BY <1>5, <1>6 DEF RestoreOwed

LEMMA SelectDoneOwes ==
  ASSUME IInv, RestoreOwed, NEW o \in Ops, SelectDone(o)
  PROVE  RestoreOwed'
  <1>1. /\ mailbox' = target[o] /\ pc' = [pc EXCEPT ![o] = "working"]
        /\ UNCHANGED << up, keepalive, target, refused >>
        /\ pc \in [Ops -> Phases] /\ target[o] \in Boxes
    BY DEF SelectDone, IInv, TypeOK
  <1>2. NothingSelected' /\ OtherSelected'
    BY <1>1, BoxAssumption DEF NothingSelected, OtherSelected, Owed
  <1>3. \A x \in Ops : Switching(x) => Switching(x)'
    BY <1>1 DEF Switching
  <1>. QED BY <1>1, <1>2, <1>3 DEF RestoreOwed, NotListening

\* The caller that is done with its work sends the restore; nobody else's phase
\* goes back.
LEMMA WorkDoneOwes ==
  ASSUME IInv, RestoreOwed, NEW o \in Ops, WorkDone(o)
  PROVE  RestoreOwed'
  <1>0. /\ UNCHANGED << up, mailbox, keepalive, target, refused >>
        /\ pc \in [Ops -> Phases] /\ pc[o] = "working"
        /\ target[o] = INBOX => mailbox = INBOX
        /\ lockQ # << >> => Head(lockQ) # o
    BY Phase DEF WorkDone, IInv, TypeOK
  <1>1. CASE target[o] = INBOX
    <2>1. NextLock(lockQ, Tail(wire), << >>, mailbox, [pc EXCEPT ![o] = "idle"])
          /\ [pc EXCEPT ![o] = "idle"] \in [Ops -> Phases]
      BY <1>0, <1>1 DEF WorkDone, Phases
    <2>2. ASSUME NEW x \in Ops, x # o
          PROVE  pc'[x] = pc[x] \/ pc'[x] \in {"selecting", "working"}
      <3> DEFINE p == [pc EXCEPT ![o] = "idle"]
      <3>1. p[x] = pc[x]
        BY <1>0, <2>2
      <3>2. NextLock(lockQ, Tail(wire), << >>, mailbox, p) /\ p \in [Ops -> Phases]
        BY <2>1
      <3> HIDE DEF p
      <3>. QED BY <3>1, <3>2, NextLockOthers
    <2>3. \A x \in Ops : Switching(x) => Switching(x)'
      BY <1>0, <1>1, <2>2 DEF Switching
    <2>. QED BY <1>0, <1>1, <2>3
         DEF RestoreOwed, NothingSelected, OtherSelected, NotListening
  <1>2. CASE target[o] # INBOX
    <2>1. NextLock(lockQ, Tail(wire), << Command("restore", o) >>, mailbox,
                   [pc EXCEPT ![o] = "restoring"])
          /\ [pc EXCEPT ![o] = "restoring"] \in [Ops -> Phases]
          /\ [pc EXCEPT ![o] = "restoring"][o] = "restoring"
      BY <1>0, <1>2 DEF WorkDone, Phases
    <2>2. pc'[o] = "restoring"
      <3> DEFINE p == [pc EXCEPT ![o] = "restoring"]
                 after == << Command("restore", o) >>
      <3>1. p[o] = "restoring" /\ NextLock(lockQ, Tail(wire), after, mailbox, p)
            /\ p \in [Ops -> Phases]
        BY <2>1
      <3> HIDE DEF p, after
      <3>. QED BY <1>0, <3>1, NextLockOthers
    <2>3. Owed(o)' /\ Switching(o)'
      BY <1>0, <1>2, <2>2 DEF Owed, Switching
    <2>. QED BY <1>0, <2>3 DEF RestoreOwed, NothingSelected, OtherSelected, NotListening
  <1>. QED BY <1>1, <1>2

LEMMA OwedStep == IInv /\ RestoreOwed /\ [Next]_vars => RestoreOwed'
  <1>. SUFFICES ASSUME IInv, RestoreOwed, [Next]_vars PROVE RestoreOwed'
    OBVIOUS
  <1> USE DEF RestoreOwed, NothingSelected, OtherSelected, NotListening
  <1>1. ASSUME NEW o \in Ops, SelectRefused(o) PROVE RestoreOwed'
    BY <1>1, BoxAssumption DEF SelectRefused
  <1>2. ASSUME NEW o \in Ops, RestoreDone(o) PROVE RestoreOwed'
    BY <1>2, BoxAssumption DEF RestoreDone
  <1>3. CASE ConnectionLost
    BY <1>3 DEF ConnectionLost
  <1>4. CASE Reconnected
    BY <1>4, BoxAssumption DEF Reconnected
  <1>5. CASE UNCHANGED vars
    BY <1>5 DEF vars, Owed, Switching
  <1> HIDE DEF RestoreOwed
  <1>. QED BY <1>1, <1>2, <1>3, <1>4, <1>5, RequestOwes, SelectDoneOwes, WorkDoneOwes
       DEF Next, Serve

\* Once everyone is done the connection is back on INBOX and listens there,
\* whatever became of the work, unless a SELECT was refused since the last
\* restore: every switch is undone by its own caller.
THEOREM AlwaysReturnsToInbox == Spec => []ReturnsToInbox
  <1>1. Init => RestoreOwed
    BY BoxAssumption DEF Init, RestoreOwed, NothingSelected, OtherSelected, NotListening
  <1>2. IInv /\ RestoreOwed => ReturnsToInbox
    BY DEF RestoreOwed, NothingSelected, OtherSelected, NotListening, Owed, Switching,
           ReturnsToInbox, AllIdle, IInv, TypeOK
  <1>. QED BY <1>1, <1>2, OwedStep, InvInit, InvStep, PTL DEF Spec
=============================================================================
