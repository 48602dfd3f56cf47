--------------------------- MODULE Monitor_proofs ---------------------------
(***************************************************************************)
(* The UID cursor of the arrival pipeline never passes over a message, for *)
(* any number of messages, calls and crashes.                              *)
(***************************************************************************)
EXTENDS Monitor, WellFoundedInduction, TLAPS

Gone == {"filed", "away"}

\* Uids are given out in order, and what the pipeline knows of has been given.
BornInv ==
  /\ \A u, v \in Uids : u < v /\ place[v] # "unborn" => place[u] # "unborn"
  /\ \A u \in Uids : u <= lastUid => place[u] # "unborn"
  /\ \A c \in Calls : \A u \in batch[c] : place[u] # "unborn"

CursorInv ==
  /\ saved <= lastUid
  /\ ~CursorEnabled => saved = 0
  /\ \A u \in Uids : place[u] = "inbox" /\ u <= lastUid => u \in handled

\* A batch has no gap: nothing unhandled in INBOX is below one of its messages
\* and not in it.
BatchInv ==
  \A c \in Calls : \A v \in batch[c] : \A u \in Uids :
    place[u] = "inbox" /\ u <= v => u \in batch[c] \/ u \in handled

CallInv ==
  /\ \A c \in Calls :
       /\ pc[c] # "idle" => processing
       /\ pc[c] = "fetching" => since[c] = lastUid
       /\ pc[c] \in {"idle", "fetching"} => batch[c] = {}
       /\ pc[c] \notin {"idle", "fetching", "next"} => batch[c] # {}
       /\ pc[c] = "saving" => Current(c) \in handled
  /\ \A c, d \in Calls : pc[c] # "idle" /\ pc[d] # "idle" => c = d

LogInv ==
  /\ \A u \in Uids : "moved" \in logged[u] => place[u] \in Gone
  /\ \A c \in Calls : outcome[c] = "moved" => pc[c] = "logging" /\ place[Current(c)] \in Gone

\* What was logged since the start is behind the cursor, or about to be.
BootInv ==
  /\ \A u \in sinceBoot :
       u <= lastUid \/ \E c \in Calls : pc[c] = "saving" /\ u = Current(c)
  /\ \A c \in Calls : \A u \in batch[c] :
       u \in sinceBoot => pc[c] = "saving" /\ u = Current(c)

IInv ==
  /\ TypeOK
  /\ BornInv
  /\ CursorInv
  /\ BatchInv
  /\ CallInv
  /\ LogInv
  /\ BootInv

-----------------------------------------------------------------------------
\* A nonempty set of naturals has a least element.
LEMMA LeastOfNats ==
  ASSUME NEW S, S \subseteq Nat, S # {}
  PROVE  \E m \in S : \A n \in S : m <= n
  <1> DEFINE R == {ss \in Nat \X Nat : ss[1] < ss[2]}
  <1>1. IsWellFoundedOn(R, Nat)
    BY NatLessThanWellFounded DEF OpToRel
  <1> HIDE DEF R
  <1>2. PICK m \in S : \A n \in S : << n, m >> \notin R
    BY <1>1, WFMin
  <1>3. \A n \in S : m <= n
    <2> TAKE n \in S
    <2>1. n \in Nat /\ m \in Nat
      OBVIOUS
    <2>2. ~(n < m)
      BY <1>2, <2>1 DEF R
    <2> QED
      BY <2>1, <2>2
  <1> QED
    BY <1>3

\* The message a call works on is the least of its batch.
LEMMA CurrentIsLeast ==
  ASSUME TypeOK, NEW c \in Calls, batch[c] # {}
  PROVE  /\ Current(c) \in batch[c]
         /\ Current(c) \in Uids
         /\ \A v \in batch[c] : Current(c) <= v
  <1>1. batch[c] \subseteq Uids
    BY DEF TypeOK
  <1>2. \E m \in batch[c] : \A n \in batch[c] : m <= n
    <2>1. batch[c] \subseteq Nat
      BY <1>1, UidAssumption DEF Uids
    <2> QED
      BY <2>1, LeastOfNats
  <1> QED
    BY <1>1, <1>2 DEF Current, Min

LEMMA Initially == Init => IInv
  <1> SUFFICES ASSUME Init PROVE IInv
    OBVIOUS
  <1>1. TypeOK
    <2>1. 0 \in 0 .. MaxUid /\ 0 \in 0 .. MaxCrashes
      BY UidAssumption
    <2> QED
      BY <2>1 DEF Init, TypeOK, Places, Phases, Outcomes, Uids
  <1>2. BornInv /\ CursorInv /\ BatchInv /\ CallInv /\ LogInv /\ BootInv
    BY UidAssumption DEF Init, BornInv, CursorInv, BatchInv, CallInv, LogInv, BootInv, Uids
  <1> QED
    BY <1>1, <1>2 DEF IInv

LEMMA ArrivePreserves ==
  ASSUME IInv, NEW u \in Uids, Arrive(u)
  PROVE  IInv'
  <1>1. TypeOK'
    BY UidAssumption DEF IInv, TypeOK, Arrive, callVars, dbVars, historyVars,
       Places, Phases, InFlight, Outcomes, Uids
  <1>2. BornInv'
    BY UidAssumption DEF IInv, BornInv, TypeOK, Arrive, callVars, Uids
  <1>3. CursorInv'
    BY UidAssumption DEF IInv, CursorInv, TypeOK, BornInv, BatchInv, CallInv,
       Arrive, dbVars, historyVars, Uids
  <1>4. BatchInv'
    BY UidAssumption DEF IInv, BatchInv, TypeOK, CursorInv, BornInv, CallInv,
       Arrive, callVars, historyVars, Uids
  <1>5. CallInv'
    BY UidAssumption DEF IInv, CallInv, TypeOK, Arrive, Current, callVars,
       historyVars
  <1>6. LogInv'
    BY UidAssumption DEF IInv, LogInv, TypeOK, CallInv, Arrive, Current,
       callVars, dbVars, Gone
  <1>7. BootInv'
    BY UidAssumption DEF IInv, BootInv, TypeOK, CallInv, BatchInv, Arrive,
       Current, callVars, historyVars
  <1> QED
    BY <1>1, <1>2, <1>3, <1>4, <1>5, <1>6, <1>7 DEF IInv

LEMMA TakenAwayPreserves ==
  ASSUME IInv, NEW u \in Uids, TakenAway(u)
  PROVE  IInv'
  <1>1. TypeOK'
    BY UidAssumption DEF IInv, TypeOK, TakenAway, linkVars, callVars, dbVars,
       historyVars, Places, Phases, InFlight, Outcomes, Uids
  <1>2. BornInv'
    BY UidAssumption DEF IInv, BornInv, TypeOK, TakenAway, callVars, Uids
  <1>3. CursorInv'
    BY UidAssumption DEF IInv, CursorInv, TypeOK, BornInv, BatchInv, CallInv,
       TakenAway, dbVars, historyVars, Uids
  <1>4. BatchInv'
    BY UidAssumption DEF IInv, BatchInv, TypeOK, CursorInv, BornInv, CallInv,
       TakenAway, callVars, historyVars, Uids
  <1>5. CallInv'
    BY UidAssumption DEF IInv, CallInv, TypeOK, TakenAway, Current, callVars,
       historyVars
  <1>6. LogInv'
    BY UidAssumption DEF IInv, LogInv, TypeOK, CallInv, TakenAway, Current,
       callVars, dbVars, Gone
  <1>7. BootInv'
    BY UidAssumption DEF IInv, BootInv, TypeOK, CallInv, BatchInv, TakenAway,
       Current, callVars, historyVars
  <1> QED
    BY <1>1, <1>2, <1>3, <1>4, <1>5, <1>6, <1>7 DEF IInv

LEMMA UpdateRulesPreserves ==
  ASSUME IInv, UpdateRules
  PROVE  IInv'
  <1>1. TypeOK'
    BY UidAssumption DEF IInv, TypeOK, UpdateRules, serverVars, linkVars,
       callVars, dbVars, historyVars, Places, Phases, InFlight, Outcomes, Uids
  <1>2. BornInv'
    BY UidAssumption DEF IInv, BornInv, TypeOK, UpdateRules, serverVars,
       callVars, Uids
  <1>3. CursorInv'
    BY UidAssumption DEF IInv, CursorInv, TypeOK, BornInv, BatchInv, CallInv,
       UpdateRules, serverVars, dbVars, historyVars, Uids
  <1>4. BatchInv'
    BY UidAssumption DEF IInv, BatchInv, TypeOK, CursorInv, BornInv, CallInv,
       UpdateRules, serverVars, callVars, historyVars, Uids
  <1>5. CallInv'
    BY UidAssumption DEF IInv, CallInv, TypeOK, UpdateRules, Current,
       callVars, historyVars
  <1>6. LogInv'
    BY UidAssumption DEF IInv, LogInv, TypeOK, CallInv, UpdateRules, Current,
       serverVars, callVars, dbVars, Gone
  <1>7. BootInv'
    BY UidAssumption DEF IInv, BootInv, TypeOK, CallInv, BatchInv,
       UpdateRules, Current, callVars, historyVars
  <1> QED
    BY <1>1, <1>2, <1>3, <1>4, <1>5, <1>6, <1>7 DEF IInv

LEMMA NewMailPreserves ==
  ASSUME IInv, NewMail
  PROVE  IInv'
  <1>1. TypeOK'
    BY UidAssumption DEF IInv, TypeOK, NewMail, Begin, Goto, serverVars,
       dbVars, historyVars, Places, Phases, InFlight, Outcomes, Uids
  <1>2. BornInv'
    BY UidAssumption DEF IInv, BornInv, TypeOK, NewMail, Begin, serverVars,
       Uids
  <1>3. CursorInv'
    BY UidAssumption DEF IInv, CursorInv, TypeOK, BornInv, BatchInv, CallInv,
       NewMail, Begin, serverVars, dbVars, historyVars, Uids
  <1>4. BatchInv'
    BY UidAssumption DEF IInv, BatchInv, TypeOK, CursorInv, BornInv, CallInv,
       NewMail, Begin, serverVars, historyVars, Uids
  <1>5. CallInv'
    BY UidAssumption DEF IInv, CallInv, TypeOK, NewMail, Begin, Goto, Current,
       historyVars
  <1>6. LogInv'
    BY UidAssumption DEF IInv, LogInv, TypeOK, CallInv, NewMail, Begin, Goto,
       Current, serverVars, dbVars, Gone
  <1>7. BootInv'
    BY UidAssumption DEF IInv, BootInv, TypeOK, CallInv, BatchInv, NewMail,
       Begin, Goto, Current, historyVars
  <1> QED
    BY <1>1, <1>2, <1>3, <1>4, <1>5, <1>6, <1>7 DEF IInv

LEMMA LinkUpPreserves ==
  ASSUME IInv, LinkUp
  PROVE  IInv'
  <1>1. TypeOK'
    BY UidAssumption DEF IInv, TypeOK, LinkUp, Begin, Goto, serverVars,
       dbVars, historyVars, Places, Phases, InFlight, Outcomes, Uids
  <1>2. BornInv'
    BY UidAssumption DEF IInv, BornInv, TypeOK, LinkUp, Begin, serverVars,
       Uids
  <1>3. CursorInv'
    BY UidAssumption DEF IInv, CursorInv, TypeOK, BornInv, BatchInv, CallInv,
       LinkUp, Begin, serverVars, dbVars, historyVars, Uids
  <1>4. BatchInv'
    BY UidAssumption DEF IInv, BatchInv, TypeOK, CursorInv, BornInv, CallInv,
       LinkUp, Begin, serverVars, historyVars, Uids
  <1>5. CallInv'
    BY UidAssumption DEF IInv, CallInv, TypeOK, LinkUp, Begin, Goto, Current,
       historyVars
  <1>6. LogInv'
    BY UidAssumption DEF IInv, LogInv, TypeOK, CallInv, LinkUp, Begin, Goto,
       Current, serverVars, dbVars, Gone
  <1>7. BootInv'
    BY UidAssumption DEF IInv, BootInv, TypeOK, CallInv, BatchInv, LinkUp,
       Begin, Goto, Current, historyVars
  <1> QED
    BY <1>1, <1>2, <1>3, <1>4, <1>5, <1>6, <1>7 DEF IInv

LEMMA FetchAnsweredPreserves ==
  ASSUME IInv, NEW c \in Calls, FetchAnswered(c)
  PROVE  IInv'
  <1>1. TypeOK'
    <2>1. 0 \in 0 .. MaxUid
      BY UidAssumption
    <2> QED
      BY <2>1, UidAssumption DEF IInv, FetchAnswered, Goto, Inbox, serverVars, linkVars, callVars, dbVars, historyVars, TypeOK, Places, Phases, InFlight, Outcomes, Uids
  <1>2. BornInv'
    BY UidAssumption DEF IInv, BornInv, TypeOK, FetchAnswered, Inbox,
       serverVars, Uids
  <1>3. CursorInv'
    BY UidAssumption DEF IInv, CursorInv, TypeOK, BornInv, BatchInv, CallInv,
       FetchAnswered, Inbox, serverVars, dbVars, historyVars, Uids
  <1>4. BatchInv'
    BY UidAssumption DEF IInv, BatchInv, TypeOK, CursorInv, BornInv, CallInv,
       FetchAnswered, Inbox, serverVars, historyVars, Uids
  <1>5. CallInv'
    BY UidAssumption DEF IInv, CallInv, TypeOK, FetchAnswered, Goto, Current,
       Inbox, historyVars
  <1>6. LogInv'
    BY UidAssumption DEF IInv, LogInv, TypeOK, CallInv, FetchAnswered, Goto,
       Current, Inbox, serverVars, dbVars, Gone
  <1>7. BootInv'
    <2>1. \A d \in Calls : d # c => batch[d] = {} /\ pc[d] = "idle"
      BY DEF IInv, FetchAnswered, CallInv
    <2>2. \A u \in sinceBoot : u <= lastUid
      BY <2>1 DEF IInv, FetchAnswered, BootInv
    <2>3. \A u \in batch'[c] : u \in Uids /\ u > lastUid
      BY DEF IInv, FetchAnswered, CallInv, TypeOK, Inbox
    <2>4. \A d \in Calls : d # c => batch'[d] = {}
      BY <2>1 DEF IInv, FetchAnswered, TypeOK
    <2>5. sinceBoot' = sinceBoot /\ lastUid' = lastUid
      BY DEF FetchAnswered, historyVars
    <2>6. \A u \in batch'[c] : u \notin sinceBoot
      <3> TAKE u \in batch'[c]
      <3>1. u \in Nat /\ lastUid \in Nat
        BY <2>3, UidAssumption DEF IInv, TypeOK, Uids
      <3> QED
        BY <2>2, <2>3, <3>1
    <2> QED
      BY <2>2, <2>4, <2>5, <2>6 DEF BootInv
  <1> QED
    BY <1>1, <1>2, <1>3, <1>4, <1>5, <1>6, <1>7 DEF IInv

LEMMA FetchRefusedPreserves ==
  ASSUME IInv, NEW c \in Calls, FetchRefused(c)
  PROVE  IInv'
  <1>1. TypeOK'
    <2>1. 0 \in 0 .. MaxUid
      BY UidAssumption
    <2> QED
      BY <2>1, UidAssumption DEF IInv, FetchRefused, Goto, Inbox, serverVars, linkVars, callVars, dbVars, historyVars, TypeOK, Places, Phases, InFlight, Outcomes, Uids
  <1>2. BornInv'
    BY UidAssumption DEF IInv, BornInv, TypeOK, FetchRefused, serverVars, Uids
  <1>3. CursorInv'
    BY UidAssumption DEF IInv, CursorInv, TypeOK, BornInv, BatchInv, CallInv,
       FetchRefused, serverVars, dbVars, historyVars, Uids
  <1>4. BatchInv'
    BY UidAssumption DEF IInv, BatchInv, TypeOK, CursorInv, BornInv, CallInv,
       FetchRefused, serverVars, historyVars, Uids
  <1>5. CallInv'
    BY UidAssumption DEF IInv, CallInv, TypeOK, FetchRefused, Goto, Current,
       historyVars
  <1>6. LogInv'
    BY UidAssumption DEF IInv, LogInv, TypeOK, CallInv, FetchRefused, Goto,
       Current, serverVars, dbVars, Gone
  <1>7. BootInv'
    BY UidAssumption DEF IInv, BootInv, TypeOK, CallInv, BatchInv,
       FetchRefused, Goto, Current, historyVars
  <1> QED
    BY <1>1, <1>2, <1>3, <1>4, <1>5, <1>6, <1>7 DEF IInv

LEMMA FinishPreserves ==
  ASSUME IInv, NEW c \in Calls, Finish(c)
  PROVE  IInv'
  <1>1. TypeOK'
    BY UidAssumption DEF IInv, TypeOK, Finish, Goto, serverVars, linkVars,
       dbVars, historyVars, Places, Phases, InFlight, Outcomes, Uids
  <1>2. BornInv'
    BY UidAssumption DEF IInv, BornInv, TypeOK, Finish, serverVars, Uids
  <1>3. CursorInv'
    BY UidAssumption DEF IInv, CursorInv, TypeOK, BornInv, BatchInv, CallInv,
       Finish, serverVars, dbVars, historyVars, Uids
  <1>4. BatchInv'
    BY UidAssumption DEF IInv, BatchInv, TypeOK, CursorInv, BornInv, CallInv,
       Finish, serverVars, historyVars, Uids
  <1>5. CallInv'
    BY UidAssumption DEF IInv, CallInv, TypeOK, Finish, Goto, Current,
       historyVars
  <1>6. LogInv'
    BY UidAssumption DEF IInv, LogInv, TypeOK, CallInv, Finish, Goto, Current,
       serverVars, dbVars, Gone
  <1>7. BootInv'
    BY UidAssumption DEF IInv, BootInv, TypeOK, CallInv, BatchInv, Finish,
       Goto, Current, historyVars
  <1> QED
    BY <1>1, <1>2, <1>3, <1>4, <1>5, <1>6, <1>7 DEF IInv

LEMMA TakeNextPreserves ==
  ASSUME IInv, NEW c \in Calls, TakeNext(c)
  PROVE  IInv'
  <1> DEFINE m == Current(c)
  <1>0. batch[c] # {} /\ m \in batch[c] /\ m \in Uids /\ \A v \in batch[c] : m <= v
    BY CurrentIsLeast DEF IInv, TypeOK, CallInv, TakeNext
  <1>1. TypeOK'
    BY UidAssumption, <1>0 DEF IInv, TypeOK, TakeNext, Goto, serverVars,
       linkVars, dbVars, Places, Phases, InFlight, Outcomes, Uids
  <1>2. BornInv'
    BY UidAssumption, <1>0 DEF IInv, BornInv, TypeOK, TakeNext, serverVars,
       Uids
  <1>3. CursorInv'
    BY UidAssumption, <1>0 DEF IInv, CursorInv, TypeOK, BornInv, BatchInv,
       CallInv, TakeNext, serverVars, dbVars, Uids
  <1>4. BatchInv'
    BY UidAssumption, <1>0 DEF IInv, BatchInv, TypeOK, CursorInv, BornInv,
       CallInv, TakeNext, serverVars, Uids
  <1>5. CallInv'
    BY UidAssumption, <1>0 DEF IInv, CallInv, TypeOK, TakeNext, Goto, Current
  <1>6. LogInv'
    BY UidAssumption, <1>0 DEF IInv, LogInv, TypeOK, CallInv, TakeNext, Goto,
       Current, serverVars, dbVars, Gone
  <1>7. BootInv'
    BY UidAssumption, <1>0 DEF IInv, BootInv, TypeOK, CallInv, BatchInv,
       TakeNext, Goto, Current
  <1> QED
    BY <1>1, <1>2, <1>3, <1>4, <1>5, <1>6, <1>7 DEF IInv

LEMMA MoveAnsweredPreserves ==
  ASSUME IInv, NEW c \in Calls, MoveAnswered(c)
  PROVE  IInv'
  <1> DEFINE m == Current(c)
  <1>0. batch[c] # {} /\ m \in batch[c] /\ m \in Uids /\ \A v \in batch[c] : m <= v
    BY CurrentIsLeast DEF IInv, TypeOK, CallInv, MoveAnswered
  <1>1. TypeOK'
    BY UidAssumption, <1>0 DEF IInv, TypeOK, MoveAnswered, Goto, Inbox,
       linkVars, dbVars, historyVars, Places, Phases, InFlight, Outcomes, Uids
  <1>2. BornInv'
    BY UidAssumption, <1>0 DEF IInv, BornInv, TypeOK, MoveAnswered, Inbox,
       Uids
  <1>3. CursorInv'
    BY UidAssumption, <1>0 DEF IInv, CursorInv, TypeOK, BornInv, BatchInv,
       CallInv, MoveAnswered, Inbox, dbVars, historyVars, Uids
  <1>4. BatchInv'
    BY UidAssumption, <1>0 DEF IInv, BatchInv, TypeOK, CursorInv, BornInv,
       CallInv, MoveAnswered, Inbox, historyVars, Uids
  <1>5. CallInv'
    BY UidAssumption, <1>0 DEF IInv, CallInv, TypeOK, MoveAnswered, Goto,
       Current, Inbox, historyVars
  <1>6. LogInv'
    BY UidAssumption, <1>0 DEF IInv, LogInv, TypeOK, CallInv, MoveAnswered,
       Goto, Current, Inbox, dbVars, Gone
  <1>7. BootInv'
    BY UidAssumption, <1>0 DEF IInv, BootInv, TypeOK, CallInv, BatchInv,
       MoveAnswered, Goto, Current, Inbox, historyVars
  <1> QED
    BY <1>1, <1>2, <1>3, <1>4, <1>5, <1>6, <1>7 DEF IInv

LEMMA CreateAnsweredPreserves ==
  ASSUME IInv, NEW c \in Calls, CreateAnswered(c)
  PROVE  IInv'
  <1>1. TypeOK'
    BY UidAssumption DEF IInv, TypeOK, CreateAnswered, Goto, linkVars, dbVars,
       historyVars, Places, Phases, InFlight, Outcomes, Uids
  <1>2. BornInv'
    BY UidAssumption DEF IInv, BornInv, TypeOK, CreateAnswered, Uids
  <1>3. CursorInv'
    BY UidAssumption DEF IInv, CursorInv, TypeOK, BornInv, BatchInv, CallInv,
       CreateAnswered, dbVars, historyVars, Uids
  <1>4. BatchInv'
    BY UidAssumption DEF IInv, BatchInv, TypeOK, CursorInv, BornInv, CallInv,
       CreateAnswered, historyVars, Uids
  <1>5. CallInv'
    BY UidAssumption DEF IInv, CallInv, TypeOK, CreateAnswered, Goto, Current,
       historyVars
  <1>6. LogInv'
    BY UidAssumption DEF IInv, LogInv, TypeOK, CallInv, CreateAnswered, Goto,
       Current, dbVars, Gone
  <1>7. BootInv'
    BY UidAssumption DEF IInv, BootInv, TypeOK, CallInv, BatchInv,
       CreateAnswered, Goto, Current, historyVars
  <1> QED
    BY <1>1, <1>2, <1>3, <1>4, <1>5, <1>6, <1>7 DEF IInv

LEMMA LogPreserves ==
  ASSUME IInv, NEW c \in Calls, Log(c)
  PROVE  IInv'
  <1> DEFINE m == Current(c)
  <1>0. batch[c] # {} /\ m \in batch[c] /\ m \in Uids /\ \A v \in batch[c] : m <= v
    BY CurrentIsLeast DEF IInv, TypeOK, CallInv, Log
  <1>1. TypeOK'
    <2>1. logged' \in [Uids -> SUBSET Outcomes]
      BY <1>0 DEF IInv, Log, TypeOK
    <2>2. batch' \in [Calls -> SUBSET Uids]
      BY <1>0 DEF IInv, Log, TypeOK
    <2> QED
      BY <2>1, <2>2, <1>0 DEF IInv, Log, Goto, serverVars, linkVars, callVars, dbVars, historyVars, TypeOK, Phases, Outcomes
  <1>2. BornInv'
    BY UidAssumption, <1>0 DEF IInv, BornInv, TypeOK, Log, serverVars, Uids
  <1>3. CursorInv'
    BY UidAssumption, <1>0 DEF IInv, CursorInv, TypeOK, BornInv, BatchInv,
       CallInv, Log, serverVars, Uids
  <1>4. BatchInv'
    <2>1. \A d \in Calls : batch'[d] \subseteq batch[d]
      BY DEF IInv, Log, TypeOK
    <2>2. \A d \in Calls : \A u \in batch[d] : u \in batch'[d] \/ u = m
      BY DEF IInv, Log, TypeOK
    <2>3. m \in handled' /\ handled \subseteq handled' /\ place' = place
      BY DEF Log, serverVars
    <2> HIDE DEF m
    <2> QED
      BY <2>1, <2>2, <2>3 DEF IInv, BatchInv
  <1>5. CallInv'
    BY UidAssumption, <1>0 DEF IInv, CallInv, TypeOK, Log, Goto, Current
  <1>6. LogInv'
    BY UidAssumption, <1>0 DEF IInv, LogInv, TypeOK, CallInv, Log, Goto,
       Current, serverVars, Gone
  <1>7. BootInv'
    BY UidAssumption, <1>0 DEF IInv, BootInv, TypeOK, CallInv, BatchInv, Log,
       Goto, Current
  <1> QED
    BY <1>1, <1>2, <1>3, <1>4, <1>5, <1>6, <1>7 DEF IInv

LEMMA SavePreserves ==
  ASSUME IInv, NEW c \in Calls, Save(c)
  PROVE  IInv'
  <1> DEFINE m == Current(c)
  <1>0. batch[c] # {} /\ m \in batch[c] /\ m \in Uids /\ \A v \in batch[c] : m <= v
    BY CurrentIsLeast DEF IInv, TypeOK, CallInv, Save
  <1>1. TypeOK'
    BY UidAssumption, <1>0 DEF IInv, TypeOK, Save, Goto, serverVars, linkVars,
       historyVars, Places, Phases, InFlight, Outcomes, Uids
  <1>2. BornInv'
    BY UidAssumption, <1>0 DEF IInv, BornInv, TypeOK, Save, serverVars, Uids
  <1>3. CursorInv'
    BY UidAssumption, <1>0 DEF IInv, CursorInv, TypeOK, BornInv, BatchInv,
       CallInv, Save, serverVars, historyVars, Uids
  <1>4. BatchInv'
    BY UidAssumption, <1>0 DEF IInv, BatchInv, TypeOK, CursorInv, BornInv,
       CallInv, Save, serverVars, historyVars, Uids
  <1>5. CallInv'
    BY UidAssumption, <1>0 DEF IInv, CallInv, TypeOK, Save, Goto, Current,
       historyVars
  <1>6. LogInv'
    BY UidAssumption, <1>0 DEF IInv, LogInv, TypeOK, CallInv, Save, Goto,
       Current, serverVars, Gone
  <1>7. BootInv'
    <2>1. \A d \in Calls : d # c => batch'[d] = batch[d] /\ pc'[d] = pc[d]
      BY DEF IInv, Save, Goto, TypeOK
    <2>2. batch'[c] = batch[c] \ {m}
      BY DEF IInv, Save, TypeOK
    <2>3. sinceBoot' = sinceBoot /\ lastUid <= lastUid' /\ m <= lastUid'
      BY <1>0, UidAssumption DEF IInv, Save, TypeOK, Uids, historyVars
    <2>4. \A d \in Calls : pc[d] = "saving" => d = c
      BY DEF IInv, Save, CallInv
    <2>5. \A u \in sinceBoot : u <= lastUid \/ u = m
      BY <2>4 DEF IInv, BootInv
    <2>6. \A u \in sinceBoot : u <= lastUid'
      <3> TAKE u \in sinceBoot
      <3>1. u \in Nat /\ lastUid \in Nat /\ lastUid' \in Nat
        BY <1>0, UidAssumption DEF IInv, Save, TypeOK, Uids
      <3> QED
        BY <2>3, <2>5, <3>1
    <2>7. \A d \in Calls : \A u \in batch'[d] : u \notin sinceBoot
      BY <2>1, <2>2, <2>4 DEF IInv, BootInv
    <2> QED
      BY <2>3, <2>6, <2>7 DEF BootInv
  <1> QED
    BY <1>1, <1>2, <1>3, <1>4, <1>5, <1>6, <1>7 DEF IInv

LEMMA LinkDownPreserves ==
  ASSUME IInv, LinkDown
  PROVE  IInv'
  <1>1. TypeOK'
    <2>1. 0 \in 0 .. MaxUid
      BY UidAssumption
    <2> QED
      BY <2>1, UidAssumption DEF IInv, LinkDown, Inbox, serverVars, linkVars, callVars, dbVars, historyVars, TypeOK, Places, Phases, InFlight, Outcomes, Uids
  <1>2. BornInv'
    BY UidAssumption DEF IInv, BornInv, TypeOK, LinkDown, Inbox, Uids
  <1>3. CursorInv'
    BY UidAssumption DEF IInv, CursorInv, TypeOK, BornInv, BatchInv, CallInv,
       LinkDown, Inbox, dbVars, historyVars, Uids
  <1>4. BatchInv'
    BY UidAssumption DEF IInv, BatchInv, TypeOK, CursorInv, BornInv, CallInv,
       LinkDown, Inbox, historyVars, Uids
  <1>5. CallInv'
    <2>1. \A d \in Calls : pc[d] \in {"idle"} \cup InFlight
      BY DEF LinkDown, AtRest
    <2>2. \A d \in Calls :
            /\ pc'[d] = IF pc[d] \in {"idle", "fetching"} THEN "idle" ELSE "logging"
            /\ batch'[d] = batch[d]
      BY <2>1 DEF LinkDown, callVars, InFlight
    <2>3. processing' = (processing /\ \E d \in Calls : pc[d] \notin {"idle", "fetching"})
      BY DEF LinkDown
    <2> QED
      BY <2>1, <2>2, <2>3 DEF IInv, CallInv, InFlight
  <1>6. LogInv'
    BY UidAssumption DEF IInv, LogInv, TypeOK, CallInv, LinkDown, Current,
       Inbox, dbVars, Gone
  <1>7. BootInv'
    <2>1. \A d \in Calls : pc[d] # "saving"
      BY DEF LinkDown, AtRest, InFlight
    <2>2. batch' = batch /\ sinceBoot' = sinceBoot /\ lastUid' = lastUid
      BY DEF LinkDown, historyVars
    <2> QED
      BY <2>1, <2>2 DEF IInv, BootInv
  <1> QED
    BY <1>1, <1>2, <1>3, <1>4, <1>5, <1>6, <1>7 DEF IInv

LEMMA CrashPreserves ==
  ASSUME IInv, Crash
  PROVE  IInv'
  <1>1. TypeOK'
    <2>1. 0 \in 0 .. MaxUid /\ crashes' \in 0 .. MaxCrashes
      BY UidAssumption DEF IInv, TypeOK, Crash
    <2>2. lastUid' \in 0 .. MaxUid
      BY <2>1 DEF IInv, TypeOK, Crash
    <2> QED
      BY <2>1, <2>2 DEF IInv, Crash, serverVars, linkVars, callVars, dbVars, historyVars, TypeOK, Places, Phases, InFlight, Outcomes, Uids
  <1>2. BornInv'
    <2>1. place' = place /\ lastUid' \in 0 .. lastUid
      BY UidAssumption DEF IInv, Crash, CursorInv, TypeOK, serverVars
    <2>2. \A d \in Calls : batch'[d] = {}
      BY DEF Crash
    <2>3. \A u \in Uids : u <= lastUid' => u <= lastUid
      BY <2>1, UidAssumption DEF IInv, TypeOK, Uids
    <2> QED
      BY <2>1, <2>2, <2>3 DEF IInv, BornInv
  <1>3. CursorInv'
    <2>1. /\ place' = place /\ handled' = handled /\ saved' = saved
          /\ lastUid' \in 0 .. lastUid
          /\ saved' <= lastUid'
      <3>1. saved \in Nat /\ lastUid \in Nat
        BY UidAssumption DEF IInv, TypeOK
      <3> QED
        BY <3>1, CursorAssumption DEF IInv, Crash, CursorInv, serverVars, dbVars
    <2>2. \A u \in Uids : u <= lastUid' => u <= lastUid
      BY <2>1, UidAssumption DEF IInv, TypeOK, Uids
    <2> QED
      BY <2>1, <2>2 DEF IInv, CursorInv
  <1>4. BatchInv'
    BY UidAssumption DEF IInv, BatchInv, TypeOK, CursorInv, BornInv, CallInv,
       Crash, serverVars, Uids
  <1>5. CallInv'
    BY UidAssumption DEF IInv, CallInv, TypeOK, Crash, Current
  <1>6. LogInv'
    BY UidAssumption DEF IInv, LogInv, TypeOK, CallInv, Crash, Current,
       serverVars, dbVars, Gone
  <1>7. BootInv'
    BY UidAssumption DEF IInv, BootInv, TypeOK, CallInv, BatchInv, Crash,
       Current
  <1> QED
    BY <1>1, <1>2, <1>3, <1>4, <1>5, <1>6, <1>7 DEF IInv

LEMMA StutterPreserves ==
  ASSUME IInv, UNCHANGED vars
  PROVE  IInv'
  <1>1. TypeOK' /\ BornInv' /\ CursorInv' /\ BatchInv'
    BY DEF IInv, TypeOK, BornInv, CursorInv, BatchInv, vars, serverVars, linkVars,
           callVars, dbVars, historyVars
  <1>2. CallInv' /\ LogInv' /\ BootInv'
    BY DEF IInv, CallInv, LogInv, BootInv, Current, vars, serverVars, linkVars,
           callVars, dbVars, historyVars
  <1> QED
    BY <1>1, <1>2 DEF IInv

LEMMA Preserved == IInv /\ [Next]_vars => IInv'
  <1> SUFFICES ASSUME IInv, [Next]_vars PROVE IInv'
    OBVIOUS
  <1>1. ASSUME NEW u \in Uids, Arrive(u) \/ TakenAway(u) PROVE IInv'
    BY <1>1, ArrivePreserves, TakenAwayPreserves
  <1>2. ASSUME NEW c \in Calls, Step(c) PROVE IInv'
    BY <1>2, FetchAnsweredPreserves, FetchRefusedPreserves, FinishPreserves,
       TakeNextPreserves, MoveAnsweredPreserves, CreateAnsweredPreserves,
       LogPreserves, SavePreserves DEF Step
  <1>3. CASE UpdateRules \/ NewMail \/ LinkUp
    BY <1>3, UpdateRulesPreserves, NewMailPreserves, LinkUpPreserves
  <1>4. CASE LinkDown \/ Crash
    BY <1>4, LinkDownPreserves, CrashPreserves
  <1>5. CASE UNCHANGED vars
    BY <1>5, StutterPreserves
  <1> QED
    BY <1>1, <1>2, <1>3, <1>4, <1>5 DEF Next

LEMMA Inductive == Spec => []IInv
  BY Initially, Preserved, PTL DEF Spec

\* Every variable keeps the type the code gives it: the cursor is the uid of a
\* message or 0, whatever the number of messages, calls and crashes.
THEOREM TypeCorrect == Spec => []TypeOK
  <1>1. IInv => TypeOK
    BY DEF IInv
  <1> QED
    BY <1>1, Inductive, PTL

\* The cursor in the database never passes over a message of INBOX that
\* processMessage() has neither returned nor thrown for (monitor/index.ts).
THEOREM CursorPassesNothing == Spec => []NothingPassedOver
  <1>1. IInv => NothingPassedOver
    <2> SUFFICES ASSUME IInv, NEW u \in Inbox, u <= saved PROVE u \in handled
      BY DEF NothingPassedOver
    <2>1. u \in Nat /\ saved \in Nat /\ lastUid \in Nat
      BY UidAssumption DEF IInv, TypeOK, Inbox, Uids
    <2>2. u <= lastUid
      BY <2>1 DEF IInv, CursorInv
    <2> QED
      BY <2>2 DEF IInv, CursorInv, Inbox
  <1> QED
    BY <1>1, Inductive, PTL

\* What the activity log records as moved has left INBOX (actions/index.ts).
THEOREM LoggedSuccessIsTrue == Spec => []SuccessIsTrue
  <1>1. IInv => SuccessIsTrue
    BY DEF IInv, LogInv, SuccessIsTrue, Inbox, Gone
  <1> QED
    BY <1>1, Inductive, PTL

\* Between two starts a message is acted on and logged at most once, however
\* many events call processNewMessages() (monitor/index.ts).
THEOREM ActedOnOncePerBoot == Spec => OncePerBoot
  <1>1. ASSUME IInv, [Next]_vars, NEW c \in Calls,
               pc[c] = "logging", pc'[c] = "saving"
        PROVE  Current(c) \notin sinceBoot
    <2>1. batch[c] # {}
      BY <1>1 DEF IInv, CallInv
    <2>2. Current(c) \in batch[c]
      BY <1>1, <2>1, CurrentIsLeast DEF IInv
    <2> QED
      BY <1>1, <2>2 DEF IInv, BootInv
  <1>2. IInv /\ [Next]_vars =>
          [\A c \in Calls :
             pc[c] = "logging" /\ pc'[c] = "saving" => Current(c) \notin sinceBoot]_vars
    BY <1>1
  <1> QED
    BY <1>2, Inductive, PTL DEF Spec, OncePerBoot

-----------------------------------------------------------------------------
(* The refinement: each step is a step of Arrival, or none it can see.     *)

Claimed == {u \in Uids : "moved" \in logged[u]}

\* A step that leaves what Arrival speaks of alone is a stutter.
LEMMA Unseen ==
  ASSUME UNCHANGED << place, handled, logged, saved >>
  PROVE  UNCHANGED Promise!vars
  <1>1. Claimed' = Claimed
    BY DEF Claimed
  <1> QED
    BY <1>1 DEF Promise!vars, Claimed

\* The arrival of a message is above the cursor.
LEMMA ArriveSimulated ==
  ASSUME IInv, NEW u \in Uids, Arrive(u)
  PROVE  Promise!Next
  <1>1. u > saved
    <2>1. u \in Nat /\ saved \in Nat /\ lastUid \in Nat /\ place[u] = "unborn"
      BY UidAssumption DEF IInv, TypeOK, Arrive, Uids
    <2>2. ~(u <= lastUid) /\ saved <= lastUid
      BY <2>1 DEF IInv, BornInv, CursorInv
    <2> QED
      BY <2>1, <2>2
  <1>2. Claimed' = Claimed
    BY DEF Arrive, dbVars, Claimed
  <1>3. Promise!Arrives(u)
    BY <1>1, <1>2 DEF Arrive, dbVars, historyVars, Promise!Arrives, Claimed
  <1> QED
    BY <1>3 DEF Promise!Next

\* Whoever moves it, a message leaves INBOX once.
LEMMA LeavesSimulated ==
  ASSUME IInv, NEW u \in Inbox, NEW to \in {"filed", "away"},
         place' = [place EXCEPT ![u] = to],
         UNCHANGED << handled, logged, saved >>
  PROVE  Promise!Next
  <1>1. Claimed' = Claimed
    BY DEF Claimed
  <1>2. u \in Uids /\ u \in Promise!Inbox
    BY DEF Inbox, Promise!Inbox
  <1>3. Promise!Leaves(u)
    BY <1>1, <1>2 DEF Promise!Leaves, Claimed
  <1> QED
    BY <1>2, <1>3 DEF Promise!Next

\* What the pipeline reports of one message is a step of the abstract pipeline.
LEMMA ReportIsStep ==
  ASSUME NEW u \in Uids, Promise!Reports(u)
  PROVE  Promise!Next
  BY DEF Promise!Next

\* processMessage() ends without a row, or with one that is true.
LEMMA TakeNextSimulated ==
  ASSUME IInv, NEW c \in Calls, TakeNext(c)
  PROVE  Promise!Next \/ UNCHANGED Promise!vars
  <1>1. place' = place /\ logged' = logged /\ saved' = saved
    BY DEF TakeNext, serverVars, dbVars
  <1>2. Claimed' = Claimed
    BY <1>1 DEF Claimed
  <1>3. Current(c) \in Uids /\ place[Current(c)] # "unborn"
    BY CurrentIsLeast DEF IInv, TakeNext, BornInv
  <1>4. CASE handled' = handled
    BY <1>1, <1>4, Unseen
  <1>5. CASE handled' = handled \cup {Current(c)}
    <2>1. PICK u \in Uids : u = Current(c)
      BY <1>3
    <2>2. Promise!Reports(u)
      BY <1>1, <1>2, <1>3, <1>5, <2>1 DEF Promise!Reports, Claimed
    <2> QED
      BY <2>2, ReportIsStep
  <1> QED
    BY <1>4, <1>5 DEF TakeNext

\* The row Log() writes claims a move only of a message that has left INBOX.
LEMMA LogSimulated ==
  ASSUME IInv, NEW c \in Calls, Log(c)
  PROVE  Promise!Next
  <1>a. Current(c) \in Uids /\ place[Current(c)] # "unborn"
    BY CurrentIsLeast DEF IInv, CallInv, Log, BornInv
  <1>b. PICK m \in Uids : m = Current(c)
    BY <1>a
  <1>1. m \in Uids /\ place[m] # "unborn"
    BY <1>a, <1>b
  <1>2. place' = place /\ saved' = saved /\ handled' = handled \cup {m}
    BY <1>b DEF Log, serverVars
  <1>3. logged' = logged \/ logged' = [logged EXCEPT ![m] = @ \cup {outcome[c]}]
    BY <1>b DEF Log
  <1>4. \/ Claimed' = Claimed
        \/ m \notin Inbox /\ Claimed' = Claimed \cup {m}
    <2>1. CASE outcome[c] = "moved"
      <3>1. m \notin Inbox
        BY <1>b, <2>1 DEF IInv, LogInv, Gone, Inbox
      <3>2. Claimed' = Claimed \/ Claimed' = Claimed \cup {m}
        BY <1>1, <1>3, <2>1 DEF IInv, TypeOK, Claimed
      <3> QED
        BY <3>1, <3>2
    <2>2. CASE outcome[c] # "moved"
      BY <1>1, <1>3, <2>2 DEF IInv, TypeOK, Claimed
    <2> QED
      BY <2>1, <2>2
  <1>5. Promise!Reports(m)
    BY <1>1, <1>2, <1>4 DEF Promise!Reports, Promise!Inbox, Inbox, Claimed
  <1> QED
    BY <1>5, ReportIsStep

\* What the cursor passes has been dealt with: the message is the first of its
\* batch, and a batch has no gap.
LEMMA SaveSimulated ==
  ASSUME IInv, NEW c \in Calls, Save(c)
  PROVE  Promise!Next \/ UNCHANGED Promise!vars
  <1> DEFINE m == Current(c)
  <1>1. m \in Uids /\ m \in batch[c] /\ m \in handled /\ \A v \in batch[c] : m <= v
    BY CurrentIsLeast DEF IInv, CallInv, Save
  <1>2. place' = place /\ handled' = handled /\ logged' = logged
    BY DEF Save, serverVars, historyVars
  <1>3. Claimed' = Claimed
    BY <1>2 DEF Claimed
  <1>4. CASE saved' = saved
    BY <1>2, <1>4, Unseen
  <1>5. CASE saved' # saved
    <2>1. saved' = m /\ m > lastUid
      BY <1>5 DEF Save
    <2>2. m > saved
      BY <1>1, <2>1, UidAssumption DEF IInv, TypeOK, CursorInv, Uids
    <2>3. ASSUME NEW v \in Uids, v <= m
          PROVE  place[v] # "unborn" /\ (place[v] = "inbox" => v \in handled)
      <3>1. v \in Nat /\ m \in Nat
        BY <1>1, UidAssumption DEF Uids
      <3>2. v = m \/ v < m
        BY <2>3, <3>1
      <3>3. place[v] # "unborn"
        BY <1>1, <3>2 DEF IInv, BornInv
      <3>4. ASSUME v \in batch[c] PROVE v = m
        BY <1>1, <2>3, <3>1, <3>4
      <3>5. place[v] = "inbox" => v \in handled
        BY <1>1, <2>3, <3>4 DEF IInv, BatchInv
      <3> QED
        BY <3>3, <3>5
    <2>4. Promise!Passes(m)
      BY <1>2, <1>3, <2>1, <2>2, <2>3 DEF Promise!Passes, Promise!Inbox, Claimed
    <2> QED
      BY <1>1, <2>4 DEF Promise!Next
  <1> QED
    BY <1>4, <1>5

\* A connection that breaks has at most one MOVE in flight.
LEMMA LinkDownSimulated ==
  ASSUME IInv, LinkDown
  PROVE  Promise!Next \/ UNCHANGED Promise!vars
  <1>1. UNCHANGED << handled, logged, saved >>
    BY DEF LinkDown, dbVars, historyVars
  <1>2. PICK done \in SUBSET {c \in Calls : pc[c] \in {"moving", "retrying"}
                                          /\ folder /\ Current(c) \in Inbox} :
          place' = [u \in Uids |-> IF \E c \in done : u = Current(c) THEN "filed" ELSE place[u]]
    BY DEF LinkDown
  <1>3. CASE done = {}
    <2>1. place' = place
      BY <1>2, <1>3 DEF IInv, TypeOK
    <2> QED
      BY <1>1, <2>1, Unseen
  <1>4. CASE done # {}
    <2>1. PICK d \in done : TRUE
      BY <1>4
    <2>2. d \in Calls /\ Current(d) \in Inbox
      BY <1>2
    <2>3. \A c \in done : c = d
      BY <1>2, <2>2 DEF IInv, CallInv
    <2>4. place' = [place EXCEPT ![Current(d)] = "filed"]
      BY <1>2, <2>2, <2>3 DEF IInv, TypeOK
    <2> QED
      BY <1>1, <2>2, <2>4, LeavesSimulated
  <1> QED
    BY <1>3, <1>4

\* The server's answer moves the message in hand out of INBOX, or nothing.
LEMMA MoveAnsweredSimulated ==
  ASSUME IInv, NEW c \in Calls, MoveAnswered(c)
  PROVE  Promise!Next \/ UNCHANGED Promise!vars
  <1>1. UNCHANGED << handled, logged, saved >>
    BY DEF MoveAnswered, dbVars, historyVars
  <1>2. CASE place' = place
    BY <1>1, <1>2, Unseen
  <1>3. CASE Current(c) \in Inbox /\ place' = [place EXCEPT ![Current(c)] = "filed"]
    BY <1>1, <1>3, LeavesSimulated
  <1> QED
    BY <1>2, <1>3 DEF MoveAnswered

\* What others take out of INBOX is gone for good as well.
LEMMA TakenAwaySimulated ==
  ASSUME IInv, NEW u \in Uids, TakenAway(u)
  PROVE  Promise!Next
  <1>1. u \in Inbox /\ place' = [place EXCEPT ![u] = "away"]
    BY DEF TakenAway, Inbox
  <1>2. UNCHANGED << handled, logged, saved >>
    BY DEF TakenAway, dbVars, historyVars
  <1> QED
    BY <1>1, <1>2, LeavesSimulated

\* Every step of the pipeline is a step of Arrival or one it does not see.
LEMMA Simulated == IInv /\ [Next]_vars => [Promise!Next]_(Promise!vars)
  <1> SUFFICES ASSUME IInv, [Next]_vars
               PROVE  Promise!Next \/ UNCHANGED Promise!vars
    OBVIOUS
  <1>1. ASSUME NEW u \in Uids, Arrive(u) \/ TakenAway(u) PROVE Promise!Next
    BY <1>1, ArriveSimulated, TakenAwaySimulated
  <1>2. ASSUME NEW c \in Calls, Step(c)
        PROVE  Promise!Next \/ UNCHANGED Promise!vars
    <2>1. CASE FetchAnswered(c) \/ FetchRefused(c) \/ Finish(c) \/ CreateAnswered(c)
      <3>1. UNCHANGED << place, handled, logged, saved >>
        BY <2>1 DEF FetchAnswered, FetchRefused, Finish, CreateAnswered, serverVars,
                    dbVars, historyVars
      <3> QED
        BY <3>1, Unseen
    <2> QED
      BY <1>2, <2>1, TakeNextSimulated, MoveAnsweredSimulated, LogSimulated,
         SaveSimulated DEF Step
  <1>3. CASE UpdateRules \/ NewMail \/ LinkUp \/ Crash \/ UNCHANGED vars
    <2>1. UNCHANGED << place, handled, logged, saved >>
      BY <1>3 DEF UpdateRules, NewMail, LinkUp, Crash, vars, serverVars, dbVars,
                  historyVars
    <2> QED
      BY <2>1, Unseen
  <1>4. CASE LinkDown
    BY <1>4, LinkDownSimulated
  <1> QED
    BY <1>1, <1>2, <1>3, <1>4 DEF Next

\* The pipeline implements Arrival: with any number of messages, crashes and
\* lost connections it files a message once, claims in the log only moves that
\* have happened, and saves no cursor past a message it has not dealt with.
THEOREM PromiseKept == Spec => KeepsPromise
  <1>1. Init => Promise!Init
    BY DEF Init, Promise!Init
  <1> QED
    BY <1>1, Simulated, Inductive, PTL DEF Spec, KeepsPromise, Promise!Spec

=============================================================================
