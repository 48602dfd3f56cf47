------------------------ MODULE MoveTracking_proofs ------------------------
(***************************************************************************)
(* Proofs about MoveTracking, for any messages, deep scans and bounds: it  *)
(* keeps its types, a move gives one signal, and the moves the log has as  *)
(* the system's give none.                                                 *)
(*                                                                         *)
(* The argument follows an entry.  It is held while a snapshot or a scan   *)
(* has it, and handled from when it is pending until it is signalled or    *)
(* dropped.  A handled entry is in one place of the tracker, the message   *)
(* has left that folder under that uid for good (Gone), and so no later    *)
(* snapshot has it.  A scan compares only what was numbered under the same *)
(* UIDVALIDITY, so a message that is gone was taken by somebody; the log   *)
(* says of each move of the system that it is in it.                       *)
(***************************************************************************)
EXTENDS MoveTracking, TLAPS

-----------------------------------------------------------------------------
(* Types.                                                                  *)

\* The entries with the message's name and number are those of Entries.
LEMMA EntryType ==
  ASSUME NEW e \in Entries
  PROVE  e.msg \in Messages /\ e.uid \in Uids /\ e.src \in Tracked
BY DEF Entries

\* The mishaps are counted up to their bound.
LEMMA MishapType ==
  ASSUME TypeOK, Mishap
  PROVE  mishaps' \in 0 .. MaxMishaps
BY BoundAssumption DEF TypeOK, Mishap

\* A message that enters a folder keeps the types of the server's variables.
LEMMA EntersType ==
  ASSUME TypeOK, NEW m \in Messages, NEW f \in Folders, Enters(m, f)
  PROVE  place' \in [Messages -> Places] /\ uid' \in [Messages -> Uids]
<1>1. uid \in [Messages -> Uids] /\ uid[m] \in Uids /\ uid[m] + 1 \in Uids
  BY BoundAssumption DEF TypeOK, Enters, Uids
<1> QED
  BY <1>1 DEF TypeOK, Enters, Places

\* So does one that leaves.
LEMMA LeavesType ==
  ASSUME TypeOK, NEW m \in Messages, NEW who \in {"user", "unlogged"}, Leaves(m, who)
  PROVE  taken' \in [Messages -> [Uids -> {"no", "user", "logged", "unlogged"}]]
BY DEF TypeOK, Leaves

\* What is in a tracked folder is a set of entries of that folder.
LEMMA ContentType ==
  ASSUME NEW f
  PROVE  Content(f) \subseteq Entries /\ \A e \in Content(f) : e.src = f
BY DEF Content

\* A folder that is done keeps the types of the snapshot and the scan.
LEMMA FolderDoneType ==
  ASSUME TypeOK, NEW S, S \subseteq Entries, \A e \in S : e.src = folder, FolderDone(S)
  PROVE  /\ snapshot' \in [Tracked -> SUBSET Entries]
         /\ \A f \in Tracked : \A e \in snapshot'[f] : e.src = f
         /\ pc' \in {"idle", "fetching"} /\ folder' \in Tracked
         /\ seen' = {} /\ prev' = {} /\ todo' = {} /\ resolving' = NoEntry
<1>1. folder \in Tracked /\ snapshot \in [Tracked -> SUBSET Entries]
      /\ \A f \in Tracked : \A e \in snapshot[f] : e.src = f
  BY DEF TypeOK
<1>2. snapshot' = [snapshot EXCEPT ![folder] = S]
  BY DEF FolderDone
<1> QED
  BY <1>1, <1>2 DEF FolderDone, Tracked

\* Signals are counted.
LEMMA SignalsType ==
  ASSUME TypeOK, NEW S, LogSignals(S)
  PROVE  signals' \in [Entries -> Nat]
BY DEF TypeOK, LogSignals

\* The seen entries are those of the scanned folder, and what it compares them
\* with is its snapshot: this and the types is what a scan needs.
ScanInv ==
  /\ \A e \in seen : e.src = folder
  /\ prev \subseteq snapshot[folder]
  /\ todo \subseteq pending
  /\ pc = "resolving" => resolving \in Entries
  /\ pc \in {"idle", "fetching"} => seen = {} /\ prev = {}

\* They hold to begin with.
LEMMA InitType == Init => TypeOK /\ ScanInv
BY BoundAssumption, EntryAssumption
   DEF Init, TypeOK, ScanInv, Places, Folders, Tracked, Uids

\* What happens to the mailbox, the connection and the log.
World ==
  \/ \E m \in Messages :
       \/ Arrive(m) \/ UserDeletes(m) \/ SystemSkips(m) \/ Age(m)
       \/ \E f \in Folders : UserMoves(m, f) \/ SystemMoves(m, f)
  \/ \E f \in Tracked : Renumber(f)
  \/ SystemLogs \/ LinkDown \/ LinkUp

\* The steps of the mailbox and the connection keep the types.
LEMMA WorldType ==
  ASSUME TypeOK, World
  PROVE  TypeOK'
<1> USE BoundAssumption DEF serverVars, linkVars, logVars, dbVars, scanVars, deepVars
<1>1. ASSUME NEW m \in Messages, Arrive(m)
      PROVE  TypeOK'
  BY <1>1, EntersType DEF Arrive, TypeOK, Folders, Tracked
<1>2. ASSUME NEW m \in Messages, UserDeletes(m)
      PROVE  TypeOK'
  <2>1. taken' \in [Messages -> [Uids -> {"no", "user", "logged", "unlogged"}]]
    BY <1>2, LeavesType DEF UserDeletes
  <2> QED
    BY <1>2, <2>1 DEF UserDeletes, TypeOK, Places
<1>3. ASSUME NEW m \in Messages, SystemSkips(m)
      PROVE  TypeOK'
  BY <1>3 DEF SystemSkips, TypeOK
<1>4. ASSUME NEW m \in Messages, Age(m)
      PROVE  TypeOK'
  <2>1. taken' \in [Messages -> [Uids -> {"no", "user", "logged", "unlogged"}]]
    BY <1>4 DEF Age, TypeOK
  <2> QED
    BY <1>4, <2>1, MishapType DEF Age, TypeOK
<1>5. ASSUME NEW m \in Messages, NEW f \in Folders, UserMoves(m, f)
      PROVE  TypeOK'
  <2>1. place' \in [Messages -> Places] /\ uid' \in [Messages -> Uids]
    BY <1>5, EntersType DEF UserMoves
  <2>2. taken' \in [Messages -> [Uids -> {"no", "user", "logged", "unlogged"}]]
    BY <1>5, LeavesType DEF UserMoves
  <2> QED
    BY <1>5, <2>1, <2>2 DEF UserMoves, TypeOK
<1>6. ASSUME NEW m \in Messages, NEW f \in Folders, SystemMoves(m, f)
      PROVE  TypeOK'
  <2>1. place' \in [Messages -> Places] /\ uid' \in [Messages -> Uids]
    BY <1>6, EntersType DEF SystemMoves
  <2>2. taken' \in [Messages -> [Uids -> {"no", "user", "logged", "unlogged"}]]
    BY <1>6, LeavesType DEF SystemMoves
  <2>3. moving' \in Moves
    BY <1>6 DEF SystemMoves, Move, Moves, TypeOK
  <2> QED
    BY <1>6, <2>1, <2>2, <2>3 DEF SystemMoves, TypeOK
<1>7. ASSUME NEW f \in Tracked, Renumber(f)
      PROVE  TypeOK'
  <2>1. uid' \in [Messages -> Uids]
    BY <1>7 DEF Renumber, TypeOK, Uids
  <2>2. validity' \in [Tracked -> Nat \ {0}]
    BY <1>7 DEF Renumber, TypeOK
  <2> QED
    BY <1>7, <2>1, <2>2, MishapType DEF Renumber, TypeOK
<1>8. CASE SystemLogs
  <2>1. moving.msg \in Messages /\ moving.uid \in Uids /\ moving.to \in Folders
    BY <1>8 DEF SystemLogs, TypeOK, Moves
  <2>2. taken' \in [Messages -> [Uids -> {"no", "user", "logged", "unlogged"}]]
    BY <1>8, <2>1 DEF SystemLogs, TypeOK
  <2> QED
    BY <1>8, <2>1, <2>2 DEF SystemLogs, TypeOK
<1>9. CASE LinkDown
  BY <1>9, MishapType DEF LinkDown, TypeOK
<1>10. CASE LinkUp
  BY <1>10 DEF LinkUp, TypeOK
<1> QED
  BY <1>1, <1>2, <1>3, <1>4, <1>5, <1>6, <1>7, <1>8, <1>9, <1>10 DEF World

\* The steps of the scan keep the types, and the relation of what it has to the
\* snapshot.
LEMMA ScanType ==
  ASSUME TypeOK, ScanInv, Scan
  PROVE  TypeOK' /\ ScanInv'
<1> USE DEF serverVars, linkVars, logVars, dbVars, scanVars, deepVars
<1>1. CASE ScanBegins
  BY <1>1 DEF ScanBegins, TypeOK, ScanInv, Tracked
<1>2. CASE Fetched
  <2> DEFINE C == Content(folder)
  <2>1. C \subseteq Entries /\ \A e \in C : e.src = folder
    BY ContentType
  <2>2. folder \in Tracked /\ validity[folder] \in Nat
    BY DEF TypeOK
  <2>3. CASE base[folder] # validity[folder]
    <3>1. FolderDone(C) /\ base' = [base EXCEPT ![folder] = validity[folder]]
      BY <1>2, <2>3 DEF Fetched
    <3>2. /\ snapshot' \in [Tracked -> SUBSET Entries]
          /\ \A f \in Tracked : \A e \in snapshot'[f] : e.src = f
          /\ pc' \in {"idle", "fetching"} /\ folder' \in Tracked
          /\ seen' = {} /\ prev' = {} /\ todo' = {} /\ resolving' = NoEntry
      BY <2>1, <3>1, FolderDoneType
    <3>3. base' \in [Tracked -> Nat] /\ pending' = pending
      BY <1>2, <2>2, <2>3, <3>1 DEF TypeOK, Fetched
    <3> QED
      BY <1>2, <3>2, <3>3 DEF Fetched, TypeOK, ScanInv
  <2>4. CASE base[folder] = validity[folder]
    <3>1. /\ pc' = "confirming" /\ seen' = C /\ prev' = snapshot[folder]
          /\ todo' = {e \in pending : e.src = folder}
          /\ UNCHANGED << dbVars, folder, resolving, pending >>
      BY <1>2, <2>4 DEF Fetched
    <3>2. snapshot[folder] \subseteq Entries
      BY <2>2 DEF TypeOK
    <3> QED
      BY <1>2, <2>1, <3>1, <3>2 DEF Fetched, TypeOK, ScanInv
  <2> QED
    BY <2>3, <2>4
<1>3. CASE ScanFails
  <2>1. seen = {} /\ prev = {}
    BY <1>3 DEF ScanFails, ScanInv
  <2> QED
    BY <1>3 DEF ScanFails, TypeOK, ScanInv, Tracked
<1>4. CASE Resolved
  <2>1. signals' \in [Entries -> Nat]
    BY <1>4, SignalsType DEF Resolved
  <2> QED
    BY <1>4, <2>1 DEF Resolved, TypeOK, ScanInv
<1>5. CASE Unresolved
  BY <1>5 DEF Unresolved, TypeOK, ScanInv
<1>6. CASE Compares
  <2>1. /\ snapshot' \in [Tracked -> SUBSET Entries]
        /\ \A f \in Tracked : \A e \in snapshot'[f] : e.src = f
        /\ pc' \in {"idle", "fetching"} /\ folder' \in Tracked
        /\ seen' = {} /\ prev' = {} /\ todo' = {} /\ resolving' = NoEntry
    BY <1>6, FolderDoneType DEF Compares, TypeOK, ScanInv
  <2>2. pending' \subseteq Entries
    BY <1>6 DEF Compares, TypeOK
  <2> QED
    BY <1>6, <2>1, <2>2 DEF Compares, TypeOK, ScanInv
<1>7. ASSUME NEW e \in todo, Confirms(e)
      PROVE  TypeOK' /\ ScanInv'
  <2>1. e \in Entries
    BY DEF TypeOK
  <2> QED
    BY <1>7, <2>1 DEF Confirms, TypeOK, ScanInv
<1> QED
  BY <1>1, <1>2, <1>3, <1>4, <1>5, <1>6, <1>7 DEF Scan

\* So do those of a deep scan,
LEMMA DeepType ==
  ASSUME TypeOK, ScanInv, NEW d \in DeepScans, DeepScan(d)
  PROVE  TypeOK' /\ ScanInv'
<1> USE DEF serverVars, linkVars, logVars, dbVars, scanVars, deepVars
<1>1. CASE DeepBegins(d)
  BY <1>1 DEF DeepBegins, TypeOK, ScanInv
<1>2. CASE DeepEnds(d)
  <2>1. signals' \in [Entries -> Nat]
    BY <1>2, SignalsType DEF DeepEnds
  <2> QED
    BY <1>2, <2>1 DEF DeepEnds, TypeOK, ScanInv
<1>3. ASSUME NEW e \in deep, DeepSearched(d, e)
      PROVE  TypeOK' /\ ScanInv'
  <2>1. e.msg \in Messages
    BY EntryType DEF TypeOK
  <2> QED
    BY <1>3, <2>1 DEF DeepSearched, TypeOK, ScanInv
<1> QED
  BY <1>1, <1>2, <1>3 DEF DeepScan

\* and a restart.
LEMMA CrashType ==
  ASSUME TypeOK, Crash
  PROVE  TypeOK' /\ ScanInv'
<1>1. mishaps' \in 0 .. MaxMishaps
  BY MishapType DEF Crash
<1> QED
  BY <1>1, EntryAssumption DEF Crash, TypeOK, ScanInv, Tracked, serverVars, logVars, dbVars

\* It changes nothing of the tracker's.
LEMMA WorldKeeps ==
  ASSUME World
  PROVE  UNCHANGED << dbVars, scanVars, deepVars, signals >>
BY DEF World, Arrive, UserDeletes, SystemSkips, Age, UserMoves, SystemMoves, Renumber,
   SystemLogs, LinkDown, LinkUp

\* A step is one of the world, the scan, a deep scan or a restart.
LEMMA NextCases ==
  ASSUME Next
  PROVE  World \/ Scan \/ (\E d \in DeepScans : DeepScan(d)) \/ Crash
BY DEF Next, World

\* Every step keeps the types.
LEMMA StepType ==
  ASSUME TypeOK, ScanInv, [Next]_vars
  PROVE  TypeOK' /\ ScanInv'
<1>1. CASE World
  <2>1. UNCHANGED << scanVars, dbVars >>
    BY <1>1, WorldKeeps
  <2>2. ScanInv'
    BY <2>1 DEF ScanInv, scanVars, dbVars
  <2> QED
    BY <1>1, <2>2, WorldType
<1>2. CASE Scan
  BY <1>2, ScanType
<1>3. ASSUME NEW d \in DeepScans, DeepScan(d)
      PROVE  TypeOK' /\ ScanInv'
  BY <1>3, DeepType
<1>4. CASE Crash
  BY <1>4, CrashType
<1>5. CASE UNCHANGED vars
  BY <1>5 DEF TypeOK, ScanInv, vars, serverVars, linkVars, logVars, dbVars, scanVars, deepVars
<1> QED
  BY <1>1, <1>2, <1>3, <1>4, <1>5, NextCases

\* The tracker keeps its types: every snapshot is of its own folder.
THEOREM TypeCorrect == Spec => []TypeOK
<1>1. Init => TypeOK /\ ScanInv
  BY InitType
<1>2. TypeOK /\ ScanInv /\ [Next]_vars => TypeOK' /\ ScanInv'
  BY StepType
<1> QED
  BY <1>1, <1>2, PTL DEF Spec

-----------------------------------------------------------------------------
(* The way of an entry.                                                    *)

\* The message was in that folder under that uid, and may be there still,
Was(e) ==
  \/ e.uid < uid[e.msg]
  \/ e.uid = uid[e.msg] /\ place[e.msg] \in {e.src, "nowhere"}

\* or has left it for good.
Gone(e) ==
  \/ e.uid < uid[e.msg]
  \/ e.uid = uid[e.msg] /\ place[e.msg] = "nowhere"

\* The snapshots and the scan have it.
Held(e) == e \in seen \/ \E f \in Tracked : e \in snapshot[f]

\* The scan misses it.
Missed(e) == e \in prev /\ e \notin seen

\* It awaits its confirmation or its destination, or is signalled.
Handled(e) == e \in pending \/ e = resolving \/ e \in deep \/ signals[e] > 0

WayInv ==
  \A e \in Entries :
    /\ Held(e) => Was(e)
    /\ Missed(e) \/ Handled(e) => Gone(e)
    /\ Handled(e) => ~Held(e)
    /\ e \in pending => e # resolving /\ e \notin deep /\ signals[e] = 0
    /\ e = resolving => e \notin deep /\ signals[e] = 0
    /\ e \in deep => signals[e] = 0
    /\ signals[e] <= 1


\* There is nothing in the tracker to begin with.
LEMMA InitWay == Init => WayInv
BY EntryAssumption DEF Init, WayInv, Held, Missed, Handled

\* In the mailbox a message moves on to a new uid, stays, or vanishes.
LEMMA WorldMoves ==
  ASSUME TypeOK, World, NEW m \in Messages
  PROVE  \/ uid'[m] > uid[m]
         \/ uid'[m] = uid[m] /\ place'[m] \in {place[m], "nowhere"}
<1> USE DEF serverVars
<1>1. uid \in [Messages -> Nat] /\ place \in [Messages -> Places]
  BY DEF TypeOK, Uids
<1>2. ASSUME NEW x \in Messages, NEW f, Enters(x, f)
      PROVE  \/ uid'[m] > uid[m]
             \/ uid'[m] = uid[m] /\ place'[m] = place[m]
  BY <1>1, <1>2 DEF Enters
<1>3. ASSUME NEW x \in Messages, Arrive(x)
      PROVE  \/ uid'[m] > uid[m]
             \/ uid'[m] = uid[m] /\ place'[m] = place[m]
  BY <1>2, <1>3 DEF Arrive
<1>4. ASSUME NEW x \in Messages, UserDeletes(x)
      PROVE  uid'[m] = uid[m] /\ place'[m] \in {place[m], "nowhere"}
  BY <1>1, <1>4 DEF UserDeletes
<1>5. ASSUME NEW x \in Messages, NEW f \in Folders, UserMoves(x, f) \/ SystemMoves(x, f)
      PROVE  \/ uid'[m] > uid[m]
             \/ uid'[m] = uid[m] /\ place'[m] = place[m]
  BY <1>2, <1>5 DEF UserMoves, SystemMoves
<1>6. ASSUME NEW f \in Tracked, Renumber(f)
      PROVE  \/ uid'[m] > uid[m]
             \/ uid'[m] = uid[m] /\ place'[m] = place[m]
  BY <1>1, <1>6 DEF Renumber
<1>7. ASSUME \/ \E x \in Messages : SystemSkips(x) \/ Age(x)
             \/ SystemLogs \/ LinkDown \/ LinkUp
      PROVE  uid' = uid /\ place' = place
  BY <1>7 DEF SystemSkips, Age, SystemLogs, LinkDown, LinkUp
<1> QED
  BY <1>3, <1>4, <1>5, <1>6, <1>7 DEF World

\* So what was in a folder has been there ever after, and what is gone is gone.
LEMMA GoneForGood ==
  ASSUME TypeOK, World, NEW e \in Entries
  PROVE  (Was(e) => Was(e)') /\ (Gone(e) => Gone(e)')
<1>1. /\ e.msg \in Messages /\ e.uid \in Nat /\ uid[e.msg] \in Nat
  BY EntryType DEF TypeOK, Uids
<1>2. uid'[e.msg] \in Nat
  BY <1>1, WorldType DEF TypeOK, Uids
<1>3. \/ uid'[e.msg] > uid[e.msg]
      \/ uid'[e.msg] = uid[e.msg] /\ place'[e.msg] \in {place[e.msg], "nowhere"}
  BY <1>1, WorldMoves
<1> QED
  BY <1>1, <1>2, <1>3 DEF Was, Gone

\* The tracker does not touch the mailbox.
LEMMA TrackerKeeps ==
  ASSUME Scan \/ (\E d \in DeepScans : DeepScan(d)) \/ Crash
  PROVE  UNCHANGED << serverVars, recent, taken >>
BY DEF Scan, ScanBegins, Fetched, ScanFails, Confirms, Resolved, Unresolved, Compares,
   DeepScan, DeepBegins, DeepSearched, DeepEnds, Crash, logVars

\* What is in a folder is not gone, and what was there and is not is.
LEMMA ContentWas ==
  ASSUME TypeOK, NEW f \in Tracked, NEW e \in Entries, e.src = f
  PROVE  /\ e \in Content(f) => Was(e) /\ ~Gone(e)
         /\ Was(e) /\ e \notin Content(f) => Gone(e)
BY EntryType DEF Content, Was, Gone, TypeOK, Uids, Tracked

\* What a folder that is done leaves in the snapshots.
LEMMA FolderDoneHolds ==
  ASSUME TypeOK, NEW S, FolderDone(S), NEW e
  PROVE  /\ Held(e)' => e \in S \/ \E f \in Tracked \ {folder} : e \in snapshot[f]
         /\ ~Missed(e)' /\ resolving' = NoEntry
BY DEF FolderDone, Held, Missed, TypeOK

\* How each step of the scan moves an entry on.
LEMMA ScanWay ==
  ASSUME TypeOK, ScanInv, WayInv, Scan
  PROVE  WayInv'
<1>0. UNCHANGED serverVars
  BY TrackerKeeps
<1>1. \A e \in Entries : (Was(e) <=> Was(e)') /\ (Gone(e) <=> Gone(e)')
  BY <1>0 DEF Was, Gone, serverVars
<1> USE DEF deepVars, dbVars
<1>2. CASE ScanBegins
  BY <1>1, <1>2 DEF ScanBegins, WayInv, Held, Missed, Handled
<1>3. CASE Fetched
  <2> SUFFICES ASSUME NEW e \in Entries
               PROVE  /\ Held(e)' => Was(e) /\ ~Handled(e)
                      /\ Missed(e)' => Gone(e)
                      /\ Handled(e)' => Handled(e)
                      /\ UNCHANGED << pending, deep, signals >>
                      /\ resolving' = resolving \/ resolving' = NoEntry
    BY <1>1, EntryAssumption DEF WayInv, Handled
  <2>1. folder \in Tracked /\ (e \in Content(folder) => e.src = folder)
    BY ContentType DEF TypeOK
  <2>2. e \in Content(folder) => Was(e) /\ ~Handled(e)
    BY <2>1, ContentWas DEF WayInv
  <2>3. Held(e) => Was(e) /\ ~Handled(e)
    BY DEF WayInv
  <2>4. CASE base[folder] # validity[folder]
    <3>1. FolderDone(Content(folder)) /\ UNCHANGED << pending, deep, signals >>
      BY <1>3, <2>4 DEF Fetched
    <3>2. Held(e)' => e \in Content(folder) \/ Held(e)
      BY <3>1, FolderDoneHolds DEF Held
    <3>3. ~Missed(e)' /\ resolving' = NoEntry
      BY <3>1, FolderDoneHolds
    <3> QED
      BY <2>2, <2>3, <3>1, <3>2, <3>3, EntryAssumption DEF Handled
  <2>5. CASE base[folder] = validity[folder]
    <3>1. /\ seen' = Content(folder) /\ prev' = snapshot[folder]
          /\ UNCHANGED << snapshot, pending, deep, signals, resolving >>
      BY <1>3, <2>5 DEF Fetched
    <3>2. Held(e)' => e \in Content(folder) \/ Held(e)
      BY <3>1 DEF Held
    <3>3. Missed(e)' => Held(e) /\ e.src = folder /\ e \notin Content(folder)
      BY <2>1, <3>1 DEF Missed, Held, TypeOK
    <3>4. Missed(e)' => Gone(e)
      BY <2>1, <2>3, <3>3, ContentWas
    <3> QED
      BY <2>2, <2>3, <3>1, <3>2, <3>4 DEF Handled
  <2> QED
    BY <2>4, <2>5
<1>4. CASE ScanFails
  BY <1>1, <1>4 DEF ScanFails, WayInv, Held, Missed, Handled
<1>5. CASE Resolved
  <2>1. /\ signals' = [e \in Entries |-> IF e = resolving THEN signals[e] + 1 ELSE signals[e]]
        /\ resolving' = NoEntry
        /\ UNCHANGED << dbVars, seen, prev, pending, deep >>
    BY <1>5 DEF Resolved, LogSignals
  <2> SUFFICES ASSUME NEW e \in Entries
               PROVE  /\ Held(e)' => Was(e)
                      /\ Missed(e)' \/ Handled(e)' => Gone(e)
                      /\ Handled(e)' => ~Held(e)'
                      /\ e \in pending' => e # resolving' /\ e \notin deep' /\ signals'[e] = 0
                      /\ e \in deep' => signals'[e] = 0
                      /\ signals'[e] <= 1
    BY <1>1, <2>1, EntryAssumption DEF WayInv, Handled
  <2>2. signals[e] \in Nat /\ e # NoEntry
    BY EntryAssumption DEF TypeOK
  <2>3. (Held(e)' <=> Held(e)) /\ (Missed(e)' <=> Missed(e))
    BY <2>1 DEF Held, Missed
  <2>4. signals'[e] = IF e = resolving THEN signals[e] + 1 ELSE signals[e]
    BY <2>1
  <2>5. Handled(e)' => Handled(e)
    BY <2>1, <2>2, <2>4 DEF Handled
  <2> QED
    BY <2>1, <2>2, <2>3, <2>4, <2>5 DEF WayInv
<1>6. CASE Unresolved
  <2>1. /\ deep' \subseteq deep \cup {resolving}
        /\ resolving' = NoEntry
        /\ UNCHANGED << dbVars, seen, prev, pending, signals >>
    BY <1>6 DEF Unresolved
  <2>2. ASSUME NEW e \in Entries
        PROVE  (Held(e)' <=> Held(e)) /\ (Missed(e)' <=> Missed(e))
    BY <2>1 DEF Held, Missed
  <2>3. ASSUME NEW e \in Entries
        PROVE  Handled(e)' => Handled(e)
    BY <2>1, EntryAssumption DEF Handled
  <2> QED
    BY <1>1, <2>1, <2>2, <2>3, EntryAssumption DEF WayInv
<1>7. CASE Compares
  <2> SUFFICES ASSUME NEW e \in Entries
               PROVE  /\ Held(e)' => Was(e)
                      /\ Missed(e)' \/ Handled(e)' => Gone(e)
                      /\ Handled(e)' => ~Held(e)'
                      /\ e \in pending' => e \notin deep /\ signals[e] = 0
                      /\ UNCHANGED << deep, signals >> /\ resolving' = NoEntry
    BY <1>1, EntryAssumption DEF WayInv
  <2>1. /\ pending' = pending \cup {x \in prev \ seen : x.msg \notin recent}
        /\ FolderDone(seen) /\ UNCHANGED << deep, signals >>
    BY <1>7 DEF Compares
  <2>2. Held(e)' => e \in seen \/ \E f \in Tracked \ {folder} : e \in snapshot[f]
    BY <2>1, FolderDoneHolds
  <2>3. ~Missed(e)' /\ resolving' = NoEntry
    BY <2>1, FolderDoneHolds
  <2>4. Held(e)' => Held(e)
    BY <2>2 DEF Held
  <2>5. Missed(e) => Held(e) /\ ~Held(e)'
    BY <2>2 DEF Missed, Held, ScanInv, TypeOK
  <2>6. Handled(e)' => Handled(e) \/ Missed(e)
    BY <2>1, <2>3, EntryAssumption DEF Handled, Missed
  <2>7. e \in pending' => e \in pending \/ (Missed(e) /\ ~Handled(e))
    BY <2>1, <2>5 DEF Missed, WayInv
  <2>8. signals[e] \in Nat
    BY DEF TypeOK
  <2>9. Missed(e) /\ ~Handled(e) => e \notin deep /\ signals[e] = 0
    BY <2>8 DEF Handled
  <2> QED
    BY <2>1, <2>3, <2>4, <2>5, <2>6, <2>7, <2>9 DEF WayInv
<1>8. ASSUME NEW x \in todo, Confirms(x)
      PROVE  WayInv'
  <2>1. /\ x \in pending /\ pending' = pending \ {x}
        /\ UNCHANGED << dbVars, seen, prev, deep, signals >>
        /\ resolving' = resolving \/ resolving' = x
    BY <1>8 DEF Confirms, ScanInv
  <2>2. ASSUME NEW e \in Entries
        PROVE  (Held(e)' <=> Held(e)) /\ (Missed(e)' <=> Missed(e))
    BY <2>1 DEF Held, Missed
  <2>3. ASSUME NEW e \in Entries
        PROVE  Handled(e)' => Handled(e)
    BY <2>1 DEF Handled
  <2> QED
    BY <1>1, <2>1, <2>2, <2>3 DEF WayInv
<1> QED
  BY <1>2, <1>3, <1>4, <1>5, <1>6, <1>7, <1>8 DEF Scan

\* A deep scan signals what it found, and drops the rest.
LEMMA DeepWay ==
  ASSUME TypeOK, WayInv, NEW d \in DeepScans, DeepScan(d)
  PROVE  WayInv'
<1>0. UNCHANGED serverVars
  BY TrackerKeeps
<1>1. \A e \in Entries : (Was(e) <=> Was(e)') /\ (Gone(e) <=> Gone(e)')
  BY <1>0 DEF Was, Gone, serverVars
<1>2. CASE DeepBegins(d) \/ \E e \in deep : DeepSearched(d, e)
  BY <1>1, <1>2 DEF DeepBegins, DeepSearched, WayInv, Held, Missed, Handled, scanVars, dbVars
<1>3. CASE DeepEnds(d)
  <2>1. /\ signals' = [e \in Entries |-> IF e \in {x \in deep : x.msg \in found[d]}
                                         THEN signals[e] + 1 ELSE signals[e]]
        /\ deep' = {} /\ UNCHANGED << dbVars, scanVars >>
    BY <1>3 DEF DeepEnds, LogSignals
  <2> SUFFICES ASSUME NEW e \in Entries
               PROVE  /\ Held(e)' => Was(e)
                      /\ Missed(e)' \/ Handled(e)' => Gone(e)
                      /\ Handled(e)' => ~Held(e)'
                      /\ e \in pending => e # resolving /\ signals'[e] = 0
                      /\ e = resolving => signals'[e] = 0
                      /\ signals'[e] <= 1
    BY <1>1, <2>1 DEF WayInv, scanVars
  <2>2. signals[e] \in Nat
    BY DEF TypeOK
  <2>3. (Held(e)' <=> Held(e)) /\ (Missed(e)' <=> Missed(e))
    BY <2>1 DEF Held, Missed, scanVars, dbVars
  <2>4. signals'[e] = signals[e] \/ (e \in deep /\ signals'[e] = signals[e] + 1)
    BY <2>1
  <2>5. Handled(e)' => Handled(e)
    BY <2>1, <2>2, <2>4 DEF Handled, scanVars
  <2> QED
    BY <2>2, <2>3, <2>4, <2>5 DEF WayInv
<1> QED
  BY <1>2, <1>3 DEF DeepScan

\* A restart forgets.
LEMMA CrashWay ==
  ASSUME TypeOK, WayInv, Crash
  PROVE  WayInv'
BY EntryAssumption DEF Crash, WayInv, Was, Gone, Held, Missed, Handled, serverVars, dbVars

\* Every entry stays on its way.
LEMMA StepWay ==
  ASSUME TypeOK, ScanInv, WayInv, [Next]_vars
  PROVE  WayInv'
<1>1. CASE World
  <2>1. UNCHANGED << dbVars, scanVars, deepVars, signals >>
    BY <1>1, WorldKeeps
  <2>2. \A e \in Entries : /\ Held(e)' <=> Held(e)
                           /\ Missed(e)' <=> Missed(e)
                           /\ Handled(e)' <=> Handled(e)
    BY <2>1 DEF Held, Missed, Handled, dbVars, scanVars, deepVars
  <2>3. \A e \in Entries : (Was(e) => Was(e)') /\ (Gone(e) => Gone(e)')
    BY <1>1, GoneForGood
  <2> QED
    BY <2>1, <2>2, <2>3 DEF WayInv, scanVars, deepVars
<1>2. CASE Scan
  BY <1>2, ScanWay
<1>3. ASSUME NEW d \in DeepScans, DeepScan(d)
      PROVE  WayInv'
  BY <1>3, DeepWay
<1>4. CASE Crash
  BY <1>4, CrashWay
<1>5. CASE UNCHANGED vars
  BY <1>5 DEF WayInv, Was, Gone, Held, Missed, Handled, vars, serverVars, dbVars, scanVars,
     deepVars
<1> QED
  BY <1>1, <1>2, <1>3, <1>4, <1>5, NextCases

\* One move gives one signal: a scan, a deep scan and another, failures and
\* restarts hand each entry on, and none of them keeps what it hands on.
THEOREM OneSignal == Spec => []OneSignalPerMove
<1>1. Init => TypeOK /\ ScanInv /\ WayInv
  BY InitType, InitWay
<1>2. TypeOK /\ ScanInv /\ WayInv /\ [Next]_vars => TypeOK' /\ ScanInv' /\ WayInv'
  BY StepType, StepWay
<1>3. WayInv => OneSignalPerMove
  BY DEF WayInv, OneSignalPerMove
<1> QED
  BY <1>1, <1>2, <1>3, PTL DEF Spec

-----------------------------------------------------------------------------
(* Who took it.                                                            *)

\* Somebody took the message out of the folder.
WasTaken(e) == taken[e.msg][e.uid] # "no"

\* It was not the system, as far as the log knows.
ByOthers(e) == taken[e.msg][e.uid] \in {"user", "unlogged"}

\* The entry is of the move whose answer is awaited.
OnItsWay(e) == moving # NoEntry /\ e.msg = moving.msg /\ e.uid = moving.uid

TakenInv ==
  /\ \A f \in Tracked : base[f] <= validity[f]
  /\ \A m \in Messages, u \in Uids : taken[m][u] = "logged" => m \in recent
  /\ \A e \in Entries :
       /\ Held(e) /\ Gone(e) /\ base[e.src] = validity[e.src] => WasTaken(e)
       /\ Missed(e) => WasTaken(e)
       /\ Handled(e) => ByOthers(e)
       /\ Missed(e) \/ Handled(e) => ~OnItsWay(e)

\* Nobody has taken anything to begin with.
LEMMA InitTaken == Init => TakenInv
BY EntryAssumption, EntryType DEF Init, TakenInv, Held, Missed, Handled, Tracked

\* In the mailbox: who took a message is not forgotten; what is gone is nobody's
\* to take; and what goes is taken, or the folder is numbered anew.
WorldTakes(e) ==
  /\ WasTaken(e) => WasTaken(e)'
  /\ Gone(e) /\ ~OnItsWay(e) => ~OnItsWay(e)' /\ (ByOthers(e) => ByOthers(e)')
  /\ Was(e) /\ ~Gone(e) /\ Gone(e)' => WasTaken(e)' \/ validity'[e.src] # validity[e.src]

LEMMA LeavesTakes ==
  ASSUME TypeOK, NEW m \in Messages, NEW who \in {"user", "unlogged"}, Leaves(m, who),
         place[m] # "nowhere", NEW e \in Entries
  PROVE  /\ WasTaken(e) => WasTaken(e)'
         /\ Gone(e) /\ ByOthers(e) => ByOthers(e)'
         /\ Was(e) /\ ~Gone(e) /\ e.msg = m => WasTaken(e)'
<1>1. e.msg \in Messages /\ e.uid \in Uids /\ e.src \in Tracked
  BY EntryType
<1>2. uid[m] \in Uids /\ taken \in [Messages -> [Uids -> {"no", "user", "logged", "unlogged"}]]
  BY DEF TypeOK
<1>3. taken'[e.msg][e.uid] = IF place[m] \in Tracked /\ e.msg = m /\ e.uid = uid[m]
                               THEN who ELSE taken[e.msg][e.uid]
  BY <1>1, <1>2 DEF Leaves
<1>4. Was(e) /\ ~Gone(e) => e.uid = uid[e.msg] /\ place[e.msg] \in Tracked
  BY <1>1 DEF Was, Gone
<1> QED
  BY <1>1, <1>2, <1>3, <1>4 DEF WasTaken, ByOthers

\* A message's entries do not change by what happens to another.
LEMMA GoesAlone ==
  ASSUME TypeOK, NEW m \in Messages, NEW e \in Entries, e.msg # m,
         \/ \E f : Enters(m, f)
         \/ uid' = uid /\ place' = [place EXCEPT ![m] = "nowhere"]
  PROVE  Gone(e)' => Gone(e)
BY EntryType DEF TypeOK, Enters, Gone

\* Each step of the world takes what goes.
LEMMA WorldTaken ==
  ASSUME TypeOK, World, NEW e \in Entries
  PROVE  WorldTakes(e)
<1> USE DEF serverVars, linkVars
<1>0. e.msg \in Messages /\ e.uid \in Uids /\ e.src \in Tracked
  BY EntryType
<1>1. ASSUME NEW m \in Messages, Arrive(m)
      PROVE  WorldTakes(e)
  <2>1. UNCHANGED << taken, moving >> /\ Enters(m, "INBOX") /\ place[m] = "nowhere"
    BY <1>1 DEF Arrive
  <2>2. Was(e) /\ Gone(e)' => Gone(e)
    BY <1>0, <2>1, GoesAlone DEF Was, Gone, TypeOK
  <2> QED
    BY <2>1, <2>2 DEF WorldTakes, WasTaken, ByOthers, OnItsWay
<1>2. ASSUME NEW m \in Messages, UserDeletes(m)
      PROVE  WorldTakes(e)
  <2>1. /\ moving' = moving /\ Leaves(m, "user") /\ place[m] # "nowhere"
        /\ uid' = uid /\ place' = [place EXCEPT ![m] = "nowhere"]
    BY <1>2 DEF UserDeletes
  <2>2. e.msg # m /\ Gone(e)' => Gone(e)
    BY <2>1, GoesAlone
  <2>3. /\ WasTaken(e) => WasTaken(e)'
        /\ Gone(e) /\ ByOthers(e) => ByOthers(e)'
        /\ Was(e) /\ ~Gone(e) /\ e.msg = m => WasTaken(e)'
    BY <2>1, LeavesTakes
  <2> QED
    BY <2>1, <2>2, <2>3 DEF WorldTakes, OnItsWay
<1>3. ASSUME NEW m \in Messages, NEW f \in Folders, UserMoves(m, f)
      PROVE  WorldTakes(e)
  <2>1. /\ moving' = moving /\ Leaves(m, "user") /\ place[m] # "nowhere"
        /\ Enters(m, f)
    BY <1>3 DEF UserMoves
  <2>2. e.msg # m /\ Gone(e)' => Gone(e)
    BY <2>1, GoesAlone
  <2>3. /\ WasTaken(e) => WasTaken(e)'
        /\ Gone(e) /\ ByOthers(e) => ByOthers(e)'
        /\ Was(e) /\ ~Gone(e) /\ e.msg = m => WasTaken(e)'
    BY <2>1, LeavesTakes
  <2> QED
    BY <2>1, <2>2, <2>3 DEF WorldTakes, OnItsWay
<1>4. ASSUME NEW m \in Messages, NEW f \in Folders, SystemMoves(m, f)
      PROVE  WorldTakes(e)
  <2>1. /\ moving' = Move(m, uid[m], f) /\ Leaves(m, "unlogged") /\ place[m] # "nowhere"
        /\ Enters(m, f)
    BY <1>4 DEF SystemMoves
  <2>2. e.msg # m /\ Gone(e)' => Gone(e)
    BY <2>1, GoesAlone
  <2>3. /\ WasTaken(e) => WasTaken(e)'
        /\ Gone(e) /\ ByOthers(e) => ByOthers(e)'
        /\ Was(e) /\ ~Gone(e) /\ e.msg = m => WasTaken(e)'
    BY <2>1, LeavesTakes
  <2>4. Gone(e) => ~OnItsWay(e)'
    <3>1. moving'.msg = m /\ moving'.uid = uid[m]
      BY <2>1 DEF Move
    <3>2. uid[m] \in Nat /\ e.uid \in Nat
      BY <1>0 DEF TypeOK, Uids
    <3> QED
      BY <2>1, <3>1, <3>2 DEF OnItsWay, Gone
  <2> QED
    BY <2>1, <2>2, <2>3, <2>4 DEF WorldTakes
<1>5. ASSUME NEW f \in Tracked, Renumber(f)
      PROVE  WorldTakes(e)
  <2>1. UNCHANGED << taken, moving, place >>
    BY <1>5 DEF Renumber
  <2>2. validity'[f] # validity[f]
    BY <1>5 DEF Renumber, TypeOK
  <2>3. Was(e) /\ ~Gone(e) => e.uid = uid[e.msg] /\ place[e.msg] = e.src
    BY DEF Was, Gone
  <2>4. e.src # f /\ place[e.msg] = e.src => uid'[e.msg] = uid[e.msg]
    BY <1>0, <1>5 DEF Renumber
  <2>5. Was(e) /\ ~Gone(e) /\ Gone(e)' => e.src = f
    BY <1>0, <2>1, <2>3, <2>4 DEF Gone, TypeOK, Uids, Tracked
  <2> QED
    BY <2>1, <2>2, <2>5 DEF WorldTakes, WasTaken, ByOthers, OnItsWay
<1>6. CASE SystemLogs
  <2>1. UNCHANGED << uid, place >> /\ moving' = NoEntry
    BY <1>6 DEF SystemLogs
  <2>2. moving.msg \in Messages /\ moving.uid \in Uids /\ moving # NoEntry
    BY <1>6 DEF SystemLogs, TypeOK, Moves
  <2>3. taken'[e.msg][e.uid] =
          IF e.msg = moving.msg /\ e.uid = moving.uid /\ taken[e.msg][e.uid] = "unlogged"
            THEN "logged" ELSE taken[e.msg][e.uid]
    BY <1>0, <1>6, <2>2 DEF SystemLogs, TypeOK
  <2>4. Gone(e)' => Gone(e)
    BY <2>1 DEF Gone
  <2> QED
    BY <2>1, <2>2, <2>3, <2>4 DEF WorldTakes, WasTaken, ByOthers, OnItsWay
<1>7. ASSUME NEW m \in Messages, Age(m)
      PROVE  WorldTakes(e)
  <2>1. UNCHANGED << uid, place, moving >>
    BY <1>7 DEF Age
  <2>2. taken'[e.msg][e.uid] = IF e.msg = m /\ taken[e.msg][e.uid] = "logged"
                                 THEN "unlogged" ELSE taken[e.msg][e.uid]
    BY <1>0, <1>7 DEF Age, TypeOK
  <2> QED
    BY <2>1, <2>2 DEF WorldTakes, WasTaken, ByOthers, OnItsWay, Gone
<1>8. ASSUME (\E m \in Messages : SystemSkips(m)) \/ LinkDown \/ LinkUp
      PROVE  WorldTakes(e)
  <2>1. UNCHANGED << uid, place, taken >> /\ (moving' = moving \/ moving' = NoEntry)
    BY <1>8 DEF SystemSkips, LinkDown, LinkUp
  <2> QED
    BY <2>1 DEF WorldTakes, WasTaken, ByOthers, OnItsWay, Gone
<1> QED
  BY <1>1, <1>2, <1>3, <1>4, <1>5, <1>6, <1>7, <1>8 DEF World

\* A move is "logged" while its message has a row.
LEMMA WorldLogs ==
  ASSUME TypeOK, World,
         \A m \in Messages, u \in Uids : taken[m][u] = "logged" => m \in recent,
         NEW m \in Messages, NEW u \in Uids, taken'[m][u] = "logged"
  PROVE  m \in recent'
<1> USE DEF serverVars, linkVars, logVars
<1>1. taken \in [Messages -> [Uids -> {"no", "user", "logged", "unlogged"}]]
      /\ uid \in [Messages -> Uids]
  BY DEF TypeOK
<1>2. ASSUME NEW x \in Messages, NEW who \in {"user", "unlogged"}, Leaves(x, who),
             recent' = recent
      PROVE  m \in recent'
  <2>1. taken'[m][u] = taken[m][u] \/ taken'[m][u] = who
    BY <1>1, <1>2 DEF Leaves
  <2> QED
    BY <1>2, <2>1
<1>3. ASSUME NEW x \in Messages,
             UserDeletes(x) \/ \E f \in Folders : UserMoves(x, f) \/ SystemMoves(x, f)
      PROVE  m \in recent'
  BY <1>2, <1>3 DEF UserDeletes, UserMoves, SystemMoves
<1>4. CASE SystemLogs
  <2>1. moving.msg \in Messages /\ moving.uid \in Uids
    BY <1>4 DEF SystemLogs, TypeOK, Moves
  <2>2. taken'[m][u] = taken[m][u] \/ m = moving.msg
    BY <1>1, <1>4, <2>1 DEF SystemLogs
  <2> QED
    BY <1>4, <2>2 DEF SystemLogs
<1>5. ASSUME NEW x \in Messages, Age(x)
      PROVE  m \in recent'
  <2>1. m # x /\ taken'[m][u] = taken[m][u]
    BY <1>1, <1>5 DEF Age
  <2> QED
    BY <1>5, <2>1 DEF Age
<1>6. ASSUME \/ \E x \in Messages : Arrive(x) \/ SystemSkips(x)
             \/ \E f \in Tracked : Renumber(f)
             \/ LinkDown \/ LinkUp
      PROVE  m \in recent'
  BY <1>6 DEF Arrive, SystemSkips, Renumber, LinkDown, LinkUp
<1> QED
  BY <1>3, <1>4, <1>5, <1>6 DEF World

\* UIDVALIDITY grows.
LEMMA WorldValidity ==
  ASSUME TypeOK, World, NEW f \in Tracked
  PROVE  validity'[f] \in Nat /\ (validity'[f] = validity[f] \/ validity'[f] > validity[f])
BY DEF World, Arrive, UserDeletes, SystemSkips, Age, UserMoves, SystemMoves, Renumber,
   SystemLogs, LinkDown, LinkUp, serverVars, TypeOK

\* What the scan and the deep scans do to an entry's way leaves who took it.
LEMMA TrackerTaken ==
  ASSUME TypeOK, ScanInv, WayInv, TakenInv,
         Scan \/ (\E d \in DeepScans : DeepScan(d)) \/ Crash
  PROVE  TakenInv'
<1>1. UNCHANGED << uid, place, validity, recent, taken >>
  BY TrackerKeeps DEF serverVars
<1>2. ASSUME NEW e \in Entries
      PROVE  (Gone(e)' <=> Gone(e)) /\ (WasTaken(e)' <=> WasTaken(e))
             /\ (ByOthers(e)' <=> ByOthers(e))
  BY <1>1 DEF Gone, WasTaken, ByOthers
<1>3. moving' = moving \/ moving' = NoEntry
  BY DEF Scan, ScanBegins, Fetched, ScanFails, Confirms, Resolved, Unresolved, Compares,
     DeepScan, DeepBegins, DeepSearched, DeepEnds, Crash, linkVars
<1>4. ASSUME NEW e \in Entries
      PROVE  ~OnItsWay(e) => ~OnItsWay(e)'
  BY <1>3 DEF OnItsWay
<1>5. CASE Fetched
  <2>1. folder \in Tracked /\ moving = NoEntry
    BY <1>5 DEF TypeOK, Fetched
  <2>2. \A e \in Entries : ~OnItsWay(e)'
    BY <1>3, <2>1 DEF OnItsWay
  <2>3. CASE base[folder] # validity[folder]
    <3>1. /\ FolderDone(Content(folder)) /\ base' = [base EXCEPT ![folder] = validity[folder]]
          /\ UNCHANGED << pending, deep, signals >>
      BY <1>5, <2>3 DEF Fetched, deepVars
    <3>2. \A f \in Tracked : base'[f] <= validity'[f]
      BY <1>1, <2>1, <3>1 DEF TakenInv, TypeOK
    <3> SUFFICES ASSUME NEW e \in Entries
                 PROVE  /\ Held(e)' /\ Gone(e) /\ base'[e.src] = validity[e.src] => WasTaken(e)
                        /\ Missed(e)' => WasTaken(e)
                        /\ Handled(e)' => ByOthers(e)
      BY <1>1, <1>2, <2>2, <3>2 DEF TakenInv
    <3>3. /\ Held(e)' => e \in Content(folder) \/ \E f \in Tracked \ {folder} : e \in snapshot[f]
          /\ ~Missed(e)' /\ resolving' = NoEntry
      BY <3>1, FolderDoneHolds
    <3>4. e \in Content(folder) => ~Gone(e)
      BY <2>1, ContentType, ContentWas
    <3>5. ASSUME NEW f \in Tracked \ {folder}, e \in snapshot[f]
          PROVE  Held(e) /\ base'[e.src] = base[e.src]
      BY <3>1, <3>5 DEF Held, TypeOK
    <3>6. Handled(e)' => Handled(e)
      BY <3>1, <3>3, EntryAssumption DEF Handled
    <3> QED
      BY <3>3, <3>4, <3>5, <3>6 DEF TakenInv
  <2>4. CASE base[folder] = validity[folder]
    <3>1. /\ seen' = Content(folder) /\ prev' = snapshot[folder]
          /\ UNCHANGED << base, snapshot, pending, deep, signals, resolving >>
      BY <1>5, <2>4 DEF Fetched, deepVars, dbVars
    <3> SUFFICES ASSUME NEW e \in Entries
                 PROVE  /\ Held(e)' /\ Gone(e) /\ base[e.src] = validity[e.src] => WasTaken(e)
                        /\ Missed(e)' => WasTaken(e)
                        /\ Handled(e)' => ByOthers(e)
      BY <1>1, <1>2, <2>2, <3>1 DEF TakenInv
    <3>2. e \in Content(folder) => ~Gone(e)
      BY <2>1, ContentType, ContentWas
    <3>3. Held(e)' => e \in Content(folder) \/ Held(e)
      BY <3>1 DEF Held
    <3>4. Missed(e)' => Held(e) /\ e.src = folder /\ e \notin Content(folder)
      BY <2>1, <3>1 DEF Missed, Held, TypeOK
    <3>5. Missed(e)' => Gone(e)
      BY <2>1, <3>4, ContentWas DEF WayInv
    <3>6. Handled(e)' => Handled(e)
      BY <3>1 DEF Handled
    <3> QED
      BY <2>4, <3>2, <3>3, <3>4, <3>5, <3>6 DEF TakenInv
  <2> QED
    BY <2>3, <2>4
<1>6. CASE Compares
  <2>1. /\ pending' = pending \cup {x \in prev \ seen : x.msg \notin recent}
        /\ FolderDone(seen) /\ UNCHANGED << base, deep, signals >>
    BY <1>6 DEF Compares, deepVars
  <2> SUFFICES ASSUME NEW e \in Entries
               PROVE  /\ Held(e)' => Held(e)
                      /\ ~Missed(e)'
                      /\ Handled(e)' => ByOthers(e) /\ (Missed(e) \/ Handled(e))
    BY <1>1, <1>2, <1>4, <2>1 DEF TakenInv
  <2>2. /\ Held(e)' => e \in seen \/ \E f \in Tracked \ {folder} : e \in snapshot[f]
        /\ ~Missed(e)' /\ resolving' = NoEntry
    BY <2>1, FolderDoneHolds
  <2>3. Handled(e)' => Handled(e) \/ (Missed(e) /\ e.msg \notin recent)
    BY <2>1, <2>2, EntryAssumption DEF Handled, Missed
  <2>4. Missed(e) /\ e.msg \notin recent => ByOthers(e)
    BY EntryType DEF TakenInv, WasTaken, ByOthers, TypeOK
  <2> QED
    BY <2>2, <2>3, <2>4 DEF Held, TakenInv
<1>7. ASSUME UNCHANGED base,
             \A x \in Entries : Held(x)' => Held(x),
             \A x \in Entries : Missed(x)' => Missed(x),
             \A x \in Entries : Handled(x)' => Handled(x)
      PROVE  TakenInv'
  <2>1. /\ \A f \in Tracked : base'[f] <= validity'[f]
        /\ \A m \in Messages, u \in Uids : taken'[m][u] = "logged" => m \in recent'
    BY <1>1, <1>7 DEF TakenInv
  <2>2. ASSUME NEW e \in Entries
        PROVE  /\ Held(e)' /\ Gone(e)' /\ base'[e.src] = validity'[e.src] => WasTaken(e)'
               /\ Missed(e)' => WasTaken(e)'
               /\ Handled(e)' => ByOthers(e)'
               /\ Missed(e)' \/ Handled(e)' => ~OnItsWay(e)'
    <3>1. Held(e) /\ Gone(e) /\ base[e.src] = validity[e.src] => WasTaken(e)
      BY DEF TakenInv
    <3>2. /\ Missed(e) => WasTaken(e)
          /\ Handled(e) => ByOthers(e)
          /\ Missed(e) \/ Handled(e) => ~OnItsWay(e)
      BY DEF TakenInv
    <3>3. base' = base /\ validity' = validity
      BY <1>1, <1>7
    <3>4. (Held(e)' => Held(e)) /\ (Missed(e)' => Missed(e)) /\ (Handled(e)' => Handled(e))
      BY <1>7, <2>2
    <3>5. /\ (Gone(e)' <=> Gone(e)) /\ (WasTaken(e)' <=> WasTaken(e))
          /\ ByOthers(e)' <=> ByOthers(e)
      BY <1>2
    <3>6. ~OnItsWay(e) => ~OnItsWay(e)'
      BY <1>4
    <3> HIDE <1>2, <1>4, <1>7
    <3> QED
      BY <3>1, <3>2, <3>3, <3>4, <3>5, <3>6
  <2> QED
    BY <2>1, <2>2 DEF TakenInv
<1>8. ASSUME UNCHANGED << dbVars, seen, prev, pending >>,
             deep' \subseteq deep \cup {resolving},
             resolving' \in {resolving, NoEntry},
             \A e \in Entries : signals'[e] > 0 => Handled(e)
      PROVE  TakenInv'
  <2>1. UNCHANGED base
    BY <1>8 DEF dbVars
  <2>2. \A e \in Entries : (Held(e)' => Held(e)) /\ (Missed(e)' => Missed(e))
    BY <1>8 DEF Held, Missed, dbVars
  <2>3. \A e \in Entries : Handled(e)' => Handled(e)
    BY <1>8, EntryAssumption DEF Handled
  <2> QED
    BY <1>7, <2>1, <2>2, <2>3
<1>9. CASE ScanBegins \/ ScanFails
  BY <1>7, <1>9 DEF ScanBegins, ScanFails, Held, Missed, Handled, dbVars, deepVars
<1>10. CASE Resolved
  <2>1. \A e \in Entries : signals'[e] > 0 => Handled(e)
    BY <1>10 DEF Resolved, LogSignals, Handled
  <2> QED
    BY <1>8, <1>10, <2>1 DEF Resolved, deepVars
<1>11. CASE Unresolved
  BY <1>8, <1>11 DEF Unresolved, Handled
<1>12. ASSUME NEW x \in todo, Confirms(x)
       PROVE  TakenInv'
  <2>1. \A e \in Entries : Handled(e)' => Handled(e)
    BY <1>12 DEF Confirms, Handled, ScanInv, deepVars
  <2> QED
    BY <1>7, <1>12, <2>1 DEF Confirms, Held, Missed, dbVars
<1>13. ASSUME NEW d \in DeepScans, DeepScan(d)
       PROVE  TakenInv'
  <2>1. UNCHANGED << dbVars, scanVars >> /\ deep' \subseteq deep
    BY <1>13 DEF DeepScan, DeepBegins, DeepSearched, DeepEnds
  <2>2. \A e \in Entries : signals'[e] > 0 => Handled(e)
    BY <1>13 DEF DeepScan, DeepBegins, DeepSearched, DeepEnds, LogSignals, Handled
  <2> QED
    BY <1>8, <2>1, <2>2 DEF scanVars
<1>14. CASE Crash
  BY <1>7, <1>14, EntryAssumption DEF Crash, Held, Missed, Handled, dbVars
<1> QED
  BY <1>5, <1>6, <1>9, <1>10, <1>11, <1>12, <1>13, <1>14 DEF Scan

\* Who took what is kept.
LEMMA StepTaken ==
  ASSUME TypeOK, ScanInv, WayInv, TakenInv, [Next]_vars
  PROVE  TakenInv'
<1>1. CASE World
  <2>1. UNCHANGED << dbVars, scanVars, deepVars, signals >>
    BY <1>1, WorldKeeps
  <2>2. \A f \in Tracked : /\ base'[f] = base[f] /\ base[f] <= validity'[f]
                           /\ base[f] = validity'[f] => validity'[f] = validity[f]
    BY <1>1, <2>1, WorldValidity DEF TakenInv, TypeOK, dbVars
  <2>3. \A m \in Messages, u \in Uids : taken'[m][u] = "logged" => m \in recent'
    BY <1>1, WorldLogs DEF TakenInv
  <2> SUFFICES ASSUME NEW e \in Entries
               PROVE  /\ Held(e)' /\ Gone(e)' /\ base'[e.src] = validity'[e.src] => WasTaken(e)'
                      /\ Missed(e)' => WasTaken(e)'
                      /\ Handled(e)' => ByOthers(e)'
                      /\ Missed(e)' \/ Handled(e)' => ~OnItsWay(e)'
    BY <2>2, <2>3 DEF TakenInv
  <2>4. /\ Held(e)' <=> Held(e)
        /\ Missed(e)' <=> Missed(e)
        /\ Handled(e)' <=> Handled(e)
    BY <2>1 DEF Held, Missed, Handled, dbVars, scanVars, deepVars
  <2>5. WorldTakes(e)
    BY <1>1, WorldTaken
  <2>6. Held(e)' /\ Gone(e)' /\ base'[e.src] = validity'[e.src] => WasTaken(e)'
    BY <2>2, <2>4, <2>5, EntryType DEF WorldTakes, WayInv, TakenInv
  <2> QED
    BY <2>4, <2>5, <2>6 DEF WorldTakes, WayInv, TakenInv
<1>2. CASE Scan \/ (\E d \in DeepScans : DeepScan(d)) \/ Crash
  BY <1>2, TrackerTaken
<1>3. CASE UNCHANGED vars
  BY <1>3 DEF TakenInv, Gone, Held, Missed, Handled, WasTaken, ByOthers, OnItsWay, vars,
     serverVars, linkVars, logVars, dbVars, scanVars, deepVars
<1> QED
  BY <1>1, <1>2, <1>3, NextCases

\* What the log has as the system's gives no signal, however messages are moved
\* and renumbered between a fetch, the comparison and the confirmation.
THEOREM OnlyUsers == Spec => []SignalsAreUsers
<1>1. Init => TypeOK /\ ScanInv /\ WayInv /\ TakenInv
  BY InitType, InitWay, InitTaken
<1>2. TypeOK /\ ScanInv /\ WayInv /\ TakenInv /\ [Next]_vars
        => TypeOK' /\ ScanInv' /\ WayInv' /\ TakenInv'
  BY StepType, StepWay, StepTaken
<1>3. TakenInv => SignalsAreUsers
  BY DEF TakenInv, SignalsAreUsers, Handled, ByOthers
<1> QED
  BY <1>1, <1>2, <1>3, PTL DEF Spec

=============================================================================
