------------------------------ MODULE Sentinel ------------------------------
(***************************************************************************)
(* The sentinels (src/sentinel): a marker message in every folder the      *)
(* configuration names, by which a folder that was renamed or lost is to   *)
(* be noticed.  Reconciliation plants and removes them (lifecycle.ts), the *)
(* scanner looks for them (scanner.ts), the healer acts on what it reports *)
(* (healer.ts), and main() starts all three (src/index.ts).                *)
(*                                                                         *)
(* A sentinel is its Message-ID.  An action is the code from the answer to *)
(* one IMAP command up to the next await.  A reference to INBOX, which is  *)
(* never tracked, is left out.                                             *)
(***************************************************************************)
EXTENDS Naturals

CONSTANTS
  Folders,       \* mailbox names, but for
  INBOX,
  NoFolder,      \* no folder: no row, or a message not yet there
  Gone,          \* the place of a message that was deleted
  Rules,         \* what names a folder: the rules,
  Fixed,         \* the review settings (folder, archive),
  Actions,       \* and the action folders
  Review,        \* of Fixed, the review folder
  Under,         \* the folders below the prefix of the action folders
  Boots,         \* the configurations and mailboxes a first start may find
  Nested,        \* where an action folder is looked for once its name holds
                 \* the path of a folder elsewhere
  MaxSentinels,  \* bound: how many sentinels are ever appended
  Main,          \* main()'s call of reconcileSentinels(),
  Recs,          \* and names for those of the listeners (bound: how many at once)
  Healers,       \* names for calls of handleScanReport() (bound: how many at once)
  MaxActs,       \* bound: what users and other clients do
  MaxFaults      \* bound: crashes, lost answers, failed writes

Paths == Folders \cup {Nested}
Refs == Rules \cup Fixed \cup Actions

ASSUME FolderAssumption ==
  /\ Under \subseteq Folders /\ Nested \notin Folders
  /\ {INBOX, NoFolder, Gone} \cap (Folders \cup {Nested}) = {}
  /\ INBOX # NoFolder /\ INBOX # Gone /\ NoFolder # Gone
ASSUME RefAssumption ==
  /\ Rules \cap Fixed = {} /\ Rules \cap Actions = {} /\ Fixed \cap Actions = {}
  /\ Review \in Fixed
ASSUME BootAssumption ==
  Boots \subseteq [folders : SUBSET Folders, ref : [Refs -> Folders],
                   on : {Fixed \cup used : used \in SUBSET (Rules \cup Actions)}]
ASSUME CallAssumption == Main \notin Recs
ASSUME BoundAssumption == MaxSentinels \in Nat /\ MaxActs \in Nat /\ MaxFaults \in Nat

Ids == 1 .. MaxSentinels
Calls == Recs \cup {Main}

VARIABLES
  \* the server
  folders,   \* the mailboxes that exist
  place,     \* where each sentinel message is
  \* SQLite and config.yml
  row,       \* the sentinels table: the folder of each message
  saved,     \* the configuration as saved
  \* the configuration in memory
  ref,       \* the folder each reference names
  on,        \* the references in use: enabled rules, action folders if enabled
  \* the process
  enabled,   \* sentinelEnabled
  phase,     \* of main(): before the self-test, before the first
             \* reconciliation, or past its start
  due,       \* the settings listeners that wait for the server
  plant,     \* each reconciliation's folders to plant,
  drop,      \* its rows to remove,
  deleting,  \* and the one of them whose message is being deleted
  scan,      \* runScan()
  heal,      \* each handleScanReport()
  \* history
  loose,     \* the folders that may have been left without a row
  misnamed,  \* the paths the healer has made up since the last reconciliation
  touched,   \* the messages that were moved by others, or about which a
             \* command failed
  acts, faults

serverVars == << folders, place >>
configVars == << ref, on, saved >>
bootVars == << enabled, phase >>
recVars == << plant, drop, deleting >>
historyVars == << loose, misnamed, touched >>
countVars == << acts, faults >>
vars == << serverVars, row, configVars, bootVars, due, recVars, scan, heal, historyVars,
           countVars >>

Rows == {i \in Ids : row[i] # NoFolder}
Row(i) == << i, row[i] >>

\* collectTrackedFolders()
Tracked == {ref[x] : x \in on}

\* A row as it was when the table was read, and a scan's result for it, with
\* the folder it was found in; what is found in place is left out.
Pairs == Ids \X Paths
Results == [id : Ids, from : Paths, to : Paths \cup {NoFolder}]

NoScan == [pc |-> "idle", todo |-> {}, cur |-> {}, list |-> {}, left |-> {}, found |-> {}]
NoHeal == [pc |-> "idle", todo |-> {}, cur |-> {}, list |-> {}]

TypeOK ==
  /\ folders \subseteq Paths
  /\ place \in [Ids -> Paths \cup {INBOX, NoFolder, Gone}]
  /\ row \in [Ids -> Paths \cup {NoFolder}]
  /\ saved \in [ref : [Refs -> Paths], on : SUBSET Refs]
  /\ ref \in [Refs -> Paths]
  /\ on \subseteq Refs
  /\ enabled \in BOOLEAN
  /\ phase \in {"test", "first", "up"}
  /\ due \subseteq {"review", "actions"}
  /\ plant \in [Calls -> SUBSET Paths]
  /\ drop \in [Calls -> SUBSET Pairs]
  /\ deleting \in [Calls -> SUBSET Pairs]
  /\ scan \in [pc : {"idle", "fast", "list", "deep"}, todo : SUBSET Pairs,
               cur : SUBSET Pairs, list : SUBSET (Paths \cup {INBOX}),
               left : SUBSET Paths, found : SUBSET Results]
  /\ heal \in [Healers -> [pc : {"idle", "next", "list", "replant", "notify"},
                           todo : SUBSET Results, cur : SUBSET Results,
                           list : SUBSET (Paths \cup {INBOX})]]
  /\ loose \subseteq Paths /\ misnamed \subseteq Paths
  /\ touched \subseteq Ids
  /\ acts \in 0 .. MaxActs
  /\ faults \in 0 .. MaxFaults

\* A first start.
Init ==
  /\ \E b \in Boots : folders = b.folders /\ ref = b.ref /\ on = b.on
  /\ place = [i \in Ids |-> NoFolder]
  /\ row = [i \in Ids |-> NoFolder]
  /\ saved = [ref |-> ref, on |-> on]
  /\ enabled = FALSE
  /\ phase = "test"
  /\ due = {}
  /\ plant = [r \in Calls |-> {}]
  /\ drop = [r \in Calls |-> {}]
  /\ deleting = [r \in Calls |-> {}]
  /\ scan = NoScan
  /\ heal = [h \in Healers |-> NoHeal]
  /\ loose = {} /\ misnamed = {}
  /\ touched = {}
  /\ acts = 0 /\ faults = 0

-----------------------------------------------------------------------------
Busy(r) == plant[r] # {} \/ drop[r] # {} \/ deleting[r] # {}
SomeBusy == \E r \in Calls : Busy(r)
Healing == \E h \in Healers : heal[h].pc # "idle"

\* No JavaScript is running: handleScanReport() is not between two results.
AtRest == \A h \in Healers : heal[h].pc # "next"

\* Something goes wrong that is not the rule: an answer that is lost, a
\* connection that breaks, a file that cannot be written.
Mishap == faults < MaxFaults /\ faults' = faults + 1

\* The Message-ID of a new sentinel.
Fresh(i) == place[i] = NoFolder /\ \A j \in Ids : j < i => place[j] # NoFolder

\* The answer to APPEND of a sentinel: the message and its row, or an error
\* (there is no such folder, perhaps), or the message without the row.
Append(f) ==
  \/ /\ f \in folders
     /\ \E i \in Ids : /\ Fresh(i)
                       /\ place' = [place EXCEPT ![i] = f]
                       /\ row' = [row EXCEPT ![i] = f]
     /\ UNCHANGED << historyVars, faults >>
  \/ /\ loose' = loose \cup {f}
     /\ UNCHANGED << place, row, misnamed, touched, faults >>
  \/ /\ f \in folders /\ Mishap
     /\ \E i \in Ids : /\ Fresh(i)
                       /\ place' = [place EXCEPT ![i] = f]
                       /\ touched' = touched \cup {i}
     /\ loose' = loose \cup {f}
     /\ UNCHANGED << row, misnamed >>

-----------------------------------------------------------------------------
(* The user and the server.                                                *)

Act == AtRest /\ acts < MaxActs /\ acts' = acts + 1

\* Somebody moves a sentinel message, or deletes it.
MoveSentinel(i, to) ==
  /\ Act
  /\ place[i] \notin {NoFolder, Gone, to} /\ to \in folders \cup {INBOX, Gone}
  /\ place' = [place EXCEPT ![i] = to]
  /\ touched' = touched \cup {i}
  /\ UNCHANGED << folders, row, configVars, bootVars, due, recVars, scan, heal, loose,
                  misnamed, faults >>

\* Somebody renames a folder, or deletes it with its messages.
RenameFolder(f, to) ==
  /\ Act
  /\ f \in folders /\ to \in (Folders \ folders) \cup {Gone}
  /\ folders' = (folders \ {f}) \cup ({to} \cap Folders)
  /\ place' = [i \in Ids |-> IF place[i] = f THEN to ELSE place[i]]
  /\ touched' = touched \cup {i \in Ids : place[i] = f}
  /\ UNCHANGED << row, configVars, bootVars, due, recVars, scan, heal, loose,
                  misnamed, faults >>

MakeFolder(f) ==
  /\ Act
  /\ f \in Folders \ folders
  /\ folders' = folders \cup {f}
  /\ UNCHANGED << place, row, configVars, bootVars, due, recVars, scan, heal,
                  historyVars, faults >>

-----------------------------------------------------------------------------
(* reconcileSentinels()                                                    *)

\* The call reads the table, and finds out what to plant and what to remove.
Reconcile(r) ==
  /\ ~Busy(r)
  /\ plant' = [plant EXCEPT ![r] = Tracked' \ {row[i] : i \in Rows}]
  /\ drop' = [drop EXCEPT ![r] = {Row(i) : i \in {j \in Rows : row[j] \notin Tracked'}}]
  /\ loose' = IF SomeBusy \/ Healing \/ due' # {} THEN Paths ELSE {}
  /\ misnamed' = {}
  /\ UNCHANGED deleting

Planted(r, f) ==
  /\ AtRest /\ f \in plant[r]
  /\ Append(f)
  /\ plant' = [plant EXCEPT ![r] = @ \ {f}]
  /\ UNCHANGED << folders, configVars, bootVars, due, drop, deleting, scan, heal, acts >>

\* The SEARCH of a row's folder finds nothing: the message is not there, or the
\* server fails the search and searchByHeader() makes that "no match".
NotSeen(s) ==
  \/ /\ place[s[1]] # s[2]
     /\ UNCHANGED << touched, faults >>
  \/ /\ place[s[1]] = s[2] /\ Mishap
     /\ touched' = touched \cup {s[1]}

\* The SEARCH for the message of an orphaned row: it is found; it is not seen,
\* and only the row goes; or the search throws, as it does for a folder that is
\* missing or without an answer, and the row stays.
Searched(r, s) ==
  /\ AtRest /\ plant[r] = {} /\ deleting[r] = {} /\ s \in drop[r]
  /\ drop' = [drop EXCEPT ![r] = @ \ {s}]
  /\ \/ /\ s[2] \in folders /\ place[s[1]] = s[2]
        /\ deleting' = [deleting EXCEPT ![r] = {s}]
        /\ UNCHANGED << row, touched, faults >>
     \/ /\ s[2] \in folders
        /\ NotSeen(s)
        /\ row' = [row EXCEPT ![s[1]] = NoFolder]
        /\ UNCHANGED deleting
     \/ /\ IF s[2] \in folders THEN Mishap ELSE UNCHANGED faults
        /\ UNCHANGED << row, deleting, touched >>
  /\ UNCHANGED << serverVars, configVars, bootVars, due, plant, scan, heal, loose,
                  misnamed, acts >>

\* The message is deleted, and its row; or the delete throws, before or after
\* its effect, and the row stays; or the server refuses it, messageDelete() is
\* false, which nobody looks at, and only the row goes.
Deleted(r, s) ==
  /\ AtRest /\ s \in deleting[r]
  /\ deleting' = [deleting EXCEPT ![r] = {}]
  /\ LET i == s[1]
         without == [place EXCEPT ![i] = IF @ = s[2] THEN Gone ELSE @]
     IN  \/ /\ s[2] \in folders
            /\ place' = without
            /\ row' = [row EXCEPT ![i] = NoFolder]
            /\ UNCHANGED << touched, faults >>
         \/ /\ IF s[2] \in folders THEN Mishap ELSE UNCHANGED faults
            /\ place' \in {place, without}
            /\ touched' = touched \cup {i}
            /\ UNCHANGED row
         \/ /\ s[2] \in folders /\ place[i] = s[2] /\ Mishap
            /\ touched' = touched \cup {i}
            /\ UNCHANGED place
            /\ row' = [row EXCEPT ![i] = NoFolder]
  /\ UNCHANGED << folders, configVars, bootVars, due, plant, drop, scan, heal, loose,
                  misnamed, acts >>

RecStep(r) ==
  \/ \E f \in plant[r] : Planted(r, f)
  \/ \E s \in drop[r] : Searched(r, s)
  \/ \E s \in deleting[r] : Deleted(r, s)

-----------------------------------------------------------------------------
(* main(): the self-test, the first reconciliation, and then the scanner.  *)

\* runSentinelSelfTest() in the review folder, whose own message is left out.
SelfTest ==
  /\ phase = "test"
  /\ \/ ref[Review] \in folders /\ enabled' = TRUE /\ phase' = "first"
        /\ UNCHANGED faults
     \/ /\ IF ref[Review] \in folders THEN Mishap ELSE UNCHANGED faults
        /\ enabled' = FALSE /\ phase' = "up"
  /\ UNCHANGED << serverVars, row, configVars, due, recVars, scan, heal, historyVars,
                  acts >>

\* ensureActionFolders() creates some of those that are missing.
EnsureActionFolders ==
  \E made \in SUBSET {ref[x] : x \in on \cap Actions} : folders' = folders \cup made

MainReconcile ==
  /\ phase = "first"
  /\ phase' = "up"
  /\ EnsureActionFolders
  /\ UNCHANGED << ref, on, due >>
  /\ Reconcile(Main)
  /\ UNCHANGED << place, row, saved, enabled, scan, heal, touched, countVars >>

\* A crash: what is in flight is lost, and so is a change that was not saved.
Restart ==
  /\ Mishap
  /\ ref' = saved.ref
  /\ on' = saved.on
  /\ enabled' = FALSE
  /\ phase' = "test"
  /\ due' = {}
  /\ plant' = [r \in Calls |-> {}]
  /\ drop' = [r \in Calls |-> {}]
  /\ deleting' = [r \in Calls |-> {}]
  /\ scan' = NoScan
  /\ heal' = [h \in Healers |-> NoHeal]
  /\ UNCHANGED << serverVars, row, saved, historyVars, acts >>

-----------------------------------------------------------------------------
(* Edits of the configuration, and the listeners they wake.                *)

\* A rule is added, changed, switched or deleted: its listener reconciles at
\* once.
EditRule(x, f) ==
  /\ Act
  /\ ref' = [ref EXCEPT ![x] = f]
  /\ on' \in {on \cup {x}, on \ {x}}
  /\ UNCHANGED due
  /\ \/ /\ saved' = [ref |-> ref', on |-> on']
        /\ IF enabled THEN \E r \in Recs : Reconcile(r)
                      ELSE loose' = Paths /\ UNCHANGED << recVars, misnamed >>
        /\ UNCHANGED faults
     \/ /\ Mishap
        /\ loose' = Paths
        /\ UNCHANGED << saved, recVars, misnamed >>
  /\ UNCHANGED << serverVars, row, bootVars, scan, heal, touched >>

\* The review settings or the action folders are changed: their listener asks
\* the server something first.  (Bound: one change of each waits at a time.)
EditSettings(x, f, which) ==
  /\ Act /\ which \notin due
  /\ ref' = [ref EXCEPT ![x] = f]
  /\ on' \in IF which = "actions" THEN {on \cup Actions, on \ Actions} ELSE {on}
  /\ \/ /\ saved' = [ref |-> ref', on |-> on']
        /\ due' = due \cup {which}
        /\ UNCHANGED << loose, faults >>
     \/ /\ Mishap
        /\ loose' = Paths
        /\ UNCHANGED << saved, due >>
  /\ UNCHANGED << serverVars, row, bootVars, recVars, scan, heal, misnamed, touched >>

\* The answer comes and the listener reconciles; or it does not, and it throws.
Listener(which) ==
  /\ AtRest /\ which \in due
  /\ due' = due \ {which}
  /\ IF which = "actions" THEN EnsureActionFolders ELSE UNCHANGED folders
  /\ UNCHANGED << ref, on >>
  /\ \/ enabled /\ \E r \in Recs : Reconcile(r) /\ UNCHANGED faults
     \/ /\ IF enabled THEN Mishap ELSE UNCHANGED faults
        /\ loose' = Paths
        /\ UNCHANGED << recVars, misnamed >>
  /\ UNCHANGED << place, row, saved, bootVars, scan, heal, touched, acts >>

-----------------------------------------------------------------------------
(* SentinelScanner.runScan()                                               *)

\* The next row, or the end: the report goes to a new call of the healer.
ScanOn(todo, list, found) ==
  IF todo # {}
  THEN /\ scan' = [NoScan EXCEPT !.pc = "fast", !.todo = todo, !.list = list,
                                 !.found = found]
       /\ UNCHANGED heal
  ELSE /\ scan' = NoScan
       /\ \/ found = {} /\ UNCHANGED heal
          \/ \E h \in Healers :
               /\ heal[h].pc = "idle" /\ found # {}
               /\ heal' = [heal EXCEPT ![h] = [NoHeal EXCEPT !.pc = "next", !.todo = found]]

\* scanDeep() of the current row over the folders left, none of them perhaps.
DeepOn(s, todo, list, left, found) ==
  IF left = {}
  THEN ScanOn(todo, list, found \cup {[id |-> s[1], from |-> s[2], to |-> NoFolder]})
  ELSE /\ scan' = [pc |-> "deep", todo |-> todo, cur |-> {s}, list |-> list,
                   left |-> left, found |-> found]
       /\ UNCHANGED heal

scanFrame == << serverVars, row, configVars, bootVars, due, recVars, loose, misnamed,
                acts >>

ScanStart ==
  /\ AtRest /\ enabled /\ phase = "up" /\ ~Busy(Main)
  /\ scan.pc = "idle" /\ Rows # {}
  /\ ScanOn({Row(i) : i \in Rows}, {}, {})
  /\ UNCHANGED << scanFrame, touched, faults >>

\* The current row was not seen where it should be: the other folders are listed,
\* unless this scan has the list, and searched.
GoesDeep(s) ==
  LET todo == scan.todo \ {s} IN
    IF scan.list = {}
      THEN /\ scan' = [scan EXCEPT !.pc = "list", !.todo = todo, !.cur = {s}]
           /\ UNCHANGED heal
      ELSE DeepOn(s, todo, scan.list, scan.list \ {INBOX, s[2]}, scan.found)

\* Faulty variant: the running flag stays set when a scan throws.
FastAnswered_NoFinally(s) ==
  /\ AtRest /\ scan.pc = "fast" /\ s \in scan.todo
  /\ \/ /\ s[2] \in folders /\ place[s[1]] = s[2]
        /\ ScanOn(scan.todo \ {s}, scan.list, scan.found)
        /\ UNCHANGED << touched, faults >>
     \/ /\ s[2] \in folders
        /\ NotSeen(s)
        /\ GoesDeep(s)
     \/ /\ IF s[2] \in folders THEN Mishap ELSE UNCHANGED faults
        /\ scan' = [scan EXCEPT !.todo = {}]
        /\ UNCHANGED << heal, touched >>
  /\ UNCHANGED scanFrame

\* The SEARCH in the folder of the row.  One that throws, as it does for a
\* folder that is missing or without an answer, ends the scan without a report.
FastAnswered(s) ==
  /\ AtRest /\ scan.pc = "fast" /\ s \in scan.todo
  /\ \/ /\ s[2] \in folders /\ place[s[1]] = s[2]
        /\ ScanOn(scan.todo \ {s}, scan.list, scan.found)
        /\ UNCHANGED << touched, faults >>
     \/ /\ s[2] \in folders
        /\ NotSeen(s)
        /\ GoesDeep(s)
     \/ /\ IF s[2] \in folders THEN Mishap ELSE UNCHANGED faults
        /\ scan' = NoScan
        /\ UNCHANGED << heal, touched >>
  /\ UNCHANGED scanFrame

\* Faulty variant: INBOX is searched as well.
ListAnswered_Inbox(s) ==
  /\ AtRest /\ scan.pc = "list" /\ s \in scan.cur
  /\ \/ /\ DeepOn(s, scan.todo, folders \cup {INBOX}, (folders \cup {INBOX}) \ {s[2]},
                 scan.found)
        /\ UNCHANGED faults
     \/ Mishap /\ scan' = NoScan /\ UNCHANGED heal
  /\ UNCHANGED << scanFrame, touched >>

\* The LIST, which serves the whole scan.
ListAnswered(s) ==
  /\ AtRest /\ scan.pc = "list" /\ s \in scan.cur
  /\ \/ /\ DeepOn(s, scan.todo, folders \cup {INBOX}, folders \ {s[2]}, scan.found)
        /\ UNCHANGED faults
     \/ Mishap /\ scan' = NoScan /\ UNCHANGED heal
  /\ UNCHANGED << scanFrame, touched >>

\* The SEARCH in another folder; one that fails or throws is passed over.
DeepAnswered(s, g) ==
  /\ AtRest /\ scan.pc = "deep" /\ s \in scan.cur /\ g \in scan.left
  /\ \/ /\ place[s[1]] = g
        /\ ScanOn(scan.todo, scan.list,
                  scan.found \cup {[id |-> s[1], from |-> s[2], to |-> g]})
        /\ UNCHANGED faults
     \/ /\ IF place[s[1]] = g THEN Mishap ELSE UNCHANGED faults
        /\ DeepOn(s, scan.todo, scan.list, scan.left \ {g}, scan.found)
  /\ UNCHANGED << scanFrame, touched >>

ScanStep ==
  \/ ScanStart
  \/ \E s \in scan.todo : FastAnswered(s)
  \/ \E s \in scan.cur : ListAnswered(s) \/ \E g \in scan.left : DeepAnswered(s, g)

-----------------------------------------------------------------------------
(* handleScanReport()                                                      *)

\* The path that takes a reference's place when its folder is found elsewhere:
\* an action folder has a name below the prefix, whatever it is.  (The prefix
\* itself is taken to be a folder that no rule names, so it has no sentinel.)
NewPath(x, to) == IF x \in Actions /\ to \notin Under THEN Nested ELSE to

\* The action folders of the old path that get another path than the one their
\* folder was found at.
Strays(x) == {y \in Actions \cap on : ref[y] = x.from /\ NewPath(y, x.to) # x.to}

\* Faulty variant: the row keeps the old path.
Rename_KeepsRow(x) ==
  /\ ref' = [y \in Refs |-> IF ref[y] = x.from /\ (y \in Actions => y \in on)
                              THEN NewPath(y, x.to) ELSE ref[y]]
  /\ misnamed' = misnamed \cup {NewPath(y, x.to) : y \in Strays(x)}
  /\ \/ /\ saved' = [ref |-> ref', on |-> on]
        /\ loose' = IF SomeBusy \/ row[x.id] # x.from THEN Paths ELSE loose
        /\ UNCHANGED << row, faults >>
     \/ /\ Mishap
        /\ loose' = Paths
        /\ UNCHANGED << saved, row >>
  /\ UNCHANGED on

\* Faulty variant: all rows of the old path get the new one.
Rename_AllRows(x) ==
  /\ ref' = [y \in Refs |-> IF ref[y] = x.from /\ (y \in Actions => y \in on)
                              THEN NewPath(y, x.to) ELSE ref[y]]
  /\ misnamed' = misnamed \cup {NewPath(y, x.to) : y \in Strays(x)}
  /\ \/ /\ saved' = [ref |-> ref', on |-> on]
        /\ row' = [i \in Ids |-> IF row[i] = x.from THEN x.to ELSE row[i]]
        /\ loose' = IF SomeBusy \/ row[x.id] # x.from THEN Paths ELSE loose
        /\ UNCHANGED faults
     \/ /\ Mishap
        /\ loose' = Paths
        /\ UNCHANGED << saved, row >>
  /\ UNCHANGED on

\* handleRename(): every reference to the old path, a disabled rule's too, gets
\* the new one; then the file and the row do, unless the file cannot be written.
Rename(x) ==
  /\ ref' = [y \in Refs |-> IF ref[y] = x.from /\ (y \in Actions => y \in on)
                              THEN NewPath(y, x.to) ELSE ref[y]]
  /\ misnamed' = misnamed \cup {NewPath(y, x.to) : y \in Strays(x)}
  /\ \/ /\ saved' = [ref |-> ref', on |-> on]
        /\ row' = [row EXCEPT ![x.id] = IF @ = NoFolder THEN @ ELSE x.to]
        /\ loose' = IF SomeBusy \/ row[x.id] # x.from THEN Paths ELSE loose
        /\ UNCHANGED faults
     \/ /\ Mishap
        /\ loose' = Paths
        /\ UNCHANGED << saved, row >>
  /\ UNCHANGED on

\* handleScanReport() leaves result x for what is next.
HealOn(h, x, pc, cur, list) ==
  heal' = [heal EXCEPT ![h] = [pc |-> pc, todo |-> heal[h].todo \ {x}, cur |-> cur,
                               list |-> list]]

\* handleNotFound() with a list of the folders: nothing if the row is gone, a
\* new sentinel if the folder is there, and if not handleFolderLoss() switches
\* its rules off, saves, and appends a notice to INBOX.
NotFound(h, x, list) ==
  \/ /\ row[x.id] = NoFolder
     /\ HealOn(h, x, "next", {}, list)
     /\ UNCHANGED << row, on, saved, loose, faults >>
  \/ /\ row[x.id] # NoFolder /\ x.from \in list
     /\ row' = [row EXCEPT ![x.id] = NoFolder]
     /\ HealOn(h, x, "replant", {x}, list)
     /\ loose' = IF row[x.id] = x.from THEN loose ELSE Paths
     /\ UNCHANGED << on, saved, faults >>
  \/ /\ row[x.id] # NoFolder /\ x.from \notin list
     /\ on' = on \ {y \in Rules : ref[y] = x.from}
     /\ \/ /\ saved' = [ref |-> ref, on |-> on']
           /\ HealOn(h, x, "notify", {x}, list)
           /\ UNCHANGED faults
        \/ /\ Mishap
           /\ HealOn(h, x, "next", {}, list)
           /\ UNCHANGED saved
     /\ UNCHANGED << row, loose >>

healFrame == << folders, bootVars, due, recVars, scan, acts >>

\* The next result, in the same run of the event loop.
HealNext(h) ==
  /\ heal[h].pc = "next"
  /\ \/ /\ heal[h].todo = {}
        /\ heal' = [heal EXCEPT ![h] = NoHeal]
        /\ UNCHANGED << row, configVars, loose, misnamed, faults >>
     \/ \E x \in heal[h].todo :
          /\ x.to # NoFolder
          /\ Rename(x)
          /\ HealOn(h, x, "next", {}, heal[h].list)
     \/ \E x \in heal[h].todo :
          /\ x.to = NoFolder /\ heal[h].list = {}
          /\ HealOn(h, x, "list", {x}, {})
          /\ UNCHANGED << row, configVars, loose, misnamed, faults >>
     \/ \E x \in heal[h].todo :
          /\ x.to = NoFolder /\ heal[h].list # {}
          /\ NotFound(h, x, heal[h].list)
          /\ UNCHANGED << ref, misnamed >>
  /\ UNCHANGED << healFrame, place, touched >>

\* The LIST, which serves the whole report.
HealListed(h, x) ==
  /\ AtRest /\ heal[h].pc = "list" /\ x \in heal[h].cur
  /\ \/ NotFound(h, x, folders \cup {INBOX})
     \/ /\ Mishap
        /\ HealOn(h, x, "next", {}, {})
        /\ UNCHANGED << row, on, saved, loose >>
  /\ UNCHANGED << healFrame, place, ref, misnamed, touched >>

\* The answer to the APPEND of handleReplant().
Replanted(h, x) ==
  /\ AtRest /\ heal[h].pc = "replant" /\ x \in heal[h].cur
  /\ Append(x.from)
  /\ HealOn(h, x, "next", {}, heal[h].list)
  /\ UNCHANGED << healFrame, configVars >>

\* The answer to the APPEND of the notice: only now the row goes.
Notified(h, x) ==
  /\ AtRest /\ heal[h].pc = "notify" /\ x \in heal[h].cur
  /\ \/ /\ row' = [row EXCEPT ![x.id] = NoFolder]
        /\ loose' = loose \cup ({row[x.id]} \cap Paths)
     \/ UNCHANGED << row, loose >>
  /\ HealOn(h, x, "next", {}, heal[h].list)
  /\ UNCHANGED << healFrame, place, configVars, misnamed, touched, faults >>

HealStep(h) ==
  \/ HealNext(h)
  \/ \E x \in heal[h].cur : HealListed(h, x) \/ Replanted(h, x) \/ Notified(h, x)

-----------------------------------------------------------------------------
Next ==
  \/ \E i \in Ids : \E to \in Folders \cup {INBOX, Gone} : MoveSentinel(i, to)
  \/ \E f \in Folders : MakeFolder(f) \/ \E to \in Folders \cup {Gone} : RenameFolder(f, to)
  \/ \E r \in Calls : RecStep(r)
  \/ SelfTest \/ MainReconcile \/ Restart
  \/ \E f \in Folders :
       \/ \E x \in Rules : EditRule(x, f)
       \/ \E x \in Fixed : EditSettings(x, f, "review")
       \/ \E x \in Actions : EditSettings(x, f, "actions")
  \/ \E which \in {"review", "actions"} : Listener(which)
  \/ ScanStep
  \/ \E h \in Healers : HealStep(h)

Spec == Init /\ [][Next]_vars

\* The timer of the scanner goes off again and again, and the server answers
\* what the scanner, the healer and main() ask.
Fairness ==
  /\ WF_vars(ScanStep)
  /\ WF_vars(RecStep(Main))
  /\ \A h \in Healers : WF_vars(HealStep(h))

FairSpec == Spec /\ Fairness

-----------------------------------------------------------------------------
(* Properties.                                                             *)

\* Once every reconciliation has ended, each folder the configuration names has
\* its row, whatever edits, renames and replantings there were, unless its
\* sentinel could not be appended, its folder was lost, a change was not saved,
\* two of these ran at once since the last reconciliation that ran alone, or the
\* healer has since made the path up itself, for an action folder that it found
\* outside the prefix (RenamesAreFollowed).
Guarded ==
  (/\ enabled /\ phase = "up" /\ ~SomeBusy /\ due = {}
   /\ \A h \in Healers : heal[h].pc # "replant")
    => Tracked \subseteq loose \cup misnamed \cup {row[i] : i \in Rows}

\* A sentinel that nobody touches, and about which no command fails, is left
\* alone: it stays in the folder of its row, and it goes when the row goes,
\* whatever scans, retries, crashes and the healing of other sentinels, in the
\* same folder perhaps, there are.
LeftAlone ==
  \A i \in Ids \ touched : place[i] = row[i] \/ (place[i] = Gone /\ row[i] = NoFolder)

\* When the healer gives a row the folder its sentinel was found in, all that is
\* in use of the old path follows (HEAL-01).  The code does not keep it, and no run
\* asks it: TLC refutes it by an action folder found outside the prefix, which
\* gets a path below the prefix where there is no such folder.
RenamesAreFollowed ==
  [][\A i \in Ids : row'[i] \notin {row[i], NoFolder} =>
       \A x \in on : ref[x] = row[i] => ref'[x] = row'[i]]_vars

\* A row goes only when its sentinel is not, or no longer, in its folder
\* (lifecycle.ts:101).  The code does not keep it, and no run asks it: TLC refutes
\* it by a failed SEARCH, which is taken for one that finds nothing.
OnlyTheMissing ==
  [][\A i \in Ids : row[i] # NoFolder /\ row'[i] = NoFolder => place'[i] # row[i]]_vars

\* As long as the folders of all rows exist, every sentinel is in its place in
\* the end, wherever it was put meanwhile: found again, or planted anew.
Heals ==
  <>[](enabled /\ phase = "up" /\ \A i \in Rows : row[i] \in folders)
    => <>[](\A i \in Rows : place[i] = row[i])

=============================================================================
