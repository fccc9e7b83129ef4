---------------------------- MODULE LibraryImport ----------------------------
(***************************************************************************)
(* The import of an existing library: library/flows/library_import.py, its *)
(* API (api/library_import.py), the series it adds (library/flows/add.py), *)
(* the refresh and the chained scan of that series (flows/refresh.py,      *)
(* flows/scan.py) and the tables they share.                               *)
(*                                                                         *)
(* A scan walks the root folder and stages the files no series has as      *)
(* groups, one per matching key; ComicVine proposes a volume for each; the *)
(* operator confirms, skips or overrides groups and executes an import of  *)
(* some, by the ids of their rows.  Scan, import, chained scans, the       *)
(* requests and the operator's hand on the disk interleave at every await. *)
(***************************************************************************)
EXTENDS Naturals, Sequences, SequencesExt, FiniteSets, FiniteSetsExt

CONSTANTS
    Key,            \* matching keys of the files below the root
    Volume,         \* ComicVine volumes
    NoVolume,
    File,
    KeyOf,          \* File -> Key
    Rank,           \* Key -> Nat: the alphabetical order of keys and folders
    Best,           \* Key -> Volume \cup {NoVolume}: the plausible search result
    Loose,          \* keys whose files lie directly in the root folder
    Unparsed,       \* keys made from a folder name, no file of theirs parses
    Accepted,       \* files import_candidate imports
    Scannable,      \* files scan-series matches to an issue of their series
    Modes,          \* the values of "in place" (library_import_mode) considered
    Cap,            \* library_import_proposal_cap
    Overlap,        \* whether imports may be asked for while a scan is live
    MaxActs,        \* operator actions on groups, series and disk
    MaxScans,       \* scans asked for
    MaxImports,     \* imports asked for
    MaxFaults,      \* ComicVine calls that fail
    MaxCrashes

LibraryImportAssumption ==
    /\ NoVolume \notin Volume /\ IsFiniteSet(Key)
    /\ KeyOf \in [File -> Key] /\ Rank \in [Key -> Nat]
    /\ \A k, l \in Key : Rank[k] = Rank[l] => k = l
    /\ Best \in [Key -> Volume \cup {NoVolume}]
    /\ Loose \subseteq Key /\ Unparsed \subseteq Key
    /\ Accepted \subseteq File /\ Scannable \subseteq File
    /\ Modes \subseteq BOOLEAN /\ Cap \in Nat /\ Overlap \in BOOLEAN

VARIABLES
    inPlace,        \* library_import_mode # "move"
    disk,           \* the files below the root
    tracked,        \* issue_files: the volume a file is registered under
    series,         \* the series table, by volume
    rows,           \* library_import_groups of the root; a row's id is its index
    scan,           \* the library-import-scan command and its locals
    request,        \* the ids of the execute request being served, or none
    exec,           \* the library-import command and its locals
    matching,       \* the scan-series command that runs: <<volume, files>>, or <<>>
    spent           \* how much of each bound is used

vars == <<inPlace, disk, tracked, series, rows, scan, request, exec, matching, spent>>

Absent == "absent"                \* no such series
OwnFolder == "own"                \* build_series_path: a folder of its own
NoSeries == [folder |-> Absent, issues |-> FALSE, scan |-> FALSE]
Entry == [folder : Key \cup {OwnFolder, Absent}, issues : BOOLEAN, scan : BOOLEAN]

Row == [key : Key, files : SUBSET File, proposed : Volume \cup {NoVolume},
        confirmed : Volume \cup {NoVolume},
        state : {"proposed", "confirmed", "no_match", "imported", "skipped"}]

IdleScan == [pc |-> "idle", known |-> {}, gone |-> {}, found |-> {}, todo |-> <<>>]
NoJob == [id |-> 0, row |-> <<>>, created |-> FALSE]
IdleExec == [pc |-> "idle", ids |-> {}, meant |-> {}, left |-> {}, job |-> NoJob]
NoRequest == {}

Bound == [act |-> MaxActs, scan |-> MaxScans, import |-> MaxImports,
          fault |-> MaxFaults, crash |-> MaxCrashes]
Spend(what) == /\ spent[what] < Bound[what]
               /\ spent' = [spent EXCEPT ![what] = @ + 1]

Tracked == {f \in File : tracked[f] # NoVolume}
FilesOf(v) == {f \in File : tracked[f] = v}
Exists(v) == series[v].folder # Absent
ScanLive == scan.pc # "idle"
ImportLive == exec.pc # "idle"

\* The volume a group would import (flows/library_import.py importable_volume).
ImportableVolume(row) ==
    CASE row.state = "confirmed" -> row.confirmed
      [] row.state = "proposed"  -> row.proposed
      [] OTHER                   -> NoVolume

\* The series row and, by its cascades, the issues and files of v are deleted.
Deleted(v) ==
    /\ series' = [series EXCEPT ![v] = NoSeries]
    /\ tracked' = [f \in File |-> IF tracked[f] = v THEN NoVolume ELSE tracked[f]]

Init ==
    /\ inPlace \in Modes
    /\ disk = File
    /\ tracked = [f \in File |-> NoVolume]
    /\ series = [v \in Volume |-> NoSeries]
    /\ rows = <<>>
    /\ scan = IdleScan /\ exec = IdleExec
    /\ request = NoRequest /\ matching = <<>>
    /\ spent = [what \in DOMAIN Bound |-> 0]

-----------------------------------------------------------------------------
(* The scan (scan_library_root). *)

ScanRequest ==
    /\ ~ScanLive
    /\ Overlap \/ request = NoRequest
    /\ Spend("scan")
    /\ scan' = [scan EXCEPT !.pc = "queued"]
    /\ UNCHANGED <<inPlace, disk, tracked, series, rows, request, exec, matching>>

\* _fail_if_execute_pending: a live import of rows of this root fails the scan.
ExecutePending ==
    /\ ImportLive
    /\ exec.ids \cap DOMAIN rows # {}

\* Faulty: the scan starts whatever the imports that are live.
ScanStartUnguarded ==
    /\ scan.pc = "queued"
    /\ scan' = [scan EXCEPT !.pc = "prune", !.known = Tracked \cap disk,
                            !.gone = Tracked \ disk]
    /\ UNCHANGED <<inPlace, disk, tracked, series, rows, request, exec, matching, spent>>

\* One read session: the guard, then the registered files; the sweep for files
\* that are gone from the disk follows it.
ScanStart ==
    /\ scan.pc = "queued"
    /\ scan' = IF ExecutePending THEN IdleScan
               ELSE [scan EXCEPT !.pc = "prune", !.known = Tracked \cap disk,
                                 !.gone = Tracked \ disk]
    /\ UNCHANGED <<inPlace, disk, tracked, series, rows, request, exec, matching, spent>>

\* The rows of vanished files are deleted; then the walk.
ScanPrune ==
    /\ scan.pc = "prune"
    /\ tracked' = [f \in File |-> IF f \in scan.gone THEN NoVolume ELSE tracked[f]]
    /\ scan' = [scan EXCEPT !.pc = "replace", !.found = disk \ scan.known, !.gone = {}]
    /\ UNCHANGED <<inPlace, disk, series, rows, request, exec, matching, spent>>

\* The rows of k: at most one per key (uq_library_import_root_key).
RowsOf(k) == {rows[i] : i \in {j \in DOMAIN rows : rows[j].key = k}}

\* _carry_forward: the answer a group had survives the scan.
CarryForward(k, files, priors) ==
    LET prior == CHOOSE r \in priors : TRUE
        fresh == [key |-> k, files |-> files, proposed |-> NoVolume,
                  confirmed |-> NoVolume, state |-> "proposed"]
    IN  IF priors = {}
        THEN [fresh EXCEPT !.state = IF k \in Unparsed THEN "no_match" ELSE "proposed"]
        ELSE [fresh EXCEPT
                !.proposed = IF prior.state = "imported" /\ prior.proposed = NoVolume
                             THEN prior.confirmed ELSE prior.proposed,
                !.confirmed = IF prior.state = "confirmed" THEN prior.confirmed ELSE NoVolume,
                !.state = IF prior.state = "imported" THEN "proposed" ELSE prior.state]

NeedsProposal(row) == row.state = "proposed" /\ row.proposed = NoVolume

\* The largest groups first, then by key.
Before(r1, r2) ==
    \/ Cardinality(r1.files) > Cardinality(r2.files)
    \/ /\ Cardinality(r1.files) = Cardinality(r2.files)
       /\ Rank[r1.key] < Rank[r2.key]

\* The draft of a key: its files in the walk that nothing registered meanwhile.
Drafted(k) == {f \in scan.found : KeyOf[f] = k /\ f \notin Tracked}

Kept == {k \in Key : Drafted(k) # {}}
Draft(k) == CarryForward(k, Drafted(k), RowsOf(k))
Place(k) == Cardinality({l \in Kept : Rank[l] <= Rank[k]})
Staged == [n \in {Place(k) : k \in Kept} |-> Draft(CHOOSE k \in Kept : Place(k) = n)]

\* The keys ComicVine is asked about, in their order, up to the cap.
Asked(staged) ==
    LET asking == SortSeq(SelectSeq(staged, NeedsProposal), Before)
    IN  [n \in 1..Min({Cap, Len(asking)}) |-> asking[n].key]

\* One transaction: files registered meanwhile are dropped from the drafts, the
\* decisions are read again and carried, and the root's rows are deleted and
\* inserted anew, so that their ids start over.
ScanReplace ==
    /\ scan.pc = "replace"
    /\ rows' = Staged
    /\ scan' = IF Asked(Staged) = <<>> THEN IdleScan
               ELSE [IdleScan EXCEPT !.pc = "propose", !.todo = Asked(Staged)]
    /\ UNCHANGED <<inPlace, disk, tracked, series, request, exec, matching, spent>>

\* _persist_proposal: an answer lands on the row while nobody has decided it.
Answered(row, state, volume) ==
    IF row.state = "proposed" /\ row.confirmed = NoVolume
    THEN [row EXCEPT !.state = state, !.proposed = volume] ELSE row
PersistProposal(k, state, volume) ==
    rows' = [i \in DOMAIN rows |->
               IF rows[i].key = k THEN Answered(rows[i], state, volume) ELSE rows[i]]

Proposed ==
    scan' = IF Len(scan.todo) = 1 THEN IdleScan ELSE [scan EXCEPT !.todo = Tail(@)]

\* One search answered: a plausible volume, or none.
ScanPropose ==
    /\ scan.pc = "propose"
    /\ LET k == Head(scan.todo)
       IN  PersistProposal(k, IF Best[k] = NoVolume THEN "no_match" ELSE "proposed", Best[k])
    /\ Proposed
    /\ UNCHANGED <<inPlace, disk, tracked, series, request, exec, matching, spent>>

\* The search failed or was incomplete: only a message lands on the row.
ScanUnanswered ==
    /\ scan.pc = "propose"
    /\ Spend("fault")
    /\ PersistProposal(Head(scan.todo), "proposed", NoVolume)
    /\ Proposed
    /\ UNCHANGED <<inPlace, disk, tracked, series, request, exec, matching>>

-----------------------------------------------------------------------------
(* The operator's API: PATCH of a group, execute, and what else touches the *)
(* tables and the disk.                                                     *)

Patch(id, row) ==
    /\ Spend("act")
    /\ rows' = [rows EXCEPT ![id] = row]
    /\ UNCHANGED <<inPlace, disk, tracked, series, scan, request, exec, matching>>

Confirm(id) ==
    LET volume == IF rows[id].confirmed # NoVolume THEN rows[id].confirmed ELSE rows[id].proposed
    IN  /\ volume # NoVolume /\ rows[id].state # "confirmed"
        /\ Patch(id, [rows[id] EXCEPT !.state = "confirmed", !.confirmed = volume])

Skip(id) ==
    /\ rows[id].state # "skipped"
    /\ Patch(id, [rows[id] EXCEPT !.state = "skipped"])

BackToReview(id) ==
    Patch(id, [rows[id] EXCEPT !.state = "proposed", !.confirmed = NoVolume])

Override(id, v) ==
    Patch(id, [rows[id] EXCEPT !.state = "confirmed", !.confirmed = v, !.proposed = v])

\* execute_endpoint, its read session: every group importable, no volume twice.
ExecuteRequest(ids) ==
    LET volume(id) == ImportableVolume(rows[id])
    IN  /\ request = NoRequest /\ ~ImportLive
        /\ Overlap \/ ~ScanLive
        /\ \A id \in ids : volume(id) # NoVolume
        /\ \A i, j \in ids : i # j => volume(i) # volume(j)
        /\ Spend("import")
        /\ request' = ids
        /\ exec' = [exec EXCEPT !.meant = {rows[id].key : id \in ids}]
        /\ UNCHANGED <<inPlace, disk, tracked, series, rows, scan, matching>>

\* Its enqueue, after an await.
ExecuteEnqueue ==
    /\ request # NoRequest
    /\ exec' = [exec EXCEPT !.pc = "next", !.ids = request, !.left = request]
    /\ request' = NoRequest
    /\ UNCHANGED <<inPlace, disk, tracked, series, rows, scan, matching, spent>>

\* delete_series without its files; the chained scan finds no series.
SeriesDelete(v) ==
    /\ Exists(v)
    /\ Spend("act")
    /\ Deleted(v)
    /\ UNCHANGED <<inPlace, disk, rows, scan, request, exec, matching>>

\* A file appears below the root, or goes.
DiskChange(f) ==
    /\ Spend("act")
    /\ disk' = IF f \in disk THEN disk \ {f} ELSE disk \cup {f}
    /\ UNCHANGED <<inPlace, tracked, series, rows, scan, request, exec, matching>>

-----------------------------------------------------------------------------
(* The import (execute_library_import, _import_group).  A step that only    *)
(* leaves a message on the group goes on with the next group.               *)

Job == exec.job
JobVolume == Job.row.confirmed
SameFolder == series[JobVolume].folder = Job.row.key

Step(pc) == exec' = [exec EXCEPT !.pc = pc]
NextGroup(left) ==
    exec' = IF left = {} THEN IdleExec
            ELSE [exec EXCEPT !.pc = "next", !.left = left, !.job = NoJob]
\* The body of _import_group is left for its finally clause.
Finally == IF Job.created THEN Step("check") ELSE NextGroup(exec.left)

\* The group's transaction: promotion of a proposed group, and the copy of the
\* row the rest works with.
Promoted(row) ==
    IF row.state = "proposed" /\ row.proposed # NoVolume
    THEN [row EXCEPT !.state = "confirmed", !.confirmed = row.proposed]
    ELSE row
Importable(row) == row.state = "confirmed" /\ ~(inPlace /\ row.key \in Loose)

\* The groups of the payload come in the client's order.
ImportPromote(id) ==
    LET left == exec.left \ {id}
        row == Promoted(rows[id])
    IN  /\ exec.pc = "next"
        /\ \/ /\ id \notin DOMAIN rows
              /\ NextGroup(left)
              /\ UNCHANGED rows
           \/ /\ id \in DOMAIN rows
              /\ rows' = [rows EXCEPT ![id] = row]
              /\ IF Importable(row)
                 THEN exec' = [exec EXCEPT !.pc = "look", !.left = left,
                                           !.job = [NoJob EXCEPT !.id = id, !.row = row]]
                 ELSE NextGroup(left)
        /\ UNCHANGED <<inPlace, disk, tracked, series, scan, request, matching, spent>>

\* A series of the volume is used again in place, or the group is a duplicate.
ImportLook ==
    /\ exec.pc = "look"
    /\ CASE ~Exists(JobVolume)      -> Step("add")
         [] inPlace /\ SameFolder   -> Step("refresh")
         [] OTHER                   -> NextGroup(exec.left)
    /\ UNCHANGED <<inPlace, disk, tracked, series, rows, scan, request, matching, spent>>

\* add_series, its transaction: one series per volume and per path.
ImportAdd ==
    LET folder == IF inPlace THEN Job.row.key ELSE OwnFolder
        taken == \/ Exists(JobVolume)
                 \/ inPlace /\ \E v \in Volume : series[v].folder = folder
    IN  /\ exec.pc = "add"
        /\ IF taken
           THEN NextGroup(exec.left) /\ UNCHANGED series
           ELSE /\ series' = [series EXCEPT ![JobVolume] = [NoSeries EXCEPT !.folder = folder]]
                /\ exec' = [exec EXCEPT !.pc = "refresh", !.job.created = TRUE]
        /\ UNCHANGED <<inPlace, disk, tracked, rows, scan, request, matching, spent>>

\* _refresh_before_import: an issueless series is filled, and its scan chained.
ImportRefresh ==
    /\ exec.pc = "refresh"
    /\ series' = IF Exists(JobVolume) /\ ~series[JobVolume].issues
                 THEN [series EXCEPT ![JobVolume].issues = TRUE, ![JobVolume].scan = TRUE]
                 ELSE series
    /\ Step("import")
    /\ UNCHANGED <<inPlace, disk, tracked, rows, scan, request, matching, spent>>

\* ComicVine fails while the volume is fetched or refreshed.
ImportFails ==
    /\ \/ exec.pc = "add" /\ NextGroup(exec.left)
       \/ exec.pc = "refresh" /\ Exists(JobVolume) /\ ~series[JobVolume].issues /\ Finally
    /\ Spend("fault")
    /\ UNCHANGED <<inPlace, disk, tracked, series, rows, scan, request, matching>>

\* One transaction: the staged files that are on the disk and not yet the
\* series' own are candidates, and each is imported or blocked.
ImportFiles ==
    LET staged == Job.row.files
        candidates == IF Exists(JobVolume)
                      THEN {f \in staged \cap disk : tracked[f] # JobVolume} ELSE {}
        imported == {f \in candidates \cap Accepted : tracked[f] = NoVolume}
    IN  /\ exec.pc = "import"
        /\ tracked' = [f \in File |-> IF f \in imported THEN JobVolume ELSE tracked[f]]
        /\ IF IF candidates = {} THEN \A f \in staged : tracked[f] = JobVolume
              ELSE imported = candidates
           THEN Step("outcome")
           ELSE Finally
        /\ UNCHANGED <<inPlace, disk, series, rows, scan, request, matching, spent>>

\* _set_group_outcome, by the id of the row.
ImportOutcome ==
    /\ exec.pc = "outcome"
    /\ rows' = IF Job.id \in DOMAIN rows THEN [rows EXCEPT ![Job.id].state = "imported"] ELSE rows
    /\ Finally
    /\ UNCHANGED <<inPlace, disk, tracked, series, scan, request, matching, spent>>

\* The finally clause: does the series this group created hold a file?
ImportCheck ==
    /\ exec.pc = "check"
    /\ IF FilesOf(JobVolume) = {} THEN Step("rollback") ELSE NextGroup(exec.left)
    /\ UNCHANGED <<inPlace, disk, tracked, series, rows, scan, request, matching, spent>>

ImportRollback ==
    /\ exec.pc = "rollback"
    /\ Deleted(JobVolume)
    /\ NextGroup(exec.left)
    /\ UNCHANGED <<inPlace, disk, rows, scan, request, matching, spent>>

-----------------------------------------------------------------------------
(* The chained scan-series command, and the end of the process.             *)

\* Its read session and walk of the series' folder.
MatchStart(v) ==
    /\ series[v].scan /\ matching = <<>>
    /\ series' = [series EXCEPT ![v].scan = FALSE]
    /\ matching' = <<v, {f \in disk \cap Scannable :
                           KeyOf[f] = series[v].folder /\ tracked[f] # v}>>
    /\ UNCHANGED <<inPlace, disk, tracked, rows, scan, request, exec, spent>>

\* Its transaction: all rows or, when a path is taken or an issue gone, none.
MatchCommit ==
    LET v == matching[1]
        files == matching[2]
    IN  /\ matching # <<>>
        /\ tracked' = IF Exists(v) /\ files \cap Tracked = {}
                      THEN [f \in File |-> IF f \in files THEN v ELSE tracked[f]]
                      ELSE tracked
        /\ matching' = <<>>
        /\ UNCHANGED <<inPlace, disk, series, rows, scan, request, exec, spent>>

\* What was queued runs after the restart; what was started is interrupted.
Crash ==
    /\ Spend("crash")
    /\ scan' = IF scan.pc = "queued" THEN scan ELSE IdleScan
    /\ exec' = IF exec.pc = "next" /\ exec.left = exec.ids THEN exec ELSE IdleExec
    /\ request' = NoRequest /\ matching' = <<>>
    /\ UNCHANGED <<inPlace, disk, tracked, series, rows>>

Operator ==
    \/ \E id \in DOMAIN rows :
         \/ Confirm(id) \/ Skip(id) \/ BackToReview(id)
         \/ \E v \in Volume : Override(id, v)
    \/ \E ids \in (SUBSET DOMAIN rows) \ {{}} : ExecuteRequest(ids)
    \/ \E v \in Volume : SeriesDelete(v)
    \/ \E f \in File : DiskChange(f)

Scan == ScanStart \/ ScanPrune \/ ScanReplace \/ ScanPropose \/ ScanUnanswered
Import ==
    \/ \E id \in exec.left : ImportPromote(id)
    \/ ImportLook \/ ImportAdd \/ ImportRefresh \/ ImportFails
    \/ ImportFiles \/ ImportOutcome \/ ImportCheck \/ ImportRollback
Match == MatchCommit \/ \E v \in Volume : MatchStart(v)

Next == ScanRequest \/ Scan \/ ExecuteEnqueue \/ Import \/ Match \/ Operator \/ Crash

Spec == Init /\ [][Next]_vars

-----------------------------------------------------------------------------
TypeOK ==
    /\ inPlace \in BOOLEAN /\ disk \subseteq File
    /\ tracked \in [File -> Volume \cup {NoVolume}]
    /\ series \in [Volume -> Entry]
    /\ \A i \in DOMAIN rows : rows[i] \in Row
    /\ \A i, j \in DOMAIN rows : rows[i].key = rows[j].key => i = j

\* No step of a scan changes a decision: a confirmed or skipped group keeps it
\* through the replacement of the rows and through every late answer, unless
\* nothing of it is left to stage (flows/library_import.py _carry_forward,
\* _persist_proposal).
KeepsDecision(i) ==
    \/ \E j \in DOMAIN rows' :
         /\ rows'[j].key = rows[i].key /\ rows'[j].state = rows[i].state
         /\ rows[i].state = "confirmed" => rows'[j].confirmed = rows[i].confirmed
    \/ /\ scan.pc = "replace"
       /\ \A f \in scan.found : KeyOf[f] = rows[i].key => f \in Tracked
KeepsDecisions ==
    scan # scan' /\ exec' = exec =>
      \A i \in DOMAIN rows : rows[i].state \in {"confirmed", "skipped"} => KeepsDecision(i)
DecisionsKept == [][KeepsDecisions]_vars

\* An import registers files of the groups the operator selected and of no
\* other, and its verdict lands on the group it imported: the payload names rows
\* by their ids, and a scan deletes the rows and gives their ids out again.
FilesSelected ==
    exec.pc = "import" /\ exec'.pc # "import" =>
      \A f \in File : tracked'[f] # tracked[f] => KeyOf[f] \in exec.meant
VerdictLands ==
    \A i \in DOMAIN rows \cap DOMAIN rows' :
      rows'[i].state = "imported" /\ rows[i].state # "imported" =>
        rows[i].key = Job.row.key /\ rows[i].files = Job.row.files
HonoursSelection == spent'.crash = spent.crash => FilesSelected /\ VerdictLands
SelectionHonoured == [][HonoursSelection]_vars

\* A series that an import created and that got no file is gone when the
\* import goes on: only a crash leaves the shell.
LeavesNoShell ==
    exec.job.created /\ exec'.job # exec.job /\ spent'.crash = spent.crash =>
      \/ series'[JobVolume].folder = Absent
      \/ \E f \in File : tracked'[f] = JobVolume
NoShellLeft == [][LeavesNoShell]_vars
=============================================================================
