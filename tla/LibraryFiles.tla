---------------------------- MODULE LibraryFiles ----------------------------
(***************************************************************************)
(* The files of one series and the rows that name them: rescan, rename,    *)
(* conversion, deletion and a change of the series' directory              *)
(* (library/flows, importer/rename_ops.py, convert.py, fileops.py).        *)
(*                                                                         *)
(* Three actors.  "pp" is the worker of the group                          *)
(* IMPORT_FILE_MUTATION_GROUP, so it runs one of rescan-series,            *)
(* rename-series, convert-series and delete-series-files at a time; "scan" *)
(* runs scan-series in the default pool; "api" serves the requests that    *)
(* are not commands.  A file operation and the transaction that records it *)
(* are separate steps, with other actors, failures and crashes between     *)
(* them.  A file is known by its content: conversion keeps the content and *)
(* changes the extension.                                                  *)
(***************************************************************************)
EXTENDS Integers, FiniteSets, Functions, FiniteSetsExt

CONSTANTS Contents,    \* the comics: each one is a file's worth of pages
          Denotes,     \* stem -> the issue that a file of this name is taken for
          Canon,       \* issue -> the stem the file template renders for it
          TempStem,    \* row id -> the stem of its staging name
          Better,      \* pairs <<new, old>> where the duplicate rules choose new
          Unconvertible, \* contents whose conversion does not verify
          Mode,        \* import_transfer_mode: "move", "copy" or "hardlink"
          Regimes,     \* circumstances to explore: flags and the library at the start
          MaxActs, MaxFaults, MaxCrashes

\* crowd: actors overlap; faults: disk, database and process fail; bin: a recycle bin is
\* configured; scans: scan-series runs; disk, rows: what there is at the start, each row with
\* its file; dirs: directories the series may have; arrivals: path -> content dropped in later
RegimesAssumption == \A r \in Regimes :
    /\ {r.crowd, r.faults, r.bin, r.scans} \subseteq BOOLEAN
    /\ IsFiniteSet(DOMAIN r.disk) /\ {p[1] : p \in DOMAIN r.disk} \subseteq r.dirs
    /\ \A p \in DOMAIN r.disk \cup DOMAIN r.arrivals :
          p = <<p[1], p[2], p[3]>> /\ p[2] \in DOMAIN Denotes \ Range(TempStem)
    /\ Range(r.disk) \cup Range(r.arrivals) \subseteq Contents
    /\ IsFiniteSet(DOMAIN r.rows) /\ DOMAIN r.rows = 1 .. Cardinality(DOMAIN r.rows)
    /\ \A n \in DOMAIN r.rows : LET row == r.rows[n] IN
          /\ row = [path |-> row.path, c |-> r.disk[row.path], issue |-> row.issue]
          /\ row.path \in DOMAIN r.disk
          /\ \A m \in DOMAIN r.rows : r.rows[m].path = row.path => m = n

VARIABLES disk,     \* path -> content
          rows,     \* issue_files: id -> [path, c, issue]
          home,     \* series.path, or NoHome when the series row is gone
          bin,      \* contents in the recycle bin
          filed,    \* contents whose place in the bin a history event names
          gone,     \* contents destroyed because somebody asked for it
          seen,     \* contents that were ever in the library
          actor,    \* actor -> where its flow stands
          excused,  \* rows and files may disagree until the next clean rescan
          regime, limits
vars == <<disk, rows, home, bin, filed, gone, seen, actor, excused, regime, limits>>

Actors == {"pp", "scan", "api"}
NoHome == "none"
Path(dir, stem, ext) == <<dir, stem, ext>>
Hidden(p) == p[2] \in Range(TempStem)
PathsOf(rs) == {rs[r].path : r \in DOMAIN rs}
LastId(rs) == Max(DOMAIN rs \cup {0})
NewId(rs) == 1 + LastId(rs)
Without(f, ks) == Restrict(f, DOMAIN f \ ks)
With(f, k, v) == [x \in DOMAIN f \cup {k} |-> IF x = k THEN v ELSE f[x]]
OnDisk == Range(disk)

Idle == [at |-> "idle", todo |-> {}, moved |-> {}, cur |-> {}, pending |-> <<>>,
         whole |-> FALSE, alone |-> TRUE]
At(a, s) == actor[a].at = s
Goto(a, c) == actor' = [actor EXCEPT ![a] = c]
Quiet == \A a \in Actors : At(a, "idle")

\* an actor that is inside a write session holds the write lock across its awaits
Locked == At("pp", "importing") \/ At("pp", "promoted") \/ At("api", "relocated")
MayBegin(a) == /\ At(a, "idle") /\ limits.acts < MaxActs
               /\ regime.crowd \/ Quiet
\* a flow that runs beside another is no longer alone; neither is the other
Begin(a, c) ==
    /\ MayBegin(a)
    /\ actor' = [b \in Actors |-> IF b = a THEN [c EXCEPT !.alone = Quiet]
                                  ELSE [actor[b] EXCEPT !.alone = FALSE]]
    /\ limits' = [limits EXCEPT !.acts = @ + 1]
MayFail == regime.faults /\ limits.faults < MaxFaults
Fault == /\ MayFail /\ limits' = [limits EXCEPT !.faults = @ + 1]
         /\ excused' = (excused \/ limits.faults >= 1)
NoFault == UNCHANGED <<limits, excused>>

(***************************************************************************)
(* Moving files: os.replace overwrites what is at the destination, os.link *)
(* refuses to, a copy leaves the source.                                   *)
(***************************************************************************)
Moved(d, from, to) == With(Without(d, {from}), to, d[from])
Blocked(d, from, to) == Mode = "hardlink" /\ to \in DOMAIN d
Placed(d, from, to) == IF Mode = "move" THEN Moved(d, from, to) ELSE With(d, to, d[from])

Init ==
    /\ regime \in Regimes
    /\ home \in {p[1] : p \in DOMAIN regime.disk}
    /\ disk = regime.disk
    /\ rows = regime.rows
    /\ bin = {} /\ filed = {} /\ gone = {}
    /\ seen = Range(regime.disk)
    /\ actor = [a \in Actors |-> Idle]
    /\ excused = FALSE
    /\ limits = [acts |-> 0, faults |-> 0, crashes |-> 0]

Walk(dir, known) == {p \in DOMAIN disk : p[1] = dir /\ ~Hidden(p)} \ known

(***************************************************************************)
(* scan-series: rows and directory are read, then the matched files are    *)
(* added in one transaction.  An index on the path refuses a second row.   *)
(***************************************************************************)
ScanBegin ==
    /\ home # NoHome /\ regime.scans
    /\ Begin("scan", [Idle EXCEPT !.at = "scanned", !.todo = Walk(home, PathsOf(rows)),
                                  !.pending = disk])
    /\ UNCHANGED <<disk, rows, home, bin, filed, gone, seen, excused, regime>>

ScanWrite ==
    /\ At("scan", "scanned") /\ ~Locked
    /\ LET s == actor["scan"]
           new == {p \in s.todo : home # NoHome}
           order == CHOOSE f \in Injection(1 .. Cardinality(new), new) : TRUE
           Row(p) == [path |-> p, c |-> s.pending[p], issue |-> Denotes[p[2]]] IN
       rows' = IF new \cap PathsOf(rows) # {} THEN rows
               ELSE [r \in DOMAIN rows \cup {LastId(rows) + n : n \in DOMAIN order} |->
                        IF r \in DOMAIN rows THEN rows[r] ELSE Row(order[r - LastId(rows)])]
    /\ Goto("scan", Idle)
    /\ UNCHANGED <<disk, home, bin, filed, gone, seen, excused, regime, limits>>

(***************************************************************************)
(* rescan-series: read the rows, look which files vanished, walk the       *)
(* directory, then prune and import in one transaction.                    *)
(***************************************************************************)
RescanBegin ==
    /\ home # NoHome
    /\ Begin("pp", [Idle EXCEPT !.at = "rescan", !.pending = rows])
    /\ UNCHANGED <<disk, rows, home, bin, filed, gone, seen, excused, regime>>

\* Faulty: the rows of vanished files are kept
RescanLookAway ==
    /\ At("pp", "rescan")
    /\ Goto("pp", [actor["pp"] EXCEPT !.at = "walk", !.pending = <<>>])
    /\ UNCHANGED <<disk, rows, home, bin, filed, gone, seen, excused, regime, limits>>

RescanLook ==
    /\ At("pp", "rescan")
    /\ LET w == actor["pp"] IN
       Goto("pp", [w EXCEPT !.at = "walk", !.pending = <<>>,
           !.moved = {r \in DOMAIN w.pending : w.pending[r].path \notin DOMAIN disk}])
    /\ UNCHANGED <<disk, rows, home, bin, filed, gone, seen, excused, regime, limits>>

RescanWalk ==
    /\ At("pp", "walk")
    /\ Goto("pp", [actor["pp"] EXCEPT !.at = "walked",
           !.todo = IF home = NoHome THEN {} ELSE Walk(home, PathsOf(rows))])
    /\ UNCHANGED <<disk, rows, home, bin, filed, gone, seen, excused, regime, limits>>

RescanPrune ==
    /\ At("pp", "walked") /\ ~Locked
    /\ Goto("pp", [actor["pp"] EXCEPT !.at = "importing",
           !.pending = Without(rows, actor["pp"].moved)])
    /\ UNCHANGED <<disk, rows, home, bin, filed, gone, seen, excused, regime, limits>>

\* the row the duplicate rules compare with: the first one of the issue
Existing(rs, i) == LET own == {r \in DOMAIN rs : rs[r].issue = i} IN
                   IF own = {} THEN 0 ELSE Min(own)
Approved(rs, p) == LET e == Existing(rs, Denotes[p[2]]) IN e = 0 \/ <<disk[p], rs[e].c>> \in Better

\* execute(): the loser is moved out first when the new file takes its very path, else last
Executed(p, rs) ==
    LET c == disk[p]
        i == Denotes[p[2]]
        e == Existing(rs, i)
        dest == Path(home, Canon[i], p[3])
        old == IF e = 0 THEN {} ELSE {rs[e].path} \cap DOMAIN disk
        loser == old \ {p}
        space == Without(disk, loser \cap {dest})
        placed == Placed(space, p, dest)
        kept == IF old # {} \/ (e # 0 /\ rs[e].path = dest) THEN Without(rs, {e}) ELSE rs IN
    IF Blocked(space, p, dest)
    THEN [disk |-> space, lost |-> {disk[x] : x \in loser \cap {dest}}, rows |-> rs]
    ELSE [disk |-> Without(placed, loser \ {dest}), lost |-> {disk[x] : x \in loser},
          rows |-> IF dest \in PathsOf(kept) THEN rs
                   ELSE With(kept, NewId(kept), [path |-> dest, c |-> c, issue |-> i])]
Disposed(cs) == IF regime.bin THEN bin' = bin \cup cs /\ filed' = filed \cup cs /\ UNCHANGED gone
                ELSE gone' = gone \cup cs /\ UNCHANGED <<bin, filed>>

ImportOne(p) ==
    /\ At("pp", "importing") /\ p \in actor["pp"].todo
    /\ LET w == actor["pp"]
           able == home # NoHome /\ p \in DOMAIN disk
           rest(rs) == Goto("pp", [w EXCEPT !.todo = @ \ {p}, !.pending = rs]) IN
       IF able /\ Approved(w.pending, p)
       THEN LET x == Executed(p, w.pending) IN
            disk' = x.disk /\ Disposed(x.lost) /\ rest(x.rows)
       ELSE rest(w.pending) /\ UNCHANGED <<disk, bin, filed, gone>>
    /\ UNCHANGED <<rows, home, seen, excused, regime, limits>>

\* no space, an unreadable archive: the candidate is reported and left in place
ImportFails(p) ==
    /\ At("pp", "importing") /\ p \in actor["pp"].todo
    /\ Fault
    /\ Goto("pp", [actor["pp"] EXCEPT !.todo = @ \ {p}, !.alone = FALSE])
    /\ UNCHANGED <<disk, rows, home, bin, filed, gone, seen, regime>>

RescanCommit ==
    /\ At("pp", "importing") /\ actor["pp"].todo = {}
    /\ rows' = IF home = NoHome THEN rows ELSE actor["pp"].pending
    /\ excused' = (excused /\ ~actor["pp"].alone)
    /\ Goto("pp", Idle)
    /\ UNCHANGED <<disk, home, bin, filed, gone, seen, regime, limits>>

\* the transaction is rolled back, the files that were placed stay where they are
RescanCommitFails ==
    /\ At("pp", "importing") /\ actor["pp"].todo = {}
    /\ MayFail /\ limits' = [limits EXCEPT !.faults = @ + 1]
    /\ excused' = TRUE
    /\ Goto("pp", Idle)
    /\ UNCHANGED <<disk, rows, home, bin, filed, gone, seen, regime>>

(***************************************************************************)
(* rename-series: every file of the plan is moved to a staging name with   *)
(* its row, then from there to its final name with its row.                *)
(***************************************************************************)
Target(row) == Path(home, Canon[row.issue], row.path[3])
Changed == {r \in DOMAIN rows : Target(rows[r]) # rows[r].path}
Colliding == {r \in Changed : \E s \in Changed \ {r} : Target(rows[s]) = Target(rows[r])}
Staging(r) == Path(home, TempStem[r], rows[r].path[3])

\* Faulty: no staging, each file goes straight to its final name
RenameBeginUnstaged ==
    /\ home # NoHome
    /\ Begin("pp", [Idle EXCEPT !.at = "rename",
           !.todo = {[row |-> r, from |-> rows[r].path, to |-> Target(rows[r]), final |-> Target(rows[r])] :
                         r \in Changed \ Colliding}])
    /\ UNCHANGED <<disk, rows, home, bin, filed, gone, seen, excused, regime>>

RenameBegin ==
    /\ home # NoHome
    /\ Begin("pp", [Idle EXCEPT !.at = "rename",
           !.todo = {[row |-> r, from |-> rows[r].path, to |-> Staging(r), final |-> Target(rows[r])] :
                         r \in Changed \ Colliding}])
    /\ UNCHANGED <<disk, rows, home, bin, filed, gone, seen, excused, regime>>

RenameMove(m) ==
    /\ At("pp", "rename") /\ m \in actor["pp"].todo
    /\ LET w == [actor["pp"] EXCEPT !.todo = @ \ {m}] IN
       IF m.from \in DOMAIN disk
       THEN disk' = Moved(disk, m.from, m.to) /\ Goto("pp", [w EXCEPT !.at = "renamed", !.cur = {m}])
       ELSE disk' = disk /\ Goto("pp", w)
    /\ UNCHANGED <<rows, home, bin, filed, gone, seen, excused, regime, limits>>

RenameCommit(m) ==
    /\ At("pp", "renamed") /\ m \in actor["pp"].cur /\ ~Locked
    /\ m.to \notin PathsOf(Without(rows, {m.row}))
    /\ rows' = IF m.row \in DOMAIN rows THEN [rows EXCEPT ![m.row].path = m.to] ELSE rows
    /\ Goto("pp", [actor["pp"] EXCEPT !.at = "rename", !.cur = {},
           !.moved = @ \cup IF m.to = m.final THEN {}
                            ELSE {[row |-> m.row, from |-> m.to, to |-> m.final, final |-> m.final]}])
    /\ UNCHANGED <<disk, home, bin, filed, gone, seen, regime, limits, excused>>

\* the row could not be written (busy, or the path is another row's): the file is moved back
RenameUndo(m) ==
    /\ At("pp", "renamed") /\ m \in actor["pp"].cur /\ ~Locked
    /\ IF m.to \in PathsOf(Without(rows, {m.row})) THEN NoFault ELSE Fault
    /\ disk' = IF m.to \in DOMAIN disk THEN Moved(disk, m.to, m.from) ELSE disk
    /\ Goto("pp", [actor["pp"] EXCEPT !.at = "rename", !.cur = {}])
    /\ UNCHANGED <<rows, home, bin, filed, gone, seen, regime>>

RenamePromote ==
    /\ At("pp", "rename") /\ actor["pp"].todo = {}
    /\ IF actor["pp"].moved = {} THEN Goto("pp", Idle)
       ELSE Goto("pp", [actor["pp"] EXCEPT !.todo = actor["pp"].moved, !.moved = {}])
    /\ UNCHANGED <<disk, rows, home, bin, filed, gone, seen, excused, regime, limits>>

(***************************************************************************)
(* convert-series: build and verify a .cbz, swap the row, and only after   *)
(* the commit remove the .cbr.                                             *)
(***************************************************************************)
Cbz(p) == Path(p[1], p[2], "cbz")

ConvertBegin ==
    /\ home # NoHome
    /\ Begin("pp", [Idle EXCEPT !.at = "convert",
                    !.todo = {[row |-> r, from |-> rows[r].path] : r \in DOMAIN rows}])
    /\ UNCHANGED <<disk, rows, home, bin, filed, gone, seen, excused, regime>>

Convertible(p) == /\ p \in DOMAIN disk /\ p[3] = "cbr"
                  /\ \/ Cbz(p) \in DOMAIN disk      \* left by an earlier run, or a stranger: it verifies
                     \/ disk[p] \notin Unconvertible

ConvertOne(m) ==
    /\ At("pp", "convert") /\ m \in actor["pp"].todo /\ ~Locked
    /\ LET w == [actor["pp"] EXCEPT !.todo = @ \ {m}] IN
       IF Convertible(m.from)
       THEN /\ disk' = IF Cbz(m.from) \in DOMAIN disk THEN disk
                       ELSE With(disk, Cbz(m.from), disk[m.from])
            /\ Goto("pp", [w EXCEPT !.at = "promoted", !.cur = {m}])
       ELSE disk' = disk /\ Goto("pp", w)
    /\ UNCHANGED <<rows, home, bin, filed, gone, seen, excused, regime, limits>>

ConvertCommit(m) ==
    /\ At("pp", "promoted") /\ m \in actor["pp"].cur
    /\ Cbz(m.from) \notin PathsOf(Without(rows, {m.row}))
    /\ rows' = IF m.row \in DOMAIN rows THEN [rows EXCEPT ![m.row].path = Cbz(m.from)] ELSE rows
    /\ Goto("pp", [actor["pp"] EXCEPT !.at = "converted"])
    /\ UNCHANGED <<disk, home, bin, filed, gone, seen, excused, regime, limits>>

\* the command ends with an error; the .cbz stays for the next run to adopt
ConvertCommitFails(m) ==
    /\ At("pp", "promoted") /\ m \in actor["pp"].cur
    /\ IF Cbz(m.from) \in PathsOf(Without(rows, {m.row})) THEN NoFault ELSE Fault
    /\ Goto("pp", Idle)
    /\ UNCHANGED <<disk, rows, home, bin, filed, gone, seen, regime>>

ConvertCleanUp(m) ==
    /\ At("pp", "converted") /\ m \in actor["pp"].cur
    /\ disk' = Without(disk, {m.from})
    /\ Goto("pp", [actor["pp"] EXCEPT !.at = "convert", !.cur = {}])
    /\ UNCHANGED <<rows, home, bin, filed, gone, seen, excused, regime, limits>>

ConvertEnd ==
    /\ At("pp", "convert") /\ actor["pp"].todo = {}
    /\ Goto("pp", Idle)
    /\ UNCHANGED <<disk, rows, home, bin, filed, gone, seen, excused, regime, limits>>

(***************************************************************************)
(* Deletion, of a series with its files (command) or of one file (request).*)
(* With a bin: move every file, then commit, and move back on a failure.   *)
(* Without: commit, then unlink.                                           *)
(***************************************************************************)
DeleteBegin(a, rs) ==
    /\ home # NoHome
    /\ IF a = "pp" THEN rs = DOMAIN rows ELSE Cardinality(rs) = 1
    /\ Begin(a, [Idle EXCEPT !.at = IF regime.bin THEN "delete" ELSE "forget", !.whole = (a = "pp"),
                 !.todo = {[row |-> r, from |-> rows[r].path, c |-> rows[r].c] : r \in rs}])
    /\ UNCHANGED <<disk, rows, home, bin, filed, gone, seen, excused, regime>>

Recycle(a, m) ==
    /\ At(a, "delete") /\ m \in actor[a].todo
    /\ LET w == [actor[a] EXCEPT !.todo = @ \ {m}, !.pending = With(@, m.row, m)] IN
       IF m.from \in DOMAIN disk
       THEN /\ bin' = bin \cup {disk[m.from]} /\ disk' = Without(disk, {m.from})
            /\ Goto(a, [w EXCEPT !.moved = @ \cup {[path |-> m.from, c |-> disk[m.from]]}])
       ELSE Goto(a, w) /\ UNCHANGED <<bin, disk>>
    /\ UNCHANGED <<rows, home, filed, gone, seen, excused, regime, limits>>

RecycleFails(a) ==
    /\ At(a, "delete") /\ actor[a].todo # {}
    /\ Fault
    /\ Goto(a, [actor[a] EXCEPT !.at = "undo"])
    /\ UNCHANGED <<disk, rows, home, bin, filed, gone, seen, regime>>

Doomed(a) == IF actor[a].whole THEN DOMAIN rows ELSE DOMAIN actor[a].pending

DeleteCommit(a) ==
    /\ At(a, "delete") /\ actor[a].todo = {} /\ ~Locked
    /\ actor[a].whole => home # NoHome
    /\ rows' = Without(rows, Doomed(a))
    /\ home' = IF actor[a].whole THEN NoHome ELSE home
    /\ filed' = filed \cup {m.c : m \in actor[a].moved}
    /\ Goto(a, Idle)
    /\ UNCHANGED <<disk, bin, gone, seen, excused, regime, limits>>

\* the commit fails, or the series is gone: everything moved is restored
DeleteFails(a) ==
    /\ At(a, "delete") /\ actor[a].todo = {} /\ ~Locked
    /\ IF actor[a].whole /\ home = NoHome THEN NoFault ELSE Fault
    /\ Goto(a, [actor[a] EXCEPT !.at = "undo"])
    /\ UNCHANGED <<disk, rows, home, bin, filed, gone, seen, regime>>

Restore(a, m) ==
    /\ At(a, "undo") /\ m \in actor[a].moved
    /\ disk' = With(disk, m.path, m.c)
    /\ bin' = bin \ {m.c}
    /\ Goto(a, [actor[a] EXCEPT !.moved = @ \ {m}])
    /\ UNCHANGED <<rows, home, filed, gone, seen, excused, regime, limits>>

\* a file that cannot be restored stays in the bin; the series deletion records where
RestoreFails(a, m) ==
    /\ At(a, "undo") /\ m \in actor[a].moved
    /\ Fault
    /\ filed' = IF actor[a].whole THEN filed \cup {m.c} ELSE filed
    /\ Goto(a, [actor[a] EXCEPT !.moved = @ \ {m}])
    /\ UNCHANGED <<disk, rows, home, bin, gone, seen, regime>>

UndoEnds(a) ==
    /\ At(a, "undo") /\ actor[a].moved = {}
    /\ Goto(a, Idle)
    /\ UNCHANGED <<disk, rows, home, bin, filed, gone, seen, excused, regime, limits>>

Forget(a) ==
    /\ At(a, "forget") /\ ~Locked
    /\ actor[a].whole => home # NoHome
    /\ rows' = Without(rows, IF actor[a].whole THEN DOMAIN rows
                             ELSE {m.row : m \in actor[a].todo})
    /\ home' = IF actor[a].whole THEN NoHome ELSE home
    /\ gone' = gone \cup {m.c : m \in actor[a].todo}
    /\ Goto(a, [actor[a] EXCEPT !.at = "unlink"])
    /\ UNCHANGED <<disk, bin, filed, seen, excused, regime, limits>>

ForgetFails(a) ==
    /\ At(a, "forget") /\ ~Locked
    /\ IF actor[a].whole /\ home = NoHome THEN NoFault ELSE Fault
    /\ Goto(a, Idle)
    /\ UNCHANGED <<disk, rows, home, bin, filed, gone, seen, regime>>

Unlink(a, m) ==
    /\ At(a, "unlink") /\ m \in actor[a].todo
    /\ disk' = Without(disk, {m.from})
    /\ Goto(a, [actor[a] EXCEPT !.todo = @ \ {m}])
    /\ UNCHANGED <<rows, home, bin, filed, gone, seen, excused, regime, limits>>

UnlinkEnds(a) ==
    /\ At(a, "unlink") /\ actor[a].todo = {}
    /\ Goto(a, Idle)
    /\ UNCHANGED <<disk, rows, home, bin, filed, gone, seen, excused, regime, limits>>

\* delete_series without its files: the rows cascade, the files stay
RemoveSeries ==
    /\ MayBegin("api") /\ home # NoHome /\ ~Locked
    /\ home' = NoHome /\ rows' = <<>>
    /\ actor' = [a \in Actors |-> [actor[a] EXCEPT !.alone = FALSE]]
    /\ limits' = [limits EXCEPT !.acts = @ + 1]
    /\ UNCHANGED <<disk, bin, filed, gone, seen, excused, regime>>

(***************************************************************************)
(* edit_series with a new path: the directory is renamed inside the        *)
(* transaction that changes series.path.  The rows keep their old paths.   *)
(***************************************************************************)
InDir(p, dir) == Path(dir, p[2], p[3])
Relocated(from, to) ==
    [p \in {IF q[1] = from THEN InDir(q, to) ELSE q : q \in DOMAIN disk} |->
        IF p[1] = to THEN disk[InDir(p, from)] ELSE disk[p]]

EditMove(to) ==
    /\ home # NoHome /\ to # home /\ ~Locked
    /\ \A p \in DOMAIN disk : p[1] # to           \* os.rename refuses a directory in use
    /\ Begin("api", [Idle EXCEPT !.at = "relocated", !.cur = {[to |-> to]}])
    /\ disk' = Relocated(home, to)
    /\ excused' = TRUE
    /\ UNCHANGED <<rows, home, bin, filed, gone, seen, regime>>

EditCommit ==
    /\ At("api", "relocated")
    /\ home' = (CHOOSE e \in actor["api"].cur : TRUE).to
    /\ Goto("api", Idle)
    /\ UNCHANGED <<disk, rows, bin, filed, gone, seen, excused, regime, limits>>

\* the row is rolled back, the directory is not
EditCommitFails ==
    /\ At("api", "relocated")
    /\ Fault
    /\ Goto("api", Idle)
    /\ UNCHANGED <<disk, rows, home, bin, filed, gone, seen, regime>>

(***************************************************************************)
(* The owner and the process.                                              *)
(***************************************************************************)
OwnerAdds(p) ==
    /\ MayBegin("api") /\ p \in DOMAIN regime.arrivals \ DOMAIN disk /\ regime.arrivals[p] \notin seen
    /\ disk' = With(disk, p, regime.arrivals[p])
    /\ seen' = seen \cup {regime.arrivals[p]}
    /\ actor' = [a \in Actors |-> [actor[a] EXCEPT !.alone = FALSE]]
    /\ limits' = [limits EXCEPT !.acts = @ + 1]
    /\ UNCHANGED <<rows, home, bin, filed, gone, excused, regime>>

OwnerRemoves(p) ==
    /\ MayBegin("api") /\ p \in DOMAIN disk
    /\ disk' = Without(disk, {p})
    /\ gone' = gone \cup {disk[p]}
    /\ excused' = TRUE
    /\ actor' = [a \in Actors |-> [actor[a] EXCEPT !.alone = FALSE]]
    /\ limits' = [limits EXCEPT !.acts = @ + 1]
    /\ UNCHANGED <<rows, home, bin, filed, seen, regime>>

Crash ==
    /\ regime.faults /\ limits.crashes < MaxCrashes /\ ~Quiet
    /\ actor' = [a \in Actors |-> Idle]
    /\ excused' = TRUE
    /\ limits' = [limits EXCEPT !.crashes = @ + 1]
    /\ UNCHANGED <<disk, rows, home, bin, filed, gone, seen, regime>>

Scan == ScanBegin \/ ScanWrite
Rescan == \/ RescanBegin \/ RescanLook \/ RescanWalk \/ RescanPrune
          \/ \E p \in actor["pp"].todo : ImportOne(p) \/ ImportFails(p)
          \/ RescanCommit \/ RescanCommitFails
Rename == \/ RenameBegin \/ RenamePromote
          \/ \E m \in actor["pp"].todo : RenameMove(m)
          \/ \E m \in actor["pp"].cur : RenameCommit(m) \/ RenameUndo(m)
Convert == \/ ConvertBegin \/ ConvertEnd
           \/ \E m \in actor["pp"].todo : ConvertOne(m)
           \/ \E m \in actor["pp"].cur : ConvertCommit(m) \/ ConvertCommitFails(m) \/ ConvertCleanUp(m)
Delete == \E a \in {"pp", "api"} :
    \/ DeleteBegin(a, DOMAIN rows) \/ \E r \in DOMAIN rows : DeleteBegin(a, {r})
    \/ RecycleFails(a) \/ DeleteCommit(a) \/ DeleteFails(a) \/ UndoEnds(a)
    \/ Forget(a) \/ ForgetFails(a) \/ UnlinkEnds(a)
    \/ \E m \in actor[a].todo : Recycle(a, m) \/ Unlink(a, m)
    \/ \E m \in actor[a].moved : Restore(a, m) \/ RestoreFails(a, m)
Edit == (\E d \in regime.dirs : EditMove(d)) \/ EditCommit \/ EditCommitFails \/ RemoveSeries
Owner == \E p \in DOMAIN regime.arrivals \cup DOMAIN disk : OwnerAdds(p) \/ OwnerRemoves(p)

Next == Scan \/ Rescan \/ Rename \/ Convert \/ Delete \/ Edit \/ Owner \/ Crash
Spec == Init /\ [][Next]_vars

TypeOK ==
    /\ Range(disk) \subseteq Contents
    /\ \A r \in DOMAIN rows : rows[r].c \in Contents
    /\ home \in regime.dirs \cup {NoHome}
    /\ bin \cup filed \cup gone \cup seen \subseteq Contents
    /\ regime \in Regimes /\ excused \in BOOLEAN

(***************************************************************************)
(* Properties                                                              *)
(***************************************************************************)
\* No comic is lost: whatever was in the library is on disk or in the bin,
\* unless its deletion was asked for.  It is what the two-phase rename, the
\* order of a conversion, the bin-first deletion and the placement of an
\* import promise together, in every overlap, failure and crash explored.
ContentKept == seen \subseteq OnDisk \cup bin \cup gone

\* One failure leaves nothing inconsistent: with every flow at rest, each row
\* names a file that holds what it was registered for, and whatever is in the
\* bin is named by a history event (_move_file_and_row's and delete_series'
\* compensation, the conversion's order).  For the rows a crash, a second failure,
\* the owner's hand and an edit of the path are excused until a rescan has run.
OneFaultHarmless ==
    (Quiet /\ ~regime.crowd) =>
        /\ ~excused => \A r \in DOMAIN rows :
                           rows[r].path \in DOMAIN disk /\ disk[rows[r].path] = rows[r].c
        /\ (limits.crashes = 0 /\ limits.faults <= 1) => bin \subseteq filed

\* A rescan that nothing disturbs heals the series: afterwards every row names
\* a file, and every file in the directory is registered or its issue has another
\* one (rescan_series).
RescanHeals ==
    [][ (At("pp", "importing") /\ RescanCommit /\ actor["pp"].alone /\ home # NoHome) =>
          /\ \A r \in DOMAIN rows' : rows'[r].path \in DOMAIN disk'
          /\ \A p \in DOMAIN disk' : (p[1] = home' /\ ~Hidden(p)) =>
                \E r \in DOMAIN rows' : rows'[r].path = p \/ rows'[r].issue = Denotes[p[2]] ]_vars
=============================================================================
