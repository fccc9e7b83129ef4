--------------------------- MODULE ImportPipeline ---------------------------
(***************************************************************************)
(* One file through importer/pipeline.py: the issue it is taken for        *)
(* (reconcile), the import specifications (decisions.py), the placement in *)
(* the library and the disposal of the file it supersedes (execute), the   *)
(* conversion at import, and the history entry.                            *)
(*                                                                         *)
(* Every candidate runs in a write transaction, so nothing else changes    *)
(* the database meanwhile; what can go wrong is the order of the file      *)
(* operations and the rows, and the sequence of candidates.  An offer is a *)
(* file with everything that says which issue it is.  A path is a stem     *)
(* (the issue under the file template, the file's own name without it) and *)
(* a format.                                                               *)
(***************************************************************************)
EXTENDS Integers, SequencesExt

CONSTANTS SeriesOf,   \* issue -> series
          Number,     \* issue -> issue number, from 1
          Collected,  \* series that are collected editions
          Loose,      \* pairs <<title, series>> that match without being equal
          Attr,       \* file -> [fmt, rar, ok, size, fix]
          Offers,     \* what may be offered: records, see below
          Ladder,     \* format profile, worst first
          Regimes,    \* records [rename, larger, keep, convert, readonly, faults, vanish]
          MaxOffers, MaxTrouble

\* An offer: c the file; kind "download", "manual" or "library"; id the download or None;
\* title, num, ord, trade the parsed name (0: no number); tag, cv the issue its name and its
\* ComicInfo carry; grab the grabbed issue; store [series, via] of the purchase;
\* over [series, issue] the operator's correction
None == "none"
Issues == DOMAIN SeriesOf
Series == {SeriesOf[i] : i \in Issues}

\* A library import knows of no grab and no purchase; an embedded id and a grab name an issue
\* or none.  A stem is that of an issue or of a file, never of both.
OffersAssumption ==
    /\ None \notin Issues /\ Issues \cap DOMAIN Attr = {}
    /\ Ladder \in Seq(Range(Ladder)) /\ MaxOffers \in Nat /\ MaxTrouble \in Nat
    /\ \A c \in DOMAIN Attr : Attr[c].size \in Nat /\ Attr[c].fix \in Nat
    /\ \A o \in Offers : /\ o.c \in DOMAIN Attr
                         /\ o.cv \in Issues \cup {None} /\ o.grab \in Issues \cup {None}
                         /\ o.kind = "library" => o.grab = None /\ o.store.series = None

VARIABLES disk,      \* path -> file, in the library directories
          rows,      \* issue_files: id -> [issue, path, size, fix]
          history,   \* download -> its newest import_history entry
          imported,  \* <<download, issue>> with an imported entry
          kept,      \* files in the recycle bin or the duplicate dump
          removed,   \* files the operator took away
          known,     \* files some committed row has named
          beaten,    \* <<issue, file>>: superseded, the issue has had a file ever since
          regime, budget
vars == <<disk, rows, history, imported, kept, removed, known, beaten, regime, budget>>

NoRow == [issue |-> None, path |-> <<None, None>>, size |-> 0, fix |-> 0]
With(f, k, v) == [x \in DOMAIN f \cup {k} |-> IF x = k THEN v ELSE f[x]]
Without(f, k) == [x \in DOMAIN f \ {k} |-> f[x]]
Fmt(path) == path[2]
Formats == {Attr[c].fmt : c \in DOMAIN Attr} \cup {"cbz"}
RowsOf(i) == {n \in DOMAIN rows : rows[n].issue = i}
NewId(rs) == 1 + Max(DOMAIN rs \cup {0})

\* the name a library import leaves a file under, and the one the pipeline renders
Own(c) == <<c, Attr[c].fmt>>
Dest(o, i) == IF regime.rename THEN <<i, Attr[o.c].fmt>> ELSE Own(o.c)

\* Rows name issues of the library, files lie in its directories, the budgets are not
\* overspent: the types of the tables issue_files and import_history.
TypeOK ==
    /\ \A n \in DOMAIN rows : rows[n].issue \in Issues /\ Fmt(rows[n].path) \in Formats
    /\ \A p \in DOMAIN disk : disk[p] \in DOMAIN Attr
    /\ imported \subseteq (DOMAIN history) \X Issues
    /\ kept \cup removed \cup known \subseteq DOMAIN Attr
    /\ regime \in Regimes /\ budget \in [offers : 0..MaxOffers, trouble : 0..MaxTrouble]

Init ==
    /\ disk = <<>> /\ rows = <<>> /\ history = <<>>
    /\ imported = {} /\ kept = {} /\ removed = {} /\ known = {} /\ beaten = {}
    /\ regime \in Regimes
    /\ budget = [offers |-> MaxOffers, trouble |-> MaxTrouble]

-----------------------------------------------------------------------------
(* Which issue the file is (reconcile).                                    *)

Match(s, n) == {i \in Issues : SeriesOf[i] = s /\ Number[i] = n}
TitleMatches(title, s) == title = s \/ <<title, s>> \in Loose
Scope(o) == IF o.kind = "library" THEN o.over.series ELSE None
InScope(o, s) == Scope(o) \in {None, s}
NoIssue == [series |-> None, issue |-> None, via |-> None, refused |-> FALSE, conflict |-> FALSE]
Found(s, i, via) == [NoIssue EXCEPT !.series = s, !.issue = i, !.via = via]

\* a full correction is taken when it names an existing issue
Override(o) == {i \in Issues : /\ o.over.issue = i
                               /\ o.over.series \in {None, SeriesOf[i]}
                               /\ InScope(o, SeriesOf[i])}
\* a correction that names only the series
Pinned(o) == {s \in Series : o.over = [series |-> s, issue |-> None]}
\* the issue the ComicVine id inside the archive resolves to
Embedded(o) == {i \in Issues : o.cv = i}

\* the universal stale-tag guard
TagDisagrees(o, i) ==
    /\ o.num # 0
    /\ o.num # Number[i] \/ o.title \notin {None, SeriesOf[i]}
Tagged(o) == {i \in Issues : o.tag = i /\ InScope(o, SeriesOf[i]) /\ ~TagDisagrees(o, i)}

\* a volume number stands in for the issue number only under three guards
OrdinalRefused(o, s) ==
    \/ o.store.series # None /\ o.store.via # "operator"
    \/ o.trade /\ s \notin Collected
HasFile(i) == RowsOf(i) # {}
Derive(o, s) ==
    LET exact == Match(s, o.num) IN
    LET guess == Match(s, o.ord) IN
    CASE o.num # 0 -> [issue |-> exact, via |-> "name", refused |-> FALSE]
      [] o.num = 0 /\ o.ord = 0 -> [issue |-> {}, via |-> None, refused |-> FALSE]
      [] o.num = 0 /\ o.ord # 0 /\ OrdinalRefused(o, s) ->
             [issue |-> {}, via |-> None, refused |-> TRUE]
      [] OTHER -> [issue |-> {i \in guess : ~HasFile(i)}, via |-> "ordinal",
                   refused |-> \E i \in guess : HasFile(i)]

\* below the corrections: our own tag, the grab, the store's series, the scope, the name
Derived(o, s, via) ==
    LET d == Derive(o, s) IN
    [Found(s, IF d.issue = {} THEN None ELSE CHOOSE i \in d.issue : TRUE, via)
        EXCEPT !.refused = d.refused, !.via = IF d.via = "ordinal" THEN "ordinal" ELSE via]
ByName(o) ==
    LET i == Match(o.title, o.num) IN
    IF o.num = 0 \/ o.title = None \/ i = {} THEN NoIssue
    ELSE Found(o.title, CHOOSE x \in i : TRUE, "name")
InScopeByName(o, s) ==
    LET d == Derived(o, s, "name") IN
    IF ~TitleMatches(o.title, s) \/ (d.issue = None /\ ~d.refused) THEN NoIssue ELSE d
Base(o) ==
    CASE Tagged(o) # {} -> LET i == CHOOSE x \in Tagged(o) : TRUE IN Found(SeriesOf[i], i, "tag")
      [] Tagged(o) = {} /\ o.grab # None -> Found(SeriesOf[o.grab], o.grab, "grab")
      [] Tagged(o) = {} /\ o.grab = None /\ o.store.series # None -> Derived(o, o.store.series, "store")
      [] Tagged(o) = {} /\ o.grab = None /\ o.store.series = None /\ Scope(o) # None ->
             InScopeByName(o, Scope(o))
      [] OTHER -> ByName(o)

\* the series the name is taken for when the embedded id is weighed against it
NameSeries(o) == IF Scope(o) # None
                 THEN {s \in Series : s = Scope(o) /\ TitleMatches(o.title, s)}
                 ELSE {s \in Series : s = o.title}
EmbeddedHoldsAnywhere(o, i) == NameSeries(o) \subseteq {SeriesOf[i]}
EmbeddedHolds(o, i) ==
    /\ InScope(o, SeriesOf[i])
    /\ o.store.series # None => SeriesOf[i] = o.store.series
    /\ o.store.series = None => NameSeries(o) \subseteq {SeriesOf[i]}
WithEmbedded(o, conflict) ==
    LET b == Base(o) IN
    IF b.via \in {"tag", "grab"} \/ Embedded(o) = {} THEN [b EXCEPT !.conflict = conflict]
    ELSE IF EmbeddedHolds(o, o.cv)
         THEN [Found(SeriesOf[o.cv], o.cv, "comicinfo") EXCEPT !.conflict = conflict]
         ELSE [b EXCEPT !.conflict = TRUE]
\* a series-only correction: embedded id within it, then the number within it, then on
PinnedTo(o, s) ==
    LET abroad == \E i \in Embedded(o) : SeriesOf[i] # s IN
    CASE \E i \in Embedded(o) : SeriesOf[i] = s -> Found(s, o.cv, "comicinfo")
      [] ~(\E i \in Embedded(o) : SeriesOf[i] = s) /\ o.num # 0 /\ Match(s, o.num) # {} ->
             [Found(s, CHOOSE i \in Match(s, o.num) : TRUE, "pin") EXCEPT !.conflict = abroad]
      [] OTHER -> WithEmbedded(o, abroad)
Reconciled(o) ==
    CASE Override(o) # {} -> Found(SeriesOf[o.over.issue], o.over.issue, "override")
      [] Override(o) = {} /\ Pinned(o) # {} -> PinnedTo(o, o.over.series)
      [] OTHER -> WithEmbedded(o, FALSE)

-----------------------------------------------------------------------------
(* Whether it is imported (build_evaluation, decide).                      *)

\* the issue's first row: the file the candidate is weighed against
Existing(i) == IF HasFile(i) THEN rows[Min(RowsOf(i))] ELSE NoRow
Rank(fmt) == IF Contains(Ladder, fmt) THEN CHOOSE n \in DOMAIN Ladder : Ladder[n] = fmt ELSE 0
SameRung(o, e) == Rank(Attr[o.c].fmt) > 0 /\ Rank(Attr[o.c].fmt) = Rank(Fmt(e.path))
UpgradeAllowed(o, e) ==
    e = NoRow \/ SameRung(o, e) \/ Rank(Attr[o.c].fmt) > Rank(Fmt(e.path))
DuplicateWins(o, e) ==
    \/ Attr[o.c].fix > e.fix
    \/ Attr[o.c].fix = e.fix /\ regime.larger /\ Attr[o.c].size > e.size
DuplicateConstraint(o, e) == e = NoRow \/ ~SameRung(o, e) \/ DuplicateWins(o, e)
AlreadyImported(o, i) == o.id # None /\ <<o.id, i>> \in imported
MappedToIssue(r) == r.issue # None \/ r.refused
OrdinalGuard(r) == r.issue # None \/ ~r.refused
EmbeddedIdConflict(r) == r.conflict
ArchiveValid(o) == Attr[o.c].ok

Approved(o, r) ==
    LET e == Existing(r.issue) IN
    /\ MappedToIssue(r) /\ OrdinalGuard(r)
    /\ ~EmbeddedIdConflict(r) /\ ArchiveValid(o)
    /\ ~AlreadyImported(o, r.issue)
    /\ UpgradeAllowed(o, e)
    /\ DuplicateConstraint(o, e)

-----------------------------------------------------------------------------
(* The import (execute, _convert_placed_cbr, import_candidate).            *)

InPlace(o) == o.kind = "library" /\ ~regime.rename
Present(e) == e # NoRow /\ e.path \in DOMAIN disk
LeavesFirstNever(o, i) == FALSE
\* the destination is the superseded file's own path: it leaves before the placement
LeavesFirst(o, i) == Present(Existing(i)) /\ ~InPlace(o) /\ Existing(i).path = Dest(o, i)

\* the file operations of the import
Operations(o, i) == (IF InPlace(o) THEN {} ELSE {"place"})
                      \cup (IF Present(Existing(i)) THEN {"dispose"} ELSE {})
\* those done before a fault strikes: at the first one, at the second one, or later
Done(o, i, fault) ==
    CASE fault = "first" -> {}
      [] fault = "second" -> {IF LeavesFirst(o, i) \/ InPlace(o) THEN "dispose" ELSE "place"}
      [] OTHER -> Operations(o, i)
CanFail(o, i, fault) ==
    fault \in {"first", "second"} => ~(Operations(o, i) \subseteq Done(o, i, fault))

Taken(d, o) == IF o.kind = "library" THEN Without(d, Own(o.c)) ELSE d
Placed(d, o, i) == With(Taken(d, o), Dest(o, i), o.c)
Disposed(d, i) == Without(d, Existing(i).path)
\* the disk after these operations, the disposal before the placement or after it
After(o, i, ops) ==
    LET space == IF "dispose" \in ops /\ LeavesFirst(o, i) THEN Disposed(disk, i) ELSE disk
        placed == IF "place" \in ops THEN Placed(space, o, i) ELSE space
    IN  IF "dispose" \in ops /\ ~LeavesFirst(o, i) THEN Disposed(placed, i) ELSE placed
Saved(i, ops) == IF regime.keep /\ "dispose" \in ops THEN {disk[Existing(i).path]} ELSE {}

\* a verified CBR becomes the .cbz beside it; one that is already there is adopted
Converts(o) == regime.convert /\ Attr[o.c].rar /\ Attr[o.c].fmt = "cbr"
FinalPath(o, i) == IF Converts(o) THEN <<Dest(o, i)[1], "cbz">> ELSE Dest(o, i)
Conversion(d, o, i) ==
    IF ~Converts(o) THEN d
    ELSE Without(IF FinalPath(o, i) \in DOMAIN d THEN d ELSE With(d, FinalPath(o, i), o.c),
                 Dest(o, i))

\* the superseded row goes when its file was replaced or its path is the one just placed
RowsLeft(o, i) ==
    LET e == Existing(i) IN
    IF HasFile(i) /\ (Present(e) \/ e.path = Dest(o, i)) THEN Without(rows, Min(RowsOf(i))) ELSE rows
PathTaken(o, i) == \E n \in DOMAIN RowsLeft(o, i) : rows[n].path = Dest(o, i)
NewRow(o, i) ==
    [issue |-> i, path |-> FinalPath(o, i), size |-> Attr[o.c].size, fix |-> Attr[o.c].fix]

\* an entry of one download is written once however often its outcome recurs
Noted(o, entry) ==
    IF o.id = None THEN history
    ELSE With(history, o.id, entry)

Refuse(o, r) ==
    /\ ~Approved(o, r)
    /\ history' = Noted(o, <<IF ArchiveValid(o) THEN "blocked" ELSE "failed", r.issue>>)
    /\ UNCHANGED <<disk, rows, imported, kept, known, beaten>>

\* nothing is placed, replaced or moved in a read-only reference library
ReadOnly(o, i) == SeriesOf[i] \in regime.readonly /\ Operations(o, i) # {}
RefuseReadOnly(o, r) ==
    /\ Approved(o, r) /\ ReadOnly(o, r.issue)
    /\ history' = Noted(o, <<"blocked", None>>)
    /\ UNCHANGED <<disk, rows, imported, kept, known, beaten>>

Import(o, r) ==
    LET i == r.issue IN
    LET all == Operations(o, i) IN
    LET e == Existing(i) IN
    LET left == RowsLeft(o, i) IN
    /\ Approved(o, r) /\ ~ReadOnly(o, i) /\ ~PathTaken(o, i)
    /\ disk' = Conversion(After(o, i, all), o, i)
    /\ kept' = kept \cup Saved(i, all)
    /\ rows' = With(left, NewId(left), NewRow(o, i))
    /\ history' = Noted(o, <<IF Present(e) THEN "upgrade_replaced" ELSE "imported", i>>)
    /\ imported' = IF o.id = None THEN imported ELSE imported \cup {<<o.id, i>>}
    /\ known' = known \cup {o.c}
    /\ beaten' = IF Present(e) THEN beaten \cup {<<i, disk[e.path]>>} ELSE beaten

\* the savepoint is rolled back, the files stay as they are; a failed commit leaves no entry
ImportFails(o, r, fault) ==
    LET i == r.issue IN
    /\ Approved(o, r) /\ ~ReadOnly(o, i)
    /\ fault = "rows" \/ ~PathTaken(o, i)
    /\ CanFail(o, i, fault)
    /\ disk' = After(o, i, Done(o, i, fault))
    /\ kept' = kept \cup Saved(i, Done(o, i, fault))
    /\ history' = IF fault = "commit" THEN history ELSE Noted(o, <<"blocked", None>>)
    /\ UNCHANGED <<rows, imported, known, beaten>>

\* a library import takes the files of its group that no row of the series names
Offered(o) ==
    o.kind = "library" =>
        /\ Own(o.c) \in DOMAIN disk
        /\ \A n \in DOMAIN rows : rows[n].path # Own(o.c)
Troubles(o, i) == (IF budget.trouble > 0 THEN regime.faults ELSE {})
                      \cup (IF PathTaken(o, i) THEN {"rows"} ELSE {})
Spent(n) == budget' = [budget EXCEPT !.offers = @ - 1, !.trouble = @ - n]
Handle(o) ==
    /\ budget.offers > 0 /\ Offered(o)
    /\ LET r == Reconciled(o) IN
       \/ Refuse(o, r) /\ Spent(0)
       \/ RefuseReadOnly(o, r) /\ Spent(0)
       \/ Import(o, r) /\ Spent(0)
       \/ \E f \in Troubles(o, r.issue) :
             /\ ImportFails(o, r, f)
             /\ Spent(IF PathTaken(o, r.issue) THEN 0 ELSE 1)
    /\ UNCHANGED <<removed, regime>>

-----------------------------------------------------------------------------
(* The operator at the library's directories, and the rescan that notices. *)

\* a file appears under the series' directory by its own name
Drop(o) ==
    /\ o.kind = "library" /\ Own(o.c) \notin DOMAIN disk /\ o.c \notin known
    /\ disk' = With(disk, Own(o.c), o.c)
    /\ UNCHANGED <<rows, history, imported, kept, removed, known, beaten, regime, budget>>

\* a library file is taken away by hand
Vanish(p) ==
    /\ regime.vanish /\ budget.trouble > 0
    /\ budget' = [budget EXCEPT !.trouble = @ - 1]
    /\ removed' = removed \cup {disk[p]}
    /\ disk' = Without(disk, p)
    /\ UNCHANGED <<rows, history, imported, kept, known, beaten, regime>>

\* a rescan takes out the rows whose file is gone; the issue is wanted again
Rescan ==
    LET left == {n \in DOMAIN rows : rows[n].path \in DOMAIN disk} IN
    /\ left # DOMAIN rows
    /\ rows' = [n \in left |-> rows[n]]
    /\ beaten' = {b \in beaten : \E n \in left : rows[n].issue = b[1]}
    /\ UNCHANGED <<disk, history, imported, kept, removed, known, regime, budget>>

Next ==
    \/ \E o \in Offers : Handle(o) \/ Drop(o)
    \/ \E p \in DOMAIN disk : Vanish(p)
    \/ Rescan
Spec == Init /\ [][Next]_vars

-----------------------------------------------------------------------------
(* What the import promises.                                               *)

\* With a recycle bin, no file the library ever had is destroyed by an import: it is in the
\* library, in the bin or the dump, or the operator took it (execute, FRG-PP-010, 013, 014)
LoserKept == regime.keep => known \subseteq Range(disk) \cup kept \cup removed

\* The file an issue has is never one that another file superseded for the same issue while
\* it had one: offering the same files again and again settles (decisions.py, FRG-PP-014)
NoThrash == \A n \in DOMAIN rows :
    rows[n].path \in DOMAIN disk => <<rows[n].issue, disk[rows[n].path]>> \notin beaten

\* What would be imported is filed where its best evidence says: the operator's issue, else
\* within the scope or the purchase's series, never against an embedded ComicVine id that
\* nothing trusted outranks, and a volume number never replaces a file (reconcile)
FiledRight(o, r) ==
    LET i == r.issue IN
    LET ours == Tagged(o) # {} \/ o.grab # None IN
    /\ Override(o) # {} => i = o.over.issue
    /\ Scope(o) # None => SeriesOf[i] = Scope(o)
    /\ Override(o) = {} /\ ~ours /\ o.store.series # None /\ Pinned(o) = {} =>
           SeriesOf[i] = o.store.series
    /\ Override(o) = {} /\ ~ours /\ o.cv # None => i = o.cv
    /\ r.via = "ordinal" => Existing(i) = NoRow /\ (o.trade => SeriesOf[i] \in Collected)
NeverMisfiled == \A o \in Offers :
    LET r == Reconciled(o) IN Approved(o, r) => FiledRight(o, r)
=============================================================================
