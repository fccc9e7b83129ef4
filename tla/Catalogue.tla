------------------------------ MODULE Catalogue ------------------------------
(***************************************************************************)
(* The library of series and issues, and what keeps it in step with        *)
(* ComicVine: adding a series, the refresh of its metadata, the scan of    *)
(* its folder and the search they chain, the operator's edits and the two  *)
(* one-time fixes of the credited people (library/flows, library/repo,     *)
(* creators).                                                              *)
(*                                                                         *)
(* A refresh reads a snapshot, talks to ComicVine without holding the      *)
(* write lock, and writes all it found in one transaction; whatever it     *)
(* read may have changed by then.  Commands wait in a queue that holds     *)
(* each of them once, queued or running; several run at a time.  A crash   *)
(* ends the running commands for good and keeps the queued ones.           *)
(***************************************************************************)
EXTENDS Integers, FiniteSets

CONSTANTS
  Ids,       \* row ids of series, 1..n: SQLite gives the highest one out again
  Issues,    \* ComicVine issue ids, 1..n, in reading order
  Key,       \* volume -> its franchise key, or Nobody
  By,        \* issue -> the people credited
  Batch,     \* issues whose credits one refresh fetches
  Nobody,
  Workers,
  Regimes    \* circumstances to explore

Volumes == DOMAIN Key
People == UNION {By[i] : i \in Issues}

VARIABLES
  cv,        \* ComicVine: the volume of every issue, the date of every volume
  series,    \* rows of series
  issue,     \* rows of issues: cv_issue_id is unique over the whole library
  group,     \* rows of series_groups, by their key
  creator,   \* rows of creators
  marker,    \* the one-time fixes that are done
  queue,     \* queued commands
  job,       \* worker -> the command it runs
  phase,     \* of the process: boot1, boot2, up
  disk,      \* issues with an archive in the folder of their series
  regime, left
vars == <<cv, series, issue, group, creator, marker, queue, job, phase, disk, regime, left>>
rest == <<regime, left>>

Cmd(name, s) == [name |-> name, s |-> s, sweep |-> FALSE]
NoCmd == Cmd("none", 0)
NoJob == [at |-> "idle", cmd |-> NoCmd, vol |-> Nobody, short |-> FALSE, stamp |-> 0, date |-> 0,
          page |-> {}, whole |-> TRUE, known |-> {}, fetched |-> {}, sweep |-> FALSE, todo |-> {}]
NoOptions == [strategy |-> "none", search |-> FALSE, pending |-> FALSE]

Strategies == {"all", "none", "first", "missing", "existing"}
SeriesRow == [vol : Volumes, ro : BOOLEAN, monitored : BOOLEAN, auto : BOOLEAN, date : Nat,
              fresh : BOOLEAN, group : {Key[v] : v \in Volumes} \cup {Nobody}, locked : BOOLEAN,
              options : [strategy : Strategies, search : BOOLEAN, pending : BOOLEAN]]
IssueRow == [s : Ids, mon : BOOLEAN, file : BOOLEAN, credited : BOOLEAN]
Person == [followed : BOOLEAN, touched : BOOLEAN]

\* A library as it is found: nothing of a browse-only series is monitored, no add is left
\* half done, and a date that is ComicVine's was earned.
CatalogueAssumption ==
  /\ IsFiniteSet(Ids) /\ Ids = 1..Cardinality(Ids)
  /\ \A r \in Regimes :
       /\ r.of \in [Issues -> Volumes \cup {Nobody}]
       /\ DOMAIN r.rows \subseteq Ids /\ r.rows \in [DOMAIN r.rows -> SeriesRow]
       /\ DOMAIN r.issues \subseteq Issues /\ r.issues \in [DOMAIN r.issues -> IssueRow]
       /\ DOMAIN r.seeded \subseteq People /\ r.seeded \in [DOMAIN r.seeded -> Person]
       /\ \A i \in DOMAIN r.issues :
            r.issues[i].s \in DOMAIN r.rows /\ (r.rows[r.issues[i].s].ro => ~r.issues[i].mon)
       /\ \A s \in DOMAIN r.rows : LET row == r.rows[s] IN
            /\ row.ro => ~row.monitored /\ ~row.auto
            /\ row.options = NoOptions /\ row.date \in {0, 1}
            /\ row.date = 1 => \A i \in Issues : r.of[i] = row.vol =>
                                 i \in DOMAIN r.issues /\ r.issues[i].s = s
       /\ r.adds \subseteq [strategy : Strategies, auto : BOOLEAN, search : BOOLEAN]
       /\ r.reuse \in BOOLEAN

Init ==
  /\ regime \in Regimes
  /\ cv = [of |-> regime.of, date |-> [v \in Volumes |-> 1]]
  /\ series = regime.rows /\ issue = regime.issues
  /\ group = {regime.rows[s].group : s \in DOMAIN regime.rows} \ {Nobody}
  /\ creator = regime.seeded
  /\ marker = {} /\ queue = {} /\ job = [w \in Workers |-> NoJob]
  /\ phase = "boot1"
  /\ disk = regime.disk
  /\ left = [acts |-> regime.acts, news |-> regime.news, crash |-> regime.crash]

Rows == DOMAIN series
Owned(i) == i \in DOMAIN issue /\ issue[i].file
Of(s) == {i \in DOMAIN issue : issue[i].s = s}
ListedIn(v) == {i \in Issues : cv.of[i] = v}
First(S) == CHOOSE x \in S : \A y \in S : x <= y
Newest(S) == {i \in S : Cardinality({j \in S : j > i}) < Batch}
Spend(what) == left' = [left EXCEPT ![what] = @ - 1]
Can(what) == phase = "up" /\ left[what] > 0
Asked(what) == Can("acts") /\ what \in regime.asks
Ask(what) == Asked(what) /\ Spend("acts")

\* a command that is queued or running is not queued again
Running(w, name) == job[w].cmd.name = name
Live == queue \cup {job[w].cmd : w \in Workers}
Enqueue(cs) == queue' = queue \cup (cs \ Live)
Ends(w) == job' = [job EXCEPT ![w] = NoJob]
At(w, at) == job' = [job EXCEPT ![w].at = at]

(***************************************************************************)
(* Franchise groups: prune_group_if_empty, apply_autogrouping              *)
(***************************************************************************)
Members(rows, g) == {s \in DOMAIN rows : rows[s].group = g}
Pruned(rows, gs, g) == IF Members(rows, g) = {} THEN gs \ {g} ELSE gs
Grouped(row) == IF row.locked THEN row ELSE [row EXCEPT !.group = Key[row.vol]]
GroupsWith(rows, s, before) ==
  Pruned(rows, group \cup (IF rows[s].group = Nobody THEN {} ELSE {rows[s].group}), before)

(***************************************************************************)
(* A series is added; a read-only root makes it browse-only                *)
(***************************************************************************)
NewId == 1 + Cardinality({n \in Ids : \E s \in Rows : s >= n})
NewRow(v, ro, opt) ==
  Grouped([vol |-> v, ro |-> ro, monitored |-> ~ro, auto |-> ~ro /\ opt.auto, date |-> 0, fresh |-> FALSE,
           group |-> Nobody, locked |-> FALSE,
           options |-> [strategy |-> IF ro THEN "none" ELSE opt.strategy,
                        search |-> ~ro /\ opt.search, pending |-> TRUE]])
Addable(v) == /\ NewId \in Ids /\ \A s \in Rows : series[s].vol # v
              /\ regime.reuse \/ \A w \in Workers : job[w].cmd.s # NewId
Inserted(v, ro, opt) ==
  /\ series' = [s \in Rows \cup {NewId} |-> IF s = NewId THEN NewRow(v, ro, opt) ELSE series[s]]
  /\ group' = group \cup ({Key[v]} \ {Nobody})

\* The request of the operator ends with the refresh of the new series.
AddSeries(v, ro, opt) ==
  /\ Asked("add") /\ Addable(v) /\ Inserted(v, ro, opt) /\ Spend("acts")
  /\ Enqueue({Cmd("refresh", NewId)})
  /\ UNCHANGED <<cv, issue, creator, marker, job, phase, disk, regime>>

\* A library import fills a series that has no issues yet, added by it or by somebody
\* else, and keeps its files from racing a search.
ImportRefresh(w, s) ==
  /\ Asked("import") /\ job[w] = NoJob /\ s \in Rows /\ Of(s) = {} /\ Spend("acts")
  /\ job' = [job EXCEPT ![w] = [NoJob EXCEPT !.at = "read", !.cmd = Cmd("import", s)]]
  /\ UNCHANGED <<cv, series, issue, group, creator, marker, queue, phase, disk, regime>>

(***************************************************************************)
(* refresh_series                                                          *)
(***************************************************************************)
Start(w, c) == job' = [job EXCEPT ![w] = [NoJob EXCEPT !.at = "read", !.cmd = c]]
Take(w, c) ==
  /\ phase = "up" /\ job[w] = NoJob /\ c \in queue /\ c.name # "search"
  /\ Start(w, c) /\ queue' = queue \ {c}
  /\ UNCHANGED <<cv, series, issue, group, creator, marker, phase, disk, rest>>

Refreshing(w, at) == job[w].at = at /\ (Running(w, "refresh") \/ Running(w, "import"))
Target(w) == job[w].cmd.s

\* The snapshot, and the volume as ComicVine describes it: an unchanged volume is not
\* walked again before its last walk is too old.
ReadVolume(w) ==
  /\ Refreshing(w, "read")
  /\ IF Target(w) \notin Rows THEN Ends(w)
     ELSE LET row == series[Target(w)]
              now == cv.date[row.vol]
              short == row.date # 0 /\ row.date = now /\ row.fresh IN
          job' = [job EXCEPT ![w].at = "walk", ![w].vol = row.vol, ![w].date = now, ![w].short = short,
                             ![w].known = {i \in Of(Target(w)) : issue[i].credited}]
  /\ UNCHANGED <<cv, series, issue, group, creator, marker, queue, phase, disk, rest>>

\* The pages of the walk, all or some, and the credits of the newest issues without.
Walk(w, page, fetched) ==
  /\ Refreshing(w, "walk")
  /\ LET all == ListedIn(job[w].vol)
         lacking == IF job[w].short THEN {i \in Of(Target(w)) : ~issue[i].credited}
                    ELSE page \ job[w].known IN
     /\ page \subseteq all /\ (page # all => regime.partial) /\ (job[w].short => page = all)
     /\ fetched \subseteq Newest(lacking) /\ (fetched # Newest(lacking) => regime.partial /\ fetched = {})
     /\ job' = [job EXCEPT ![w].at = "commit", ![w].page = page, ![w].fetched = fetched,
                           ![w].whole = page = all]
  /\ UNCHANGED <<cv, series, issue, group, creator, marker, queue, phase, disk, rest>>

\* ComicVine does not answer: the command fails.
WalkFails(w) ==
  /\ regime.partial /\ (Refreshing(w, "read") \/ Refreshing(w, "walk")) /\ Ends(w)
  /\ UNCHANGED <<cv, series, issue, group, creator, marker, queue, phase, disk, rest>>

\* _reconcile: what is listed is inserted, what is not listed and has no file goes,
\* unless the walk was partial.
Unlisted(j) == {i \in Of(j.cmd.s) \ j.page : j.whole}
Vanished(j) == {i \in Unlisted(j) : ~issue[i].file}
Reconciled(j, gone) ==
  IF j.short THEN issue
  ELSE [i \in (DOMAIN issue \cup j.page) \ gone |->
          IF i \in DOMAIN issue THEN issue[i]
          ELSE [s |-> j.cmd.s, mon |-> series[j.cmd.s].auto, file |-> FALSE, credited |-> FALSE]]
\* the strategy of the add is applied once, over the issues there are
Wanted(strategy, rows, s, i) ==
  CASE strategy = "all" -> TRUE
    [] strategy = "none" -> FALSE
    [] strategy = "first" -> i = First({j \in DOMAIN rows : rows[j].s = s})
    [] strategy = "missing" -> ~rows[i].file
    [] strategy = "existing" -> rows[i].file
Applied(rows, s) ==
  IF ~series[s].options.pending THEN rows
  ELSE [i \in DOMAIN rows |-> IF rows[i].s # s THEN rows[i]
          ELSE [rows[i] EXCEPT !.mon = Wanted(series[s].options.strategy, rows, s, i)]]
Credited(rows, j) ==
  [i \in DOMAIN rows |-> IF i \in j.fetched /\ rows[i].s = j.cmd.s
                         THEN [rows[i] EXCEPT !.credited = TRUE] ELSE rows[i]]
\* reconcile_issue_credits, prune_orphan_creators
CreditsOf(rows) == UNION {By[i] : i \in {x \in DOMAIN rows : rows[x].credited}}
Kept(p) == creator[p].followed \/ creator[p].touched
Creators(rows) ==
  [p \in CreditsOf(rows) \cup {x \in DOMAIN creator : Kept(x)} |->
     IF p \in DOMAIN creator THEN creator[p] ELSE [followed |-> FALSE, touched |-> FALSE]]
HasWanted(rows, s) ==
  \E i \in DOMAIN rows : rows[i].s = s /\ rows[i].mon /\ ~rows[i].file
                         /\ series[s].monitored /\ ~series[s].ro
Stamped(row, j) ==
  IF j.short THEN row ELSE [row EXCEPT !.fresh = TRUE, !.date = IF j.whole THEN j.date ELSE 0]
Consumed(row) == [row EXCEPT !.options = NoOptions]

\* an issue that ComicVine moved here while its old series still holds it breaks the
\* unique index, and the transaction with it
Moved(j) == ~j.short /\ \E i \in j.page : i \in DOMAIN issue /\ issue[i].s # j.cmd.s
Write(w, rows, row) ==
  LET j == job[w]  s == j.cmd.s  after == Applied(rows, s)
      was == series[s].options
      all == [series EXCEPT ![s] = Grouped(row)] IN
  /\ issue' = after /\ series' = all
  /\ creator' = Creators(after)
  /\ group' = GroupsWith(all, s, series[s].group)
  /\ job' = [job EXCEPT ![w].at = "chain",
       ![w].sweep = was.pending /\ Running(w, "refresh") /\ (was.search \/ HasWanted(after, s))]
  /\ UNCHANGED <<cv, marker, queue, phase, disk, rest>>
Settled(w) == Consumed(Stamped(series[Target(w)], job[w]))
Fits(w) == Refreshing(w, "commit") /\ Target(w) \in Rows /\ ~Moved(job[w])

\* Faulty: an issue goes although it has a file
CommitDropping(w) ==
  Fits(w) /\ Write(w, Credited(Reconciled(job[w], Unlisted(job[w])), job[w]), Settled(w))

Commit(w) ==
  Fits(w) /\ Write(w, Credited(Reconciled(job[w], Vanished(job[w])), job[w]),
                   Settled(w))

\* the series is gone, or the index refuses the transaction
CommitVoid(w) ==
  /\ Refreshing(w, "commit") /\ ~Fits(w) /\ Ends(w)
  /\ UNCHANGED <<cv, series, issue, group, creator, marker, queue, phase, disk, rest>>

\* The search rides on the scan: what lies in the folder is looked at first.
Chain(w) ==
  /\ Refreshing(w, "chain")
  /\ Enqueue({[Cmd("scan", Target(w)) EXCEPT !.sweep = job[w].sweep]}) /\ Ends(w)
  /\ UNCHANGED <<cv, series, issue, group, creator, marker, phase, disk, rest>>

(***************************************************************************)
(* scan_and_chain: the folder is compared with a snapshot of the rows      *)
(***************************************************************************)
ScanRead(w) ==
  /\ Running(w, "scan") /\ job[w].at = "read"
  /\ IF Target(w) \notin Rows THEN At(w, "scanned")
     ELSE job' = [job EXCEPT ![w].at = "register",
                             ![w].todo = {i \in Of(Target(w)) : i \in disk /\ ~issue[i].file}]
  /\ UNCHANGED <<cv, series, issue, group, creator, marker, queue, phase, disk, rest>>

\* one transaction; an issue that is gone by now fails it and the command
ScanRegister(w) ==
  /\ Running(w, "scan") /\ job[w].at = "register"
  /\ IF job[w].todo \subseteq DOMAIN issue
     THEN /\ issue' = [i \in DOMAIN issue |-> IF i \in job[w].todo THEN [issue[i] EXCEPT !.file = TRUE]
                                              ELSE issue[i]]
          /\ At(w, "scanned")
     ELSE Ends(w) /\ UNCHANGED issue
  /\ UNCHANGED <<cv, series, group, creator, marker, queue, phase, disk, rest>>

ScanEnds(w) ==
  /\ Running(w, "scan") /\ job[w].at = "scanned" /\ Ends(w)
  /\ Enqueue(IF job[w].cmd.sweep THEN {Cmd("search", Target(w))} ELSE {})
  /\ UNCHANGED <<cv, series, issue, group, creator, marker, phase, disk, rest>>

\* the search itself is the pipeline's
Search(s) ==
  /\ phase = "up" /\ Cmd("search", s) \in queue /\ queue' = queue \ {Cmd("search", s)}
  /\ UNCHANGED <<cv, series, issue, group, creator, marker, job, phase, disk, rest>>

(***************************************************************************)
(* Start-up: the follows that an earlier version derived are withdrawn     *)
(* once, then the credits of a library that has none are asked for once    *)
(***************************************************************************)
Boot(p, q) == phase = p /\ phase' = q

Unseed ==
  /\ Boot("boot1", "boot2")
  /\ creator' = IF "unseed" \in marker THEN creator
                ELSE [p \in DOMAIN creator |->
                        [creator[p] EXCEPT !.followed = @ /\ creator[p].touched]]
  /\ marker' = marker \cup {"unseed"}
  /\ UNCHANGED <<cv, series, issue, group, queue, job, disk, rest>>

AskBackfill ==
  /\ Boot("boot2", "up")
  /\ IF "backfill" \in marker THEN UNCHANGED <<marker, queue>>
     ELSE IF Rows = {} THEN marker' = marker \cup {"backfill"} /\ UNCHANGED queue
     ELSE Enqueue({Cmd("backfill", 0)}) /\ UNCHANGED marker
  /\ UNCHANGED <<cv, series, issue, group, creator, job, disk, rest>>

\* The handler: a refresh for every series there is, then the marker.
Backfilling(w, at) == Running(w, "backfill") /\ job[w].at = at

BackfillRead(w) ==
  /\ Backfilling(w, "read")
  /\ job' = [job EXCEPT ![w].at = "fan", ![w].todo = Rows]
  /\ UNCHANGED <<cv, series, issue, group, creator, marker, queue, phase, disk, rest>>

BackfillNext(w) ==
  /\ Backfilling(w, "fan") /\ job[w].todo # {}
  /\ Enqueue({Cmd("refresh", First(job[w].todo))})
  /\ job' = [job EXCEPT ![w].todo = @ \ {First(@)}]
  /\ UNCHANGED <<cv, series, issue, group, creator, marker, phase, disk, rest>>

BackfillMark(w) ==
  /\ Backfilling(w, "fan") /\ job[w].todo = {}
  /\ marker' = marker \cup {"backfill"} /\ Ends(w)
  /\ UNCHANGED <<cv, series, issue, group, creator, queue, phase, disk, rest>>

\* Running commands are recorded as interrupted and not started again.
Crash ==
  /\ Can("crash") /\ Spend("crash")
  /\ job' = [w \in Workers |-> NoJob] /\ phase' = "boot1"
  /\ UNCHANGED <<cv, series, issue, group, creator, marker, queue, disk, regime>>

(***************************************************************************)
(* Requests of the operator                                                *)
(***************************************************************************)
RefreshNow(s) ==
  /\ Ask("refresh") /\ s \in Rows /\ Enqueue({Cmd("refresh", s)})
  /\ UNCHANGED <<cv, series, issue, group, creator, marker, job, phase, disk, regime>>

\* refuse_read_only_issues
SetMonitored(i, b) ==
  /\ Ask("flag") /\ i \in DOMAIN issue /\ ~series[issue[i].s].ro
  /\ issue' = [issue EXCEPT ![i].mon = b]
  /\ UNCHANGED <<cv, series, group, creator, marker, queue, job, phase, disk, regime>>

\* _refuse_read_only_edits judges the state that is asked for
EditMonitoring(s, mon, auto) ==
  /\ Ask("edit") /\ s \in Rows /\ (series[s].ro => ~mon /\ ~auto)
  /\ series' = [series EXCEPT ![s].monitored = mon, ![s].auto = auto]
  /\ UNCHANGED <<cv, issue, group, creator, marker, queue, job, phase, disk, regime>>

\* reassign (g a group), detach (g = Nobody)
EditGroup(s, g) ==
  /\ Ask("group") /\ s \in Rows /\ g \in group \cup {Nobody}
  /\ series' = [series EXCEPT ![s].group = g, ![s].locked = TRUE]
  /\ group' = IF series[s].group \in {Nobody, g} THEN group ELSE Pruned(series', group, series[s].group)
  /\ UNCHANGED <<cv, issue, creator, marker, queue, job, phase, disk, regime>>

Unlock(s) ==
  /\ Ask("group") /\ s \in Rows /\ series[s].locked
  /\ series' = [series EXCEPT ![s].locked = FALSE]
  /\ UNCHANGED <<cv, issue, group, creator, marker, queue, job, phase, disk, regime>>

Without(s) == [x \in Rows \ {s} |-> series[x]]
Rowless(s) == [i \in DOMAIN issue \ Of(s) |-> issue[i]]

\* delete_series: the issues, their credits and their files' rows go with it
DeleteSeries(s) ==
  /\ Ask("delete") /\ s \in Rows
  /\ series' = Without(s) /\ issue' = Rowless(s)
  /\ group' = Pruned(Without(s), group, series[s].group)
  /\ UNCHANGED <<cv, creator, marker, queue, job, phase, disk, regime>>

Follow(p, b) ==
  /\ Ask("follow") /\ p \in DOMAIN creator
  /\ creator' = [creator EXCEPT ![p] = [followed |-> b, touched |-> TRUE]]
  /\ UNCHANGED <<cv, series, issue, group, marker, queue, job, phase, disk, regime>>

(***************************************************************************)
(* The world: an import or a deletion of a file, a week that passes, and   *)
(* what ComicVine changes, with the date of the volumes it touches         *)
(***************************************************************************)
FileComes(i) ==
  /\ Asked("file") /\ i \in DOMAIN issue /\ ~issue[i].file /\ ~series[issue[i].s].ro /\ Spend("acts")
  /\ issue' = [issue EXCEPT ![i].file = TRUE] /\ disk' = disk \cup {i}
  /\ UNCHANGED <<cv, series, group, creator, marker, queue, job, phase, regime>>

FileGoes(i) ==
  /\ Ask("file") /\ Owned(i) /\ ~series[issue[i].s].ro
  /\ issue' = [issue EXCEPT ![i].file = FALSE] /\ disk' = disk \ {i}
  /\ UNCHANGED <<cv, series, group, creator, marker, queue, job, phase, regime>>

WeekPasses(s) ==
  /\ Can("news") /\ s \in Rows /\ series[s].fresh /\ Spend("news")
  /\ series' = [series EXCEPT ![s].fresh = FALSE]
  /\ UNCHANGED <<cv, issue, group, creator, marker, queue, job, phase, disk, regime>>

\* to a volume, or off ComicVine
News(i, v) ==
  /\ Can("news") /\ cv.of[i] # v /\ (regime.moves \/ Nobody \in {v, cv.of[i]}) /\ Spend("news")
  /\ cv' = [of |-> [cv.of EXCEPT ![i] = v],
            date |-> [x \in Volumes |-> cv.date[x] + IF x \in {v, cv.of[i]} THEN 1 ELSE 0]]
  /\ UNCHANGED <<series, issue, group, creator, marker, queue, job, phase, disk, regime>>

Refresh(w) == \/ ReadVolume(w) \/ WalkFails(w) \/ Commit(w) \/ CommitVoid(w) \/ Chain(w)
              \/ \E page, fetched \in SUBSET Issues : Walk(w, page, fetched)
Scan(w) == ScanRead(w) \/ ScanRegister(w) \/ ScanEnds(w)
Backfill(w) == BackfillRead(w) \/ BackfillNext(w) \/ BackfillMark(w)
Work(w) == Refresh(w) \/ Scan(w) \/ Backfill(w) \/ \E c \in queue : Take(w, c)
Operator ==
  \/ \E v \in Volumes, ro \in BOOLEAN, opt \in regime.adds : AddSeries(v, ro, opt)
  \/ \E w \in Workers, s \in Ids : ImportRefresh(w, s)
  \/ \E s \in Ids : RefreshNow(s) \/ Unlock(s) \/ DeleteSeries(s)
  \/ \E s \in Ids, mon, auto \in BOOLEAN : EditMonitoring(s, mon, auto)
  \/ \E s \in Ids, g \in group \cup {Nobody} : EditGroup(s, g)
  \/ \E i \in Issues, b \in BOOLEAN : SetMonitored(i, b)
  \/ \E p \in People, b \in BOOLEAN : Follow(p, b)
World == \/ \E i \in Issues : FileComes(i) \/ FileGoes(i) \/ \E v \in Volumes \cup {Nobody} : News(i, v)
         \/ \E s \in Ids : WeekPasses(s)
Starting == Unseed \/ AskBackfill
Next == \/ Starting \/ Operator \/ World \/ Crash
        \/ \E w \in Workers : Work(w)
        \/ \E s \in Ids : Search(s)
Spec == Init /\ [][Next]_vars

(***************************************************************************)
(* What the API lists: list_series_groups, list_creators                   *)
(***************************************************************************)
FranchiseOf(s) == IF series[s].group \in group THEN Members(series, series[s].group) ELSE {s}
Franchises == {Members(series, g) : g \in group} \cup {{s} : s \in {x \in Rows : series[x].group = Nobody}}

(***************************************************************************)
(* Properties                                                              *)
(***************************************************************************)
TypeOK ==
  /\ DOMAIN series \subseteq Ids /\ DOMAIN issue \subseteq Issues
  /\ \A i \in DOMAIN issue : issue[i].s \in Rows
  /\ DOMAIN creator \subseteq People /\ group \subseteq {Key[v] : v \in Volumes} \ {Nobody}
  /\ \A c \in queue : ~\E w \in Workers : job[w].cmd = c

\* Every series is listed in exactly one franchise, and no franchise is empty: the
\* groups of the refreshes, the operator's moves and the deletions leave no orphan.
ListedOnce ==
  /\ {} \notin Franchises
  /\ \A s \in Rows : \E f \in Franchises : s \in f /\ \A x \in Franchises \ {f} : s \notin x

\* A stored date that is ComicVine's own says that every issue it lists is here, so that
\* skipping the walk misses nothing (refresh.py _may_short_circuit).
DateIsEarned ==
  \A s \in Rows : series[s].date # 0 /\ series[s].date = cv.date[series[s].vol]
                    => ListedIn(series[s].vol) \subseteq Of(s)

\* Nothing of a browse-only library is ever wanted, nor becomes so by a refresh.
BrowseOnly ==
  \A s \in Rows : series[s].ro => /\ ~series[s].monitored /\ ~series[s].auto
                                  /\ \A i \in Of(s) : ~issue[i].mon

\* What the operator decided is undone by no refresh, scan, import or start-up: a flag of
\* an issue, which the options of an add set only once, a locked group, a follow or its end.
Stands ==
  /\ \A i \in DOMAIN issue \cap DOMAIN issue' : issue'[i].mon = issue[i].mon
  /\ \A s \in Rows \cap DOMAIN series' : series[s].locked /\ series[s].vol = series'[s].vol
                                           => series'[s].group = series[s].group
  /\ \A p \in DOMAIN creator : creator[p].touched =>
        p \in DOMAIN creator' /\ creator'[p] = creator[p]
ChoicesStand == [][Operator \/ Stands]_vars

\* An issue with a file leaves the library only with its series, although the refresh
\* decided what vanished after reading ComicVine, while imports went on.
OwnedStays == [][\A i \in DOMAIN issue : Owned(i) /\ i \notin DOMAIN issue' =>
                    issue[i].s \notin DOMAIN series']_vars
=============================================================================
