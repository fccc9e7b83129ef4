------------------------------ MODULE MCLibrary ------------------------------
(***************************************************************************)
(* Small instances of what keeps the library.                              *)
(***************************************************************************)
EXTENDS Library, TLC

(***************************************************************************)
(* The files of a series: a crowd over untracked files; a registered pair  *)
(* whose names are swapped; a better copy of a file that is there.         *)
(***************************************************************************)
FileDenotes == "n1" :> 1 @@ "n2" :> 2 @@ "n3" :> 3
                 @@ "x1" :> 1 @@ "x2" :> 2 @@ "x3" :> 3 @@ "y1" :> 1
FileCanon == <<"n1", "n2", "n3">>
Upgrades == {<<"d", "a">>}
FileTemp == <<"t1", "t2", "t3", "t4", "t5", "t6", "t7", "t8", "t9">>
OnDisk(stem, ext) == <<"d1", stem, ext>>
Third == OnDisk("x3", "cbr") :> "c"
Rival == OnDisk("y1", "cbz") :> "d"
Plain == OnDisk("x1", "cbz") :> "a" @@ OnDisk("x2", "cbr") :> "b"
Swapped == OnDisk("n2", "cbz") :> "a" @@ OnDisk("n1", "cbz") :> "b"
SwappedRows == <<[path |-> OnDisk("n2", "cbz"), c |-> "a", issue |-> 1],
                 [path |-> OnDisk("n1", "cbz"), c |-> "b", issue |-> 2]>>
Files(crowd, faults, bins, scans, library, rowsAtStart, later) ==
  [crowd |-> crowd, faults |-> faults, bin |-> bins, scans |-> scans,
   dirs |-> IF later = Third /\ rowsAtStart = <<>> THEN {"d1", "d2"} ELSE {"d1"},
   disk |-> library, rows |-> rowsAtStart, arrivals |-> later]
UsualFiles == {Files(TRUE, FALSE, TRUE, TRUE, Plain, <<>>, Third),
               Files(FALSE, TRUE, TRUE, TRUE, Plain, <<>>, Third),
               Files(FALSE, TRUE, FALSE, TRUE, Plain, <<>>, Third),
               Files(FALSE, FALSE, TRUE, FALSE, Swapped, SwappedRows, Third),
               Files(FALSE, FALSE, FALSE, FALSE, Plain, <<>>, Rival)}
\* the swapped pair in a run with one failure
TroubledRename == {Files(FALSE, TRUE, TRUE, FALSE, Swapped, SwappedRows, Third)}

(***************************************************************************)
(* The catalogue: two volumes of one franchise and three issues, of which  *)
(* one may not be out yet.                                                 *)
(***************************************************************************)
VolumeKey == [a |-> "saga", b |-> "saga"]
IssueBy == <<{"p"}, {"p", "q"}, {"q"}>>
Opt(strategy, auto, search) == [strategy |-> strategy, auto |-> auto, search |-> search]
New == [of |-> <<"a", "b", Nobody>>, rows |-> <<>>, issues |-> <<>>, seeded |-> <<>>, disk |-> {},
        acts |-> 3, news |-> 0, crash |-> 0, asks |-> {"add"}, partial |-> FALSE, moves |-> FALSE,
        reuse |-> FALSE, adds |-> {Opt("all", TRUE, TRUE)}]
\* a library of an earlier version: no credits, one follow that version derived
Row(v) == [vol |-> v, ro |-> FALSE, monitored |-> TRUE, auto |-> TRUE, date |-> 1, fresh |-> FALSE,
           group |-> VolumeKey[v], locked |-> FALSE,
           options |-> [strategy |-> "none", search |-> FALSE, pending |-> FALSE]]
Old == [s |-> 1, mon |-> TRUE, file |-> TRUE, credited |-> FALSE]
Upgraded == [New EXCEPT !.rows = <<Row("a")>>, !.issues = <<Old, [Old EXCEPT !.file = FALSE]>>,
                        !.disk = {1}, !.of = <<"a", "a", "b">>,
                        !.seeded = [p |-> [followed |-> TRUE, touched |-> FALSE],
                                    q |-> [followed |-> TRUE, touched |-> TRUE]]]
UsualCatalogues == {
  [New EXCEPT !.acts = 4, !.asks = {"add", "delete", "group"}],
  [New EXCEPT !.acts = 2, !.news = 1, !.partial = TRUE, !.asks = {"add", "refresh"}],
  [New EXCEPT !.acts = 2, !.news = 1, !.moves = TRUE, !.asks = {"add", "import"}],
  [Upgraded EXCEPT !.acts = 2, !.crash = 1, !.asks = {"add", "refresh", "follow"}],
  [Upgraded EXCEPT !.news = 1, !.asks = {"refresh", "flag", "edit", "file"}],
  [New EXCEPT !.acts = 2, !.disk = {1, 2}, !.of = <<"a", "a", "b">>,
              !.asks = {"add", "edit", "refresh"},
              !.adds = {Opt(st, FALSE, FALSE) : st \in {"missing", "first", "existing", "none"}}]}
WorkerSymmetry == Permutations(Workers)

(***************************************************************************)
(* Collected editions: a trade and the series it collects from             *)
(***************************************************************************)
EditionHome == [i \in {"tpb", "one", "two"} |-> IF i = "tpb" THEN "trade" ELSE "single"]
\* two issues in order, or of one key (the second a variant)
UsualKeys == {[tpb |-> 1, one |-> 1, two |-> 2], [tpb |-> 1, one |-> 2, two |-> 2]}

(***************************************************************************)
(* The import pipeline: two series, three issues, six files                *)
(***************************************************************************)
OfSeries == "i1" :> "s1" @@ "i2" :> "s1" @@ "i3" :> "s2"
Similar == {<<"s1", "s2">>}
Formats == <<"pdf", "cbr", "cbz">>
Numbered == "i1" :> 1 @@ "i2" :> 2 @@ "i3" :> 1
Archive(fmt, rar, ok, size, fix) == [fmt |-> fmt, rar |-> rar, ok |-> ok, size |-> size, fix |-> fix]
Attributes ==
  "a" :> Archive("cbz", FALSE, TRUE, 1, 0) @@ "b" :> Archive("cbz", FALSE, TRUE, 2, 0)
    @@ "c" :> Archive("cbz", FALSE, TRUE, 1, 1) @@ "r" :> Archive("cbr", TRUE, TRUE, 2, 0)
    @@ "p" :> Archive("pdf", FALSE, TRUE, 2, 0) @@ "x" :> Archive("cbz", FALSE, FALSE, 2, 0)
None == "none"
NoOver == [series |-> None, issue |-> None]
NoStore == [series |-> None, via |-> None]
Offer(c) == [c |-> c, kind |-> "manual", id |-> None, title |-> None, num |-> 0, ord |-> 0,
             trade |-> FALSE, tag |-> None, cv |-> None, grab |-> None, store |-> NoStore,
             over |-> NoOver]
\* every file, offered with evidence that leads to an issue
Grabbed == {[Offer(c) EXCEPT !.kind = "download", !.id = d, !.grab = "i1"] :
                c \in DOMAIN Attributes, d \in {"d1", "d2"}}
InLibrary == {[Offer(c) EXCEPT !.kind = "library", !.title = "s1", !.num = n,
                               !.over = [NoOver EXCEPT !.series = "s1"]] :
                c \in {"a"}, n \in {0, 1}}
\* one file, offered with the combinations of evidence
Bought == {NoStore} \cup {[series |-> "s1", via |-> v] : v \in {"operator", "auto"}}
Purchases == {[Offer("b") EXCEPT !.kind = "download", !.id = "d1", !.title = v[1], !.num = v[2],
                                 !.ord = v[3], !.trade = v[4], !.cv = cv, !.store = st] :
                cv \in {None, "i3"}, st \in Bought,
                v \in {<<None, 0, 0, FALSE>>, <<"s2", 1, 0, FALSE>>, <<"s2", 0, 1, FALSE>>,
                       <<"s2", 1, 1, TRUE>>}}
Tagging == {[Offer("b") EXCEPT !.title = v[1], !.num = v[2], !.tag = tag, !.cv = cv, !.over = ov] :
                v \in {<<"s1", 2>>, <<"s2", 0>>}, tag \in {None, "i1"}, cv \in {None, "i3"},
                ov \in {NoOver, [series |-> "s2", issue |-> "i2"]}}
Confirmed == {[Offer("a") EXCEPT !.kind = "library", !.title = "s1", !.num = n, !.tag = tag,
                                 !.cv = cv, !.over = [NoOver EXCEPT !.series = s]] :
                n \in {0, 1}, tag \in {None, "i3"}, cv \in {None, "i1"}, s \in {"s1", "s2"}}
EveryOffer == Grabbed \cup InLibrary \cup Purchases \cup Tagging \cup Confirmed
Anonymous == {[o EXCEPT !.id = None] : o \in Grabbed}
Importing(rename, keep, readonly, faults) ==
  [rename |-> rename, larger |-> TRUE, keep |-> keep, convert |-> rename,
   readonly |-> readonly, faults |-> faults, vanish |-> FALSE]
UsualImports == {Importing(rename, TRUE, {}, {"first"}) : rename \in BOOLEAN}
                  \cup {[Importing(TRUE, FALSE, {"s2"}, {}) EXCEPT !.vanish = TRUE],
                        [Importing(FALSE, TRUE, {}, {"first"}) EXCEPT !.larger = FALSE]}
\* a fault after the superseded file has gone
LateFault == {[Importing(TRUE, TRUE, {}, {"second", "commit"}) EXCEPT !.convert = FALSE]}
==============================================================================
