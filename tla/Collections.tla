---------------------------- MODULE Collections -----------------------------
(***************************************************************************)
(* What a collected edition collects (library/containment.py): ranges of   *)
(* issues declared for one book of a trade series, kept as copied ordering *)
(* keys, and the two views read from them while refreshes and imports go   *)
(* on changing the issues: the books an issue is collected in, and the     *)
(* rollup of a series page.                                                *)
(***************************************************************************)
EXTENDS Integers, FiniteSets, SequencesExt

CONSTANTS
  Series, Issues, Keys,
  TradeSeries,        \* the series that start out as collected editions
  HomeOf,             \* [Issues -> Series]
  MaxDeclared, MaxEdits          \* bounds

CollectionsAssumption == IsFiniteSet(Issues) /\ TradeSeries \subseteq Series

VARIABLES
  present,            \* issues with a row
  key,                \* [Issues -> Keys]: where each sorts in its series
  owned,              \* issues with a file
  series,             \* series with a row
  booktype,           \* series that are collected editions
  ranges,             \* declared rows: [trade, target, first, last, id]
  bound

vars == <<present, key, owned, series, booktype, ranges, bound>>
library == <<present, key, owned, series, booktype>>

IssuesOf(s) == {i \in present : HomeOf[i] = s}
Spend(b) == bound' = [bound EXCEPT ![b] = @ + 1]

TypeOK ==
  /\ present \subseteq Issues /\ owned \subseteq present
  /\ booktype \subseteq series /\ series \subseteq Series
  /\ \A r \in ranges : r.trade \in present /\ r.target \in series

Init ==
  /\ present = Issues /\ series = Series /\ owned = {}
  /\ key \in [Issues -> Keys]
  /\ booktype = TradeSeries
  /\ ranges = {}
  /\ bound = [declared |-> 0, edits |-> 0]

(***************************************************************************)
(* Declaring.                                                              *)
(***************************************************************************)
\* A range as the operator gives it: two issues of a target series.
Inputs == [target : Series, start : Issues, end : Issues]

\* Every check runs before anything is written.
Valid(book, in) ==
  /\ in.target \in series
  /\ in.target # HomeOf[book]
  /\ in.start \in IssuesOf(in.target)
  /\ in.end \in IssuesOf(in.target)
  /\ key[in.start] <= key[in.end]

Resolved(book, ins) ==
  {[trade |-> book, target |-> ins[n].target, first |-> key[ins[n].start],
    last |-> key[ins[n].end], id |-> n] : n \in DOMAIN ins}

Declare(book, ins) ==
  /\ bound.declared < MaxDeclared /\ Spend("declared")
  /\ book \in present /\ HomeOf[book] \in booktype
  /\ \A n \in DOMAIN ins : Valid(book, ins[n])
  /\ ranges' = {r \in ranges : r.trade # book} \cup Resolved(book, ins)
  /\ UNCHANGED library

(***************************************************************************)
(* The library goes on changing.                                           *)
(***************************************************************************)
Edit == bound.edits < MaxEdits /\ Spend("edits")

FileComes(i) ==
  /\ i \in present \ owned /\ owned' = owned \cup {i}
  /\ UNCHANGED <<present, key, series, booktype, ranges, bound>>

FileGoes(i) ==
  /\ Edit /\ i \in owned /\ owned' = owned \ {i}
  /\ UNCHANGED <<present, key, series, booktype, ranges>>

\* A refresh follows ComicVine: issues without a file leave, and take their own ranges
\* along, or are renumbered.
RefreshDrops(i) ==
  /\ Edit /\ i \in present \ owned
  /\ present' = present \ {i}
  /\ ranges' = {r \in ranges : r.trade # i}
  /\ UNCHANGED <<key, owned, series, booktype>>

RefreshRenumbers(i, k) ==
  /\ Edit /\ i \in present /\ key[i] # k
  /\ key' = [key EXCEPT ![i] = k]
  /\ UNCHANGED <<present, owned, series, booktype, ranges>>

\* The operator calls a series a collected edition, or lets its title decide again at the
\* next refresh: what its books declared stays.
Retype(s) ==
  /\ Edit /\ s \in series
  /\ booktype' = IF s \in booktype THEN booktype \ {s} ELSE booktype \cup {s}
  /\ UNCHANGED <<present, key, owned, series, ranges>>

DeleteSeries(s) ==
  /\ Edit /\ s \in series
  /\ series' = series \ {s} /\ booktype' = booktype \ {s}
  /\ present' = {i \in present : HomeOf[i] # s} /\ owned' = owned \cap present'
  /\ ranges' = {r \in ranges : r.target # s /\ HomeOf[r.trade] # s}
  /\ UNCHANGED key

Next ==
  \/ \E book \in Issues, in \in Inputs :
       Declare(book, <<in>>) \/ \E more \in Inputs : Declare(book, <<in, more>>)
  \/ \E i \in Issues : FileComes(i) \/ FileGoes(i) \/ RefreshDrops(i)
  \/ \E i \in Issues, k \in Keys : RefreshRenumbers(i, k)
  \/ \E s \in Series : Retype(s) \/ DeleteSeries(s)

Spec == Init /\ [][Next]_vars

(***************************************************************************)
(* The two views.                                                          *)
(***************************************************************************)
Between(i, r) ==
  HomeOf[i] = r.target /\ r.first <= key[i] /\ key[i] <= r.last

\* The chips of an issue: a book whose ranges overlap is named once.
CollectedIn(s) ==
  [i \in IssuesOf(s) |->
     {r.trade : r \in {q \in ranges : q.target = s /\ Between(i, q)}}]

\* The rows a series page reads: those that collect the series, and, on the
\* page of a trade, those its own books declared.
Records(s) ==
  {r \in ranges : r.target = s \/ (s \in booktype /\ HomeOf[r.trade] = s)}

\* The counts join every row with the issues it spans; an issue two ranges of
\* a book share counts once.
Spanned(rows) == {p \in rows \X present : Between(p[2], p[1])}
CountAll(rows) == Cardinality(Spanned(rows))
CountDistinct(rows) == Cardinality({p[2] : p \in Spanned(rows)})
Total(rows) == CountDistinct(rows)
OwnedOf(rows) == Cardinality({p[2] : p \in Spanned(rows)} \cap owned)

Coverage(total, have) ==
  IF have = 0 THEN "none" ELSE IF have >= total THEN "collected" ELSE "partial"

Rollup(s) ==
  [b \in {r.trade : r \in Records(s)} |->
     LET rows == {r \in Records(s) : r.trade = b}
     IN [total |-> Total(rows), owned |-> OwnedOf(rows),
         coverage |-> Coverage(Total(rows), OwnedOf(rows))]]

(***************************************************************************)
(* Properties.                                                             *)
(***************************************************************************)
\* The two views tell one story, whatever refreshes did to the issues since
\* the ranges were declared: on the page of a series that is no trade, a book
\* counts exactly the issues whose chips name it, and it is called collected
\* exactly when it spans an issue and every one of them has a file.
ViewsAgree ==
  \A s \in series \ booktype :
    LET chips == CollectedIn(s)
        rollup == Rollup(s)
    IN \A b \in DOMAIN rollup :
         LET named == {i \in DOMAIN chips : b \in chips[i]}
         IN /\ rollup[b].total = Cardinality(named)
            /\ (rollup[b].coverage = "collected")
                 = (named # {} /\ named \subseteq owned)
            /\ (rollup[b].coverage = "none") = (named \cap owned = {})
=============================================================================
