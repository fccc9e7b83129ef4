----------------------------- MODULE MCProviders -----------------------------
(***************************************************************************)
(* Small instances of what talks to the services outside.                  *)
(***************************************************************************)
EXTENDS Providers, TLC

(***************************************************************************)
(* Three callers of ComicVine, and what it lists                           *)
(***************************************************************************)
UsualCallers == {"refresh", "search", "browse"}
CallerLane == [c \in UsualCallers |-> IF c = "search" THEN "interactive" ELSE "batch"]
CallerMethod == [c \in UsualCallers |->
  CASE c = "refresh" -> "pages" [] c = "search" -> "suggest"
    [] OTHER -> "chunks"]
CallerBucket == [c \in UsualCallers |-> "volumes"]
Listing == <<"a", "b", "c">>
Delays == <<2, 3>>

(***************************************************************************)
(* Two volumes of one name and a third series; three weeks                 *)
(***************************************************************************)
VolumeKey == [a |-> "saga", b |-> "saga", c |-> "bone"]
Entry(k, n, ships, id) == [key |-> k, n |-> n, ships |-> ships, id |-> id]
Feed == << {Entry("saga", 1, 1, Nobody)},
           {Entry("bone", 1, 2, <<"a", 1>>)},
           {Entry("saga", 2, 3, <<"a", 2>>)} >>
Weekly == [feed |-> Feed, watched |-> {"a", "c"}, acts |-> 0, asks |-> {}, crash |-> 0,
           news |-> 0, fails |-> 0,
           listed |-> [i \in {<<"a", 1>>, <<"a", 2>>, <<"c", 1>>} |->
                         IF i = <<"a", 1>> THEN 1 ELSE IF i = <<"c", 1>> THEN 2 ELSE 3]]
UsualSettings == {[Weekly EXCEPT !.acts = 2, !.asks = {"series"}],
                 [Weekly EXCEPT !.acts = 2, !.asks = {"issue"}],
                 [Weekly EXCEPT !.crash = 1, !.news = 1, !.fails = 1],
                 [Weekly EXCEPT !.watched = {"a", "b"}, !.acts = 1, !.fails = 1,
                                !.asks = {"series"}]}

(***************************************************************************)
(* Three purchases; the first two may be copies of one file, the third is  *)
(* of the group of the second                                              *)
(***************************************************************************)
PurchaseBest == <<"s1", "s2", "s1">>
PurchaseGroup == <<"g1", "g2", "g2">>
Sold(m1, m2) == <<[md5 |-> m1, cls |-> "comic"], [md5 |-> m2, cls |-> "comic"]>>
Selling(acts, shop, auto, trouble, again, budget, sold) ==
  [acts |-> acts, shop |-> shop, auto |-> auto, trouble |-> trouble, again |-> again,
   budget |-> budget, tracked |-> {"s1"}, offer |-> sold]
UsualRegimes == {Selling(2, 0, TRUE, FALSE, FALSE, 2, Sold("p", "q")),
                 Selling(0, 2, FALSE, FALSE, FALSE, 2, Sold("p", "q")),
                 Selling(1, 1, FALSE, FALSE, TRUE, 2, Sold("p", "p")),
                 Selling(1, 0, FALSE, TRUE, FALSE, 9, Sold("p", "q"))}

(***************************************************************************)
(* One indexer and overlapping searches, two indexers and two fans, a      *)
(* fresh deployment that configures its first indexers, and one that       *)
(* searches while it does.                                                 *)
(***************************************************************************)
Searching(known, searches, faults, time, churn) ==
  [known |-> known, searches |-> searches, faults |-> faults, time |-> time,
   churn |-> churn]
UsualSearches ==
  {Searching({1}, 2, 2, 1, 0), Searching({1, 2}, 1, 1, 0, 0),
   Searching({}, 0, 0, 0, 5), Searching({}, 1, 0, 0, 2)}
==============================================================================
