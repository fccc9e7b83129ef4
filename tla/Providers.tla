------------------------------ MODULE Providers ------------------------------
(***************************************************************************)
(* What talks to the services outside: the gate before ComicVine and its   *)
(* paged walks (MetadataGate), the weekly pull list (PullList), the pages  *)
(* of GetComics (GetComics), the review of a store's purchases             *)
(* (StoreReview), and the search across the indexers (IndexerSearch).      *)
(* They share no state here: the first state chooses the one that runs,    *)
(* of Focus.                                                               *)
(***************************************************************************)
EXTENDS Integers

CONSTANTS
  Focus,           \* the components explored
  Callers, Lane, Method, Bucket, SetInterval, IntervalFloor, SetBudget,   \* MetadataGate
  BudgetFloor, BudgetCeiling, SetShare, Window, Backoff, RetryAfters,
  Volume, Shifts, PageSize, MaxPages, ItemCap, MaxNow, MaxCalls,
  MaxFaults, MaxShifts,
  Key, Numbers, Weeks, Ahead, Back, Nobody, PullSettings,                 \* PullList
  Fetchers, FetchInterval, Jitter, Tiers, MaxResultPages, Answers,        \* GetComics
  Writable, MaxSearches, MaxCrashes,
  Purchases, StoreSeries, Best, Sure, Unanswered, Group, StoreRegimes,             \* StoreReview
  Indexers, Searches, Interactive, Requests, Blowups, MaxLevel,           \* IndexerSearch
  FastForward, SearchRegimes

VARIABLES
  focus,   \* the component that runs: the others rest in their first state
  cvNow, cvLast, cvCooldown, cvConsecutive, cvDegraded, cvAuthFailed, cvLedger, cvQueue,
  cvCall, cvResult, cvListing, cvBound,
  pullNow, pullFeed, pullStore, pullLib, pullBackoff, pullJob, pullSetting, pullLeft,
  gcAge, gcLock, gcCall, gcBacking, gcSince, gcBound,
  storeEnt, storeLibrary, storeSource, storeOffer, storeJob, storeFlow, storeRegime,
  storeLeft,
  indexRow, indexLadder, indexCaps, indexGate, indexTask, indexSearch, indexReq,
  indexMarker, indexSweeps, indexFaulted, indexBound

Comicvine == INSTANCE MetadataGate WITH
  now <- cvNow, last <- cvLast, cooldown <- cvCooldown, consecutive <- cvConsecutive,
  degraded <- cvDegraded, authFailed <- cvAuthFailed, ledger <- cvLedger, queue <- cvQueue,
  call <- cvCall, result <- cvResult, listing <- cvListing, bound <- cvBound
Pull == INSTANCE PullList WITH
  Settings <- PullSettings, now <- pullNow, feed <- pullFeed, store <- pullStore,
  lib <- pullLib, backoff <- pullBackoff, job <- pullJob, setting <- pullSetting,
  left <- pullLeft
Getcomics == INSTANCE GetComics WITH
  Callers <- Fetchers, Interval <- FetchInterval, MaxPages <- MaxResultPages,
  age <- gcAge, lock <- gcLock, call <- gcCall, backing <- gcBacking, since <- gcSince,
  bound <- gcBound
Review == INSTANCE StoreReview WITH
  Series <- StoreSeries, Broken <- Unanswered,
  Regimes <- StoreRegimes, ent <- storeEnt, library <- storeLibrary, source <- storeSource,
  offer <- storeOffer, job <- storeJob, flow <- storeFlow, regime <- storeRegime,
  left <- storeLeft
Indexing == INSTANCE IndexerSearch WITH
  Regimes <- SearchRegimes, row <- indexRow, ladder <- indexLadder, caps <- indexCaps,
  gate <- indexGate, task <- indexTask, search <- indexSearch, req <- indexReq,
  marker <- indexMarker, sweeps <- indexSweeps, faulted <- indexFaulted,
  bound <- indexBound

cvVars == <<cvNow, cvLast, cvCooldown, cvConsecutive, cvDegraded, cvAuthFailed, cvLedger,
             cvQueue, cvCall, cvResult, cvListing, cvBound>>
pullVars == <<pullNow, pullFeed, pullStore, pullLib, pullBackoff, pullJob, pullSetting, pullLeft>>
gcVars == <<gcAge, gcLock, gcCall, gcBacking, gcSince, gcBound>>
storeVars == <<storeEnt, storeLibrary, storeSource, storeOffer, storeJob, storeFlow, storeRegime,
                storeLeft>>
indexVars == <<indexRow, indexLadder, indexCaps, indexGate, indexTask, indexSearch, indexReq,
                indexMarker, indexSweeps, indexFaulted, indexBound>>
vars == <<focus, cvVars, pullVars, gcVars, storeVars, indexVars>>

ASSUME ProvidersAssumption ==
  /\ Comicvine!GateAssumption /\ Pull!PullAssumption /\ Getcomics!PolitenessAssumption
  /\ Review!ReviewAssumption /\ Indexing!SearchAssumption

\* A component that rests does so in one of its initial states.
Init ==
  /\ focus \in Focus
  /\ Comicvine!Init /\ Getcomics!Init
  /\ Pull!Init /\ (focus = "pull" \/ pullSetting = CHOOSE r \in PullSettings : TRUE)
  /\ Review!Init /\ (focus = "store" \/ storeRegime = CHOOSE r \in StoreRegimes : TRUE)
  /\ Indexing!Init /\ (focus = "indexers" \/ indexBound.churn = (CHOOSE r \in SearchRegimes : TRUE).churn)

AskComicvine ==
  /\ focus = "comicvine" /\ Comicvine!Next
  /\ UNCHANGED <<focus, pullVars, gcVars, storeVars, indexVars>>
FollowWeeks ==
  /\ focus = "pull" /\ Pull!Next
  /\ UNCHANGED <<focus, cvVars, gcVars, storeVars, indexVars>>
SearchGetcomics ==
  /\ focus = "getcomics" /\ Getcomics!Next
  /\ UNCHANGED <<focus, cvVars, pullVars, storeVars, indexVars>>
ReviewPurchases ==
  /\ focus = "store" /\ Review!Next
  /\ UNCHANGED <<focus, cvVars, pullVars, gcVars, indexVars>>
SearchIndexers ==
  /\ focus = "indexers" /\ Indexing!Next
  /\ UNCHANGED <<focus, cvVars, pullVars, gcVars, storeVars>>
Next == AskComicvine \/ FollowWeeks \/ SearchGetcomics \/ ReviewPurchases \/ SearchIndexers

Spec == Init /\ [][Next]_vars

(***************************************************************************)
(* Properties.                                                             *)
(***************************************************************************)
\* However calls overlap, ComicVine is asked within the spacing and the budgets, and while
\* its cool-down runs the health page says so (metadata/ratelimit.py).
GateSound ==
  focus = "comicvine" => Comicvine!TypeOK /\ Comicvine!WithinLimits /\ Comicvine!CoolingIsShown

\* A walk of a volume that calls itself complete returned every issue listed from its first
\* page to its last (metadata/comicvine.py): a refresh deletes what it does not name.
CompleteIsWhole == focus = "comicvine" => Comicvine!CompleteIsWhole

\* A link of the pull list leads to an issue that exists, of a series the entry names, and
\* a run that the feed fails leaves the entries as they were (pull/matching.py,
\* pull/commands.py).
PullListSound == [](focus = "pull" => Pull!TypeOK /\ Pull!LinksHold) /\ Pull!OutageKeepsWeeks

\* Two fetches of GetComics are never closer than the interval, whichever searches and
\* whichever lives of the process they belong to (ddl/politeness.py).
PagesSpaced == [](focus = "getcomics" => Getcomics!TypeOK) /\ Getcomics!PagesSpaced

\* What the operator decided about a purchase stands against every job that read it before
\* the decision, a pick among the proposals included (sources/service.py, sources/enrich.py).
DecisionsStand == Review!DecisionsStand /\ Review!PickStands

\* The pass that links duplicates parks no comic without another of its bytes and leaves no
\* open pair behind (sources/dedupe.py).
LinkSound == [](focus = "store" => Review!TypeOK) /\ Review!LinkSound

\* A search that its deadline cuts off costs an indexer nothing: neither a rung of the
\* back-off ladder nor the gate it was waiting in (indexers/service.py, ratelimit.py).
CutOffCostsNothing ==
  focus = "indexers" => Indexing!SlowIsNotFailing /\ Indexing!GateNotLeaked

\* The backlog search owed to the first enabled indexer is claimed once, however the first
\* requests interleave (api/indexers.py).
SweepOwedOnce == focus = "indexers" => Indexing!TypeOK /\ Indexing!SweepOwedOnce
=============================================================================
