------------------------------- MODULE Library -------------------------------
(***************************************************************************)
(* What keeps the library: the files of a series (LibraryFiles), the       *)
(* catalogue and its refreshes (Catalogue), collected editions             *)
(* (Collections), and the import pipeline (ImportPipeline).  They share no *)
(* state here: the first state chooses the one that runs, of Focus.        *)
(***************************************************************************)
EXTENDS Integers

CONSTANTS
  Focus,           \* the components explored
  Contents, Denotes, Canon, TempStem, Better, Unconvertible, Mode,        \* LibraryFiles
  FileRegimes, MaxActs, MaxFaults, MaxCrashes,
  Ids, Listed, Key, By, Batch, Nobody, Workers, CatalogueRegimes,         \* Catalogue
  CollectedSeries, Collectable, Keys, TradeSeries, HomeOf, MaxDeclared,            \* Collections
  MaxEdits, EditionKeys,
  SeriesOf, Number, Collected, LooseTitles, Attr, ImportOffers,           \* ImportPipeline
  Ladder, ImportRegimes, MaxOffers, MaxTrouble

VARIABLES
  focus,   \* the component that runs: the others rest in their first state
  shelfDisk, shelfRows, shelfHome, shelfBin, shelfFiled, shelfGone, shelfSeen, shelfActor,
  shelfExcused, shelfRegime, shelfLimits,
  catCv, catSeries, catIssue, catGroup, catCreator, catMarker, catQueue, catJob, catPhase,
  catDisk, catRegime, catLeft,
  editionPresent, editionKey, editionOwned, editionSeries, editionBooktype, editionRanges,
  editionBound,
  importDisk, importRows, importHistory, importImported, importKept, importRemoved,
  importKnown, importBeaten, importRegime, importBudget

Shelf == INSTANCE LibraryFiles WITH
  Regimes <- FileRegimes, disk <- shelfDisk, rows <- shelfRows, home <- shelfHome,
  bin <- shelfBin, filed <- shelfFiled, gone <- shelfGone, seen <- shelfSeen,
  actor <- shelfActor, excused <- shelfExcused, regime <- shelfRegime,
  limits <- shelfLimits
Catalog == INSTANCE Catalogue WITH
  Issues <- Listed, Regimes <- CatalogueRegimes, cv <- catCv, series <- catSeries,
  issue <- catIssue, group <- catGroup, creator <- catCreator, marker <- catMarker,
  queue <- catQueue, job <- catJob, phase <- catPhase, disk <- catDisk, regime <- catRegime,
  left <- catLeft
Editions == INSTANCE Collections WITH
  Series <- CollectedSeries,
  Issues <- Collectable, present <- editionPresent, key <- editionKey, owned <- editionOwned,
  series <- editionSeries, booktype <- editionBooktype, ranges <- editionRanges,
  bound <- editionBound
Imports == INSTANCE ImportPipeline WITH
  Loose <- LooseTitles, Offers <- ImportOffers, Regimes <- ImportRegimes,
  disk <- importDisk, rows <- importRows, history <- importHistory,
  imported <- importImported, kept <- importKept, removed <- importRemoved,
  known <- importKnown, beaten <- importBeaten, regime <- importRegime,
  budget <- importBudget

shelfVars == <<shelfDisk, shelfRows, shelfHome, shelfBin, shelfFiled, shelfGone, shelfSeen,
                shelfActor, shelfExcused, shelfRegime, shelfLimits>>
catVars == <<catCv, catSeries, catIssue, catGroup, catCreator, catMarker, catQueue, catJob,
              catPhase, catDisk, catRegime, catLeft>>
editionVars == <<editionPresent, editionKey, editionOwned, editionSeries, editionBooktype,
                  editionRanges, editionBound>>
importVars == <<importDisk, importRows, importHistory, importImported, importKept, importRemoved,
                 importKnown, importBeaten, importRegime, importBudget>>
vars == <<focus, shelfVars, catVars, editionVars, importVars>>

ASSUME LibraryAssumption ==
  /\ Shelf!RegimesAssumption /\ Catalog!CatalogueAssumption
  /\ Editions!CollectionsAssumption /\ Imports!OffersAssumption

\* A component that rests does so in one of its initial states.
Init ==
  /\ focus \in Focus
  /\ Shelf!Init /\ (focus = "shelf" \/ shelfRegime = CHOOSE r \in FileRegimes : TRUE)
  /\ Catalog!Init /\ (focus = "catalogue" \/ catRegime = CHOOSE r \in CatalogueRegimes : TRUE)
  /\ Editions!Init /\ editionKey \in EditionKeys
  /\ focus = "editions" \/ editionKey = CHOOSE k \in EditionKeys : TRUE
  /\ Imports!Init /\ (focus = "imports" \/ importRegime = CHOOSE r \in ImportRegimes : TRUE)

HandleFiles ==
  /\ focus = "shelf" /\ Shelf!Next
  /\ UNCHANGED <<focus, catVars, editionVars, importVars>>
RefreshCatalogue ==
  /\ focus = "catalogue" /\ Catalog!Next
  /\ UNCHANGED <<focus, shelfVars, editionVars, importVars>>
EditCollections ==
  /\ focus = "editions" /\ Editions!Next
  /\ UNCHANGED <<focus, shelfVars, catVars, importVars>>
ImportDownloads ==
  /\ focus = "imports" /\ Imports!Next
  /\ UNCHANGED <<focus, shelfVars, catVars, editionVars>>
Next == HandleFiles \/ RefreshCatalogue \/ EditCollections \/ ImportDownloads

Spec == Init /\ [][Next]_vars

(***************************************************************************)
(* Properties.                                                             *)
(***************************************************************************)
\* No comic is lost, in every overlap, failure and crash of renames, conversions, deletions
\* and imports: it is on disk or in the bin, or its deletion was asked for.
ContentKept == focus = "shelf" => Shelf!ContentKept

\* The same, and after at most one failure each row still names the file it was registered
\* for and the history names what lies in the bin.
FilesSound ==
  focus = "shelf" => Shelf!TypeOK /\ Shelf!ContentKept /\ Shelf!OneFaultHarmless

\* A rescan that nothing disturbs leaves no row without its file and no file without a row
\* (rescan_series), whatever the failures before it left.
RescanHeals == Shelf!RescanHeals

\* A refresh, which decides after reading ComicVine what it writes later, takes no issue
\* that got a file meanwhile and undoes nothing the operator decided meanwhile; it keeps a
\* date only with all the issues it stands for, makes nothing of a browse-only library
\* wanted, and leaves each series in one franchise (library/flows/refresh.py).
RefreshHarmless ==
  /\ [](focus = "catalogue" => /\ Catalog!TypeOK /\ Catalog!DateIsEarned
                                /\ Catalog!BrowseOnly /\ Catalog!ListedOnce)
  /\ Catalog!OwnedStays /\ Catalog!ChoicesStand

\* The chips of the issues and the rollup of the books tell one story (library/containment.py),
\* whatever refreshes did to the issues since the ranges were declared.
ViewsAgree == focus = "editions" => Editions!TypeOK /\ Editions!ViewsAgree

\* No file the library ever had is destroyed by an import while a bin is configured.
LoserKept == focus = "imports" => Imports!LoserKept

\* The same, and offering files again and again settles: the file an issue has never lost
\* to another one for it (decisions.py).
UpgradesSettle ==
  focus = "imports" => Imports!TypeOK /\ Imports!LoserKept /\ Imports!NoThrash

\* A file is filed where its best evidence says (reconcile in importer/pipeline.py).
NeverMisfiled == focus = "imports" => Imports!NeverMisfiled
=============================================================================
