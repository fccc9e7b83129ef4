\* A batch of renames whose two files swap names, with one failure.
SPECIFICATION Spec
CONSTANTS
  Focus = {"shelf"}
  \* the files of a series
  Contents = {"a", "b", "c", "d"}  Denotes <- FileDenotes  Canon <- FileCanon
  TempStem <- FileTemp  Better <- Upgrades  Unconvertible = {}  Mode = "move"
  FileRegimes <- TroubledRename  MaxActs = 4  MaxFaults = 2  MaxCrashes = 1
  \* the catalogue
  Ids = {1, 2}  Listed = {1, 2, 3}  Key <- VolumeKey  By <- IssueBy  Batch = 1
  Nobody = "nobody"  Workers = {w1, w2}  CatalogueRegimes <- UsualCatalogues
  \* collected editions
  CollectedSeries = {"trade", "single"}  Collectable = {"tpb", "one", "two"}  Keys = {1, 2, 3}
  TradeSeries = {"trade"}  HomeOf <- EditionHome  MaxDeclared = 2  MaxEdits = 2
  EditionKeys <- UsualKeys
  \* imports
  SeriesOf <- OfSeries  Number <- Numbered  Collected = {"s2"}  LooseTitles <- Similar
  Attr <- Attributes  ImportOffers <- EveryOffer  Ladder <- Formats
  ImportRegimes <- UsualImports  MaxOffers = 3  MaxTrouble = 1
INVARIANTS ContentKept
SYMMETRY WorkerSymmetry
CHECK_DEADLOCK FALSE
