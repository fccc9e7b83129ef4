---------------------------- MODULE Library_proofs ----------------------------
(***************************************************************************)
(* What the catalogue, the collected editions, the imports and the files   *)
(* of a series keep, for every value of their constants: a section per     *)
(* component.                                                              *)
(***************************************************************************)
EXTENDS Library, Sequences, FiniteSetTheorems, WellFoundedInduction, TLAPS

(* While one component runs the others rest: each step is one of each       *)
(* component or leaves its variables alone.                                 *)
LEMMA OneActs ==
  [Next]_vars => /\ [Shelf!Next]_shelfVars /\ [Catalog!Next]_catVars
                 /\ [Editions!Next]_editionVars /\ [Imports!Next]_importVars
<1> SUFFICES ASSUME [Next]_vars
             PROVE  /\ [Shelf!Next]_shelfVars /\ [Catalog!Next]_catVars
                    /\ [Editions!Next]_editionVars /\ [Imports!Next]_importVars
  OBVIOUS
<1> USE DEF shelfVars, catVars, editionVars, importVars
<1>1. CASE HandleFiles
  BY <1>1 DEF HandleFiles
<1>2. CASE RefreshCatalogue
  BY <1>2 DEF RefreshCatalogue
<1>3. CASE EditCollections
  BY <1>3 DEF EditCollections
<1>4. CASE ImportDownloads
  BY <1>4 DEF ImportDownloads
<1>5. CASE UNCHANGED vars
  BY <1>5 DEF vars
<1> QED
  BY <1>1, <1>2, <1>3, <1>4, <1>5 DEF Next

(***************************************************************************)
(* Collected editions: the chips of the issues and the rollup of the books. *)
(***************************************************************************)
EditionTypes == Editions!TypeOK

LEMMA EditionFacts ==
  /\ IsFiniteSet(Collectable) /\ TradeSeries \subseteq CollectedSeries
  /\ \A S : Editions!Cardinality(S) = Cardinality(S)
<1>1. \A S : Editions!Cardinality(S) = Cardinality(S)
  BY DEF Cardinality, Editions!Cardinality
<1>2. \A S : Editions!IsFiniteSet(S) = IsFiniteSet(S)
  BY DEF IsFiniteSet, Editions!IsFiniteSet
<1> QED
  BY <1>1, <1>2, LibraryAssumption DEF Editions!CollectionsAssumption

LEMMA EditionInit == Editions!Init => EditionTypes
  BY EditionFacts DEF Editions!Init, EditionTypes, Editions!TypeOK

LEMMA EditionStep == ASSUME EditionTypes, [Editions!Next]_editionVars PROVE EditionTypes'
<1> USE DEF EditionTypes, Editions!TypeOK, Editions!library
<1>1. ASSUME NEW book, NEW ins, Editions!Declare(book, ins) PROVE EditionTypes'
  <2>1. \A r \in Editions!Resolved(book, ins) : r.trade = book /\ r.target \in editionSeries
    BY <1>1 DEF Editions!Declare, Editions!Resolved, Editions!Valid
  <2> QED
    BY <1>1, <2>1 DEF Editions!Declare
<1>2. ASSUME NEW i, Editions!FileComes(i) \/ Editions!FileGoes(i) \/ Editions!RefreshDrops(i)
      PROVE  EditionTypes'
  BY <1>2 DEF Editions!FileComes, Editions!FileGoes, Editions!RefreshDrops
<1>3. ASSUME NEW i, NEW k, Editions!RefreshRenumbers(i, k) PROVE EditionTypes'
  BY <1>3 DEF Editions!RefreshRenumbers
<1>4. ASSUME NEW s, Editions!Retype(s) \/ Editions!DeleteSeries(s) PROVE EditionTypes'
  BY <1>4 DEF Editions!Retype, Editions!DeleteSeries
<1>5. ASSUME UNCHANGED editionVars PROVE EditionTypes'
  BY <1>5 DEF editionVars
<1> QED
  BY <1>1, <1>2, <1>3, <1>4, <1>5 DEF Editions!Next

(* The issues of s whose chips name b.                                      *)
Named(s, b) == {i \in DOMAIN Editions!CollectedIn(s) : b \in Editions!CollectedIn(s)[i]}

(* The join of a book's rows with the issues they span finds those.         *)
LEMMA JoinFindsNamed ==
  ASSUME NEW s \in editionSeries \ editionBooktype, NEW b
  PROVE  {p[2] : p \in Editions!Spanned({r \in Editions!Records(s) : r.trade = b})} = Named(s, b)
<1> DEFINE rows == {r \in Editions!Records(s) : r.trade = b}
<1>1. rows = {r \in editionRanges : r.target = s /\ r.trade = b}
  BY DEF Editions!Records
<1>2. \A i : i \in Named(s, b) <=> /\ i \in editionPresent /\ HomeOf[i] = s
                                   /\ \E r \in editionRanges : r.target = s /\ Editions!Between(i, r) /\ r.trade = b
  BY DEF Named, Editions!CollectedIn, Editions!IssuesOf
<1>3. \A i : i \in {p[2] : p \in Editions!Spanned(rows)}
               <=> i \in editionPresent /\ \E r \in rows : Editions!Between(i, r)
  <2>1. ASSUME NEW i, i \in {p[2] : p \in Editions!Spanned(rows)}
        PROVE  i \in editionPresent /\ \E r \in rows : Editions!Between(i, r)
    <3>1. PICK p \in Editions!Spanned(rows) : i = p[2]
      BY <2>1
    <3>2. PICK r \in rows, j \in editionPresent : p = <<r, j>> /\ Editions!Between(j, r)
      BY <3>1 DEF Editions!Spanned
    <3> QED
      BY <3>1, <3>2
  <2>2. ASSUME NEW i \in editionPresent, NEW r \in rows, Editions!Between(i, r)
        PROVE  i \in {p[2] : p \in Editions!Spanned(rows)}
    <3>1. <<r, i>> \in Editions!Spanned(rows)
      BY <2>2 DEF Editions!Spanned
    <3>2. <<r, i>>[2] = i
      OBVIOUS
    <3> HIDE DEF rows
    <3> QED
      BY <3>1, <3>2
  <2> QED
    BY <2>1, <2>2
<1>4. \A i : i \in {p[2] : p \in Editions!Spanned(rows)} <=> i \in Named(s, b)
  <2> HIDE DEF rows
  <2>1. \A r : r \in rows <=> r \in editionRanges /\ r.target = s /\ r.trade = b
    BY <1>1
  <2>2. ASSUME NEW i, NEW r, r.target = s, Editions!Between(i, r) PROVE HomeOf[i] = s
    BY <2>2 DEF Editions!Between
  <2> QED
    BY <1>2, <1>3, <2>1, <2>2
<1> QED
  BY <1>4

LEMMA ViewsMeet == ASSUME EditionTypes PROVE Editions!ViewsAgree
<1>0. IsFiniteSet(Collectable)
  BY EditionFacts
<1>1. Editions!ViewsAgree
  <2> SUFFICES ASSUME NEW s \in editionSeries \ editionBooktype, NEW b \in DOMAIN Editions!Rollup(s)
               PROVE  LET named == Named(s, b)
                      IN /\ Editions!Rollup(s)[b].total = Cardinality(named)
                         /\ (Editions!Rollup(s)[b].coverage = "collected")
                              = (named # {} /\ named \subseteq editionOwned)
                         /\ (Editions!Rollup(s)[b].coverage = "none") = (named \cap editionOwned = {})
    BY EditionFacts DEF Editions!ViewsAgree, Named
  <2> DEFINE named == Named(s, b)
             rows == {r \in Editions!Records(s) : r.trade = b}
  <2>1. Editions!Rollup(s)[b] = [total |-> Editions!Total(rows), owned |-> Editions!OwnedOf(rows),
                        coverage |-> Editions!Coverage(Editions!Total(rows), Editions!OwnedOf(rows))]
    BY DEF Editions!Rollup
  <2>2. Editions!Total(rows) = Cardinality(named) /\ Editions!OwnedOf(rows) = Cardinality(named \cap editionOwned)
    BY JoinFindsNamed, EditionFacts DEF Editions!Total, Editions!CountDistinct, Editions!OwnedOf
  <2>3. IsFiniteSet(named) /\ IsFiniteSet(named \cap editionOwned)
    <3>1. named \subseteq Collectable
      BY DEF Named, Editions!CollectedIn, Editions!IssuesOf, EditionTypes, Editions!TypeOK
    <3> HIDE DEF named
    <3> QED
      BY <1>0, <3>1, FS_Subset
  <2> HIDE DEF named, rows
  <2>4. Cardinality(named) \in Nat /\ Cardinality(named \cap editionOwned) \in Nat
    BY <2>3, FS_CardinalityType
  <2>5. Cardinality(named \cap editionOwned) = 0 <=> named \cap editionOwned = {}
    BY <2>3, FS_EmptySet
  <2>6. Cardinality(named \cap editionOwned) >= Cardinality(named) <=> named \subseteq editionOwned
    <3>1. Cardinality(named \cap editionOwned) <= Cardinality(named)
          /\ (Cardinality(named \cap editionOwned) = Cardinality(named) => named \cap editionOwned = named)
      BY <2>3, FS_Subset
    <3> QED
      BY <2>4, <3>1
  <2>7. (Editions!Coverage(Cardinality(named), Cardinality(named \cap editionOwned)) = "none")
          = (named \cap editionOwned = {})
    BY <2>5 DEF Editions!Coverage
  <2>8. (Editions!Coverage(Cardinality(named), Cardinality(named \cap editionOwned)) = "collected")
          = (named # {} /\ named \subseteq editionOwned)
    <3>1. named \subseteq editionOwned => (named # {} <=> named \cap editionOwned # {})
      OBVIOUS
    <3> QED
      BY <2>5, <2>6, <3>1 DEF Editions!Coverage
  <2> QED
    BY <2>1, <2>2, <2>7, <2>8 DEF named
<1> QED
  BY <1>1

(* On the page of a series a book counts the issues whose chips name it,    *)
(* whatever refreshes, imports and deletions did since it was declared.     *)
THEOREM ViewsAlwaysAgree == Spec => []ViewsAgree
<1>1. Init => EditionTypes
  BY EditionInit DEF Init
<1>2. EditionTypes /\ [Next]_vars => EditionTypes'
  BY OneActs, EditionStep
<1>3. EditionTypes => ViewsAgree
  BY ViewsMeet DEF ViewsAgree, EditionTypes
<1> QED
  BY <1>1, <1>2, <1>3, PTL DEF Spec

(***************************************************************************)
(* The imports: what the evidence of an offer leads to.                    *)
(***************************************************************************)
\* What a match by number finds is an issue of the series it was asked of.
LEMMA DerivesWithin ==
  ASSUME NEW o, NEW s, NEW via,
         Imports!Derived(o, s, via).issue # Imports!None
  PROVE  LET r == Imports!Derived(o, s, via) IN
         /\ r.issue \in Imports!Issues /\ SeriesOf[r.issue] = s
         /\ r.via \in {via, "ordinal"}
         /\ (via # "ordinal" /\ r.via = "ordinal") =>
              /\ ~Imports!HasFile(r.issue) /\ (o.trade => s \in Collected)
<1> DEFINE d == Imports!Derive(o, s)
           r == Imports!Derived(o, s, via)
<1>1. /\ d.issue \subseteq {i \in Imports!Issues : SeriesOf[i] = s}
      /\ d.via = "ordinal" /\ d.issue # {} =>
           /\ \A i \in d.issue : ~Imports!HasFile(i)
           /\ o.trade => s \in Collected
  <2>1. CASE o.num # 0
    <3>1. d = [issue |-> Imports!Match(s, o.num), via |-> "name", refused |-> FALSE]
      BY <2>1 DEF Imports!Derive
    <3> QED
      BY <3>1 DEF Imports!Match
  <2>2. CASE o.num = 0 /\ o.ord = 0
    <3>1. d = [issue |-> {}, via |-> Imports!None, refused |-> FALSE]
      BY <2>2 DEF Imports!Derive
    <3> QED
      BY <3>1
  <2>3. CASE o.num = 0 /\ o.ord # 0 /\ Imports!OrdinalRefused(o, s)
    <3>1. d = [issue |-> {}, via |-> Imports!None, refused |-> TRUE]
      BY <2>3 DEF Imports!Derive
    <3> QED
      BY <3>1
  <2>4. CASE o.num = 0 /\ o.ord # 0 /\ ~Imports!OrdinalRefused(o, s)
    <3> DEFINE guess == Imports!Match(s, o.ord)
    <3>1. d = [issue |-> {i \in guess : ~Imports!HasFile(i)}, via |-> "ordinal",
               refused |-> \E i \in guess : Imports!HasFile(i)]
      BY <2>4 DEF Imports!Derive
    <3>2. guess \subseteq {i \in Imports!Issues : SeriesOf[i] = s}
      BY DEF Imports!Match
    <3>3. o.trade => s \in Collected
      BY <2>4 DEF Imports!OrdinalRefused
    <3> HIDE DEF guess, d
    <3> QED
      BY <3>1, <3>2, <3>3
  <2> QED
    BY <2>1, <2>2, <2>3, <2>4
<1> DEFINE i == IF d.issue = {} THEN Imports!None ELSE CHOOSE x \in d.issue : TRUE
           v == IF d.via = "ordinal" THEN "ordinal" ELSE via
<1>2. r = [Imports!Found(s, i, via) EXCEPT !.refused = d.refused, !.via = v]
  BY DEF Imports!Derived
<1> HIDE DEF i, v, d
<1>3. r.issue = i /\ r.via = v
  BY <1>2 DEF Imports!Found, Imports!NoIssue
<1> HIDE DEF r
<1>4. i \in d.issue
  BY <1>3 DEF i, r
<1> QED
  BY <1>1, <1>3, <1>4 DEF v, r

\* Whom the evidence of an offer, the corrections aside, names.
LEMMA BaseIsWithin ==
  ASSUME NEW o \in ImportOffers, Imports!Base(o).issue # Imports!None
  PROVE  LET b == Imports!Base(o)
             ours == Imports!Tagged(o) # {} \/ o.grab # Imports!None IN
         /\ Imports!Scope(o) # Imports!None => SeriesOf[b.issue] = Imports!Scope(o)
         /\ ~ours /\ o.store.series # Imports!None => SeriesOf[b.issue] = o.store.series
         /\ ~ours => b.via \notin {"tag", "grab"}
         /\ b.via = "ordinal" => /\ ~Imports!HasFile(b.issue)
                                 /\ o.trade => SeriesOf[b.issue] \in Collected
<1> DEFINE b == Imports!Base(o)
<1>0. o.kind = "library" => o.grab = Imports!None /\ o.store.series = Imports!None
  BY LibraryAssumption DEF Imports!OffersAssumption
<1>1. CASE Imports!Tagged(o) # {}
  <2> DEFINE x == CHOOSE y \in Imports!Tagged(o) : TRUE
  <2>1. b = Imports!Found(SeriesOf[x], x, "tag") /\ x \in Imports!Tagged(o)
    BY <1>1 DEF Imports!Base
  <2> HIDE DEF x
  <2>2. b.issue = x /\ b.via = "tag"
    BY <2>1 DEF Imports!Found, Imports!NoIssue
  <2>3. Imports!InScope(o, SeriesOf[x])
    BY <2>1 DEF Imports!Tagged
  <2> QED
    BY <1>1, <2>2, <2>3 DEF Imports!InScope
<1>2. CASE Imports!Tagged(o) = {} /\ o.grab # Imports!None
  <2>1. b = Imports!Found(SeriesOf[o.grab], o.grab, "grab")
    BY <1>2 DEF Imports!Base
  <2>2. b.issue = o.grab /\ b.via = "grab"
    BY <2>1 DEF Imports!Found, Imports!NoIssue
  <2>3. Imports!Scope(o) = Imports!None
    BY <1>0, <1>2 DEF Imports!Scope
  <2> QED
    BY <1>2, <2>2, <2>3
<1>3. CASE Imports!Tagged(o) = {} /\ o.grab = Imports!None /\ o.store.series # Imports!None
  <2>1. b = Imports!Derived(o, o.store.series, "store")
    BY <1>3 DEF Imports!Base
  <2>2. Imports!Scope(o) = Imports!None
    BY <1>0, <1>3 DEF Imports!Scope
  <2> QED
    BY <1>3, <2>1, <2>2, DerivesWithin
<1>4. CASE /\ Imports!Tagged(o) = {} /\ o.grab = Imports!None /\ o.store.series = Imports!None
           /\ Imports!Scope(o) # Imports!None
  <2>1. b = Imports!InScopeByName(o, Imports!Scope(o))
    BY <1>4 DEF Imports!Base
  <2>2. Imports!NoIssue.issue = Imports!None
    BY DEF Imports!NoIssue
  <2>3. b = Imports!Derived(o, Imports!Scope(o), "name")
    BY <2>1, <2>2 DEF Imports!InScopeByName
  <2> QED
    BY <1>4, <2>3, DerivesWithin
<1>5. CASE /\ Imports!Tagged(o) = {} /\ o.grab = Imports!None /\ o.store.series = Imports!None
           /\ Imports!Scope(o) = Imports!None
  <2>1. b = Imports!ByName(o)
    BY <1>5 DEF Imports!Base
  <2>2. b.via \in {Imports!None, "name"}
    BY <2>1 DEF Imports!ByName, Imports!NoIssue, Imports!Found
  <2> QED
    BY <1>5, <2>2 DEF Imports!None
<1> QED
  BY <1>1, <1>2, <1>3, <1>4, <1>5

\* The same once an embedded ComicVine id is weighed against it.
Fits(o, r) ==
  LET ours == Imports!Tagged(o) # {} \/ o.grab # Imports!None IN
  /\ Imports!Scope(o) # Imports!None => SeriesOf[r.issue] = Imports!Scope(o)
  /\ ~ours /\ o.store.series # Imports!None => SeriesOf[r.issue] = o.store.series
  /\ ~ours /\ o.cv # Imports!None => r.issue = o.cv
  /\ r.via = "ordinal" => /\ ~Imports!HasFile(r.issue)
                          /\ o.trade => SeriesOf[r.issue] \in Collected
LEMMA EmbeddedIsWeighed ==
  ASSUME NEW o \in ImportOffers, NEW c \in BOOLEAN, NEW r, r = Imports!WithEmbedded(o, c),
         r.issue # Imports!None, ~r.conflict
  PROVE  ~c /\ Fits(o, r)
<1> DEFINE b == Imports!Base(o)
<1>0. /\ o.cv \in Imports!Issues \cup {Imports!None} /\ Imports!None \notin Imports!Issues
      /\ o.kind = "library" => o.store.series = Imports!None
  BY LibraryAssumption DEF Imports!OffersAssumption
<1>1. Imports!Embedded(o) = {} <=> o.cv = Imports!None
  BY <1>0 DEF Imports!Embedded
<1>2. \A x \in {"issue", "via", "conflict"} : x \in DOMAIN b
  <2>1. DOMAIN Imports!NoIssue = {"series", "issue", "via", "refused", "conflict"}
    BY DEF Imports!NoIssue
  <2>2. \A s, i, v : DOMAIN Imports!Found(s, i, v) = DOMAIN Imports!NoIssue
    BY <2>1 DEF Imports!Found
  <2>3. \A s, v : DOMAIN Imports!Derived(o, s, v) = DOMAIN Imports!NoIssue
    BY <2>1, <2>2 DEF Imports!Derived
  <2>4. DOMAIN Imports!InScopeByName(o, Imports!Scope(o)) = DOMAIN Imports!NoIssue
        /\ DOMAIN Imports!ByName(o) = DOMAIN Imports!NoIssue
    BY <2>2, <2>3 DEF Imports!InScopeByName, Imports!ByName
  <2>5. DOMAIN b = DOMAIN Imports!NoIssue
    BY <2>2, <2>3, <2>4 DEF Imports!Base
  <2> QED
    BY <2>1, <2>5
<1> HIDE DEF b
<1>3. CASE b.via \in {"tag", "grab"} \/ Imports!Embedded(o) = {}
  <2>1. r = [b EXCEPT !.conflict = c]
    BY <1>3 DEF Imports!WithEmbedded, b
  <2>2. r.issue = b.issue /\ r.via = b.via /\ r.conflict = c
    BY <1>2, <2>1
  <2> QED
    BY <1>1, <1>3, <2>2, BaseIsWithin DEF b, Fits
<1>4. CASE /\ b.via \notin {"tag", "grab"} /\ Imports!Embedded(o) # {}
           /\ Imports!EmbeddedHolds(o, o.cv)
  <2>1. r = [Imports!Found(SeriesOf[o.cv], o.cv, "comicinfo") EXCEPT !.conflict = c]
    BY <1>4 DEF Imports!WithEmbedded, b
  <2>2. r.issue = o.cv /\ r.via = "comicinfo" /\ r.conflict = c
    BY <2>1 DEF Imports!Found, Imports!NoIssue
  <2>3. /\ Imports!Scope(o) # Imports!None => SeriesOf[o.cv] = Imports!Scope(o)
        /\ o.store.series # Imports!None => SeriesOf[o.cv] = o.store.series
    BY <1>4 DEF Imports!EmbeddedHolds, Imports!InScope
  <2> QED
    BY <2>2, <2>3 DEF Fits
<1>5. CASE /\ b.via \notin {"tag", "grab"} /\ Imports!Embedded(o) # {}
           /\ ~Imports!EmbeddedHolds(o, o.cv)
  <2>1. r = [b EXCEPT !.conflict = TRUE]
    BY <1>5 DEF Imports!WithEmbedded, b
  <2> QED
    BY <1>2, <2>1
<1> QED
  BY <1>3, <1>4, <1>5

LEMMA EvidenceIsHeeded ==
  ASSUME NEW o \in ImportOffers, NEW r, r = Imports!Reconciled(o), Imports!Approved(o, r)
  PROVE  Imports!FiledRight(o, r)
<1> USE DEF Imports!None
<1>0. /\ o.cv \in Imports!Issues \cup {Imports!None} /\ Imports!None \notin Imports!Issues
      /\ o.kind = "library" => o.store.series = Imports!None
  BY LibraryAssumption DEF Imports!OffersAssumption
<1>1. r.issue # Imports!None /\ ~r.conflict
  BY DEF Imports!Approved, Imports!MappedToIssue, Imports!OrdinalGuard, Imports!EmbeddedIdConflict
<1>2. \A i : ~Imports!HasFile(i) => Imports!Existing(i) = Imports!NoRow
  BY DEF Imports!HasFile, Imports!Existing
<1>3. CASE Imports!Override(o) # {}
  <2>1. r = Imports!Found(SeriesOf[o.over.issue], o.over.issue, "override")
    BY <1>3 DEF Imports!Reconciled
  <2>2. r.issue = o.over.issue /\ r.via = "override"
    BY <2>1 DEF Imports!Found, Imports!NoIssue
  <2>3. Imports!InScope(o, SeriesOf[o.over.issue])
    BY <1>3 DEF Imports!Override
  <2> QED
    BY <1>3, <2>2, <2>3 DEF Imports!FiledRight, Imports!InScope
<1>4. CASE Imports!Override(o) = {} /\ Imports!Pinned(o) = {}
  <2>1. r = Imports!WithEmbedded(o, FALSE)
    BY <1>4 DEF Imports!Reconciled
  <2>2. Fits(o, r)
    BY <1>1, <2>1, EmbeddedIsWeighed
  <2> QED
    BY <1>2, <1>4, <2>2 DEF Fits, Imports!FiledRight
<1>5. CASE Imports!Override(o) = {} /\ Imports!Pinned(o) # {}
  <2> DEFINE s == o.over.series
             abroad == \E i \in Imports!Embedded(o) : SeriesOf[i] # s
  <2>1. r = Imports!PinnedTo(o, s)
    BY <1>5 DEF Imports!Reconciled
  <2>2. Imports!Scope(o) \in {Imports!None, s}
    BY DEF Imports!Scope
  <2>3. CASE \E i \in Imports!Embedded(o) : SeriesOf[i] = s
    <3>1. r = Imports!Found(s, o.cv, "comicinfo")
      BY <2>1, <2>3 DEF Imports!PinnedTo
    <3>2. r.issue = o.cv /\ r.via = "comicinfo"
      BY <3>1 DEF Imports!Found, Imports!NoIssue
    <3>3. SeriesOf[o.cv] = s
      BY <2>3 DEF Imports!Embedded
    <3> QED
      BY <1>5, <2>2, <3>2, <3>3 DEF Imports!FiledRight
  <2>4. CASE ~(\E i \in Imports!Embedded(o) : SeriesOf[i] = s) /\ o.num # 0
             /\ Imports!Match(s, o.num) # {}
    <3> DEFINE x == CHOOSE i \in Imports!Match(s, o.num) : TRUE
    <3>1. r = [Imports!Found(s, x, "pin") EXCEPT !.conflict = abroad] /\ x \in Imports!Match(s, o.num)
      BY <2>1, <2>4 DEF Imports!PinnedTo
    <3> HIDE DEF x, abroad
    <3>2. r.issue = x /\ r.via = "pin" /\ r.conflict = abroad
      BY <3>1 DEF Imports!Found, Imports!NoIssue
    <3>3. Imports!Embedded(o) = {}
      BY <1>1, <2>4, <3>2 DEF abroad
    <3>4. o.cv = Imports!None
      BY <1>0, <3>3 DEF Imports!Embedded
    <3>5. SeriesOf[x] = s
      BY <3>1 DEF Imports!Match
    <3> QED
      BY <1>5, <2>2, <3>2, <3>4, <3>5 DEF Imports!FiledRight
  <2>5. CASE ~(\E i \in Imports!Embedded(o) : SeriesOf[i] = s)
             /\ ~(o.num # 0 /\ Imports!Match(s, o.num) # {})
    <3>1. r = Imports!WithEmbedded(o, abroad)
      BY <2>1, <2>5 DEF Imports!PinnedTo
    <3>2. Fits(o, r)
      BY <1>1, <3>1, EmbeddedIsWeighed
    <3> QED
      BY <1>2, <1>5, <3>2 DEF Fits, Imports!FiledRight
  <2> QED
    BY <2>3, <2>4, <2>5
<1> QED
  BY <1>3, <1>4, <1>5

(* A file that would be imported goes where its best evidence says, in any  *)
(* library and whatever was imported before: the order in which reconcile   *)
(* asks its sources leaves no combination of corrections, tags, grabs,      *)
(* purchases, names and embedded ids that files it elsewhere.               *)
THEOREM EvidenceDecides == Spec => []NeverMisfiled
<1>1. NeverMisfiled
  BY EvidenceIsHeeded DEF NeverMisfiled, Imports!NeverMisfiled
<1> QED
  BY <1>1, PTL

(***************************************************************************)
(* The imports: what the tables and the directories hold.                  *)
(***************************************************************************)
ImportTypes ==
  /\ importRegime \in ImportRegimes
  /\ importBudget \in [offers : 0..MaxOffers, trouble : 0..MaxTrouble]
  /\ \E b \in Nat : DOMAIN importRows \subseteq 1..b
  /\ \A n \in DOMAIN importRows :
       /\ importRows[n].issue \in Imports!Issues
       /\ Imports!Fmt(importRows[n].path) \in Imports!Formats
       /\ importRows[n].size \in Nat /\ importRows[n].fix \in Nat
  /\ \A p \in DOMAIN importDisk : importDisk[p] \in DOMAIN Attr
  /\ importImported \subseteq (DOMAIN importHistory) \X Imports!Issues
  /\ importKept \cup importRemoved \cup importKnown \subseteq DOMAIN Attr

LEMMA OfferFacts ==
  /\ Imports!None \notin Imports!Issues /\ Imports!Issues \cap DOMAIN Attr = {}
  /\ MaxOffers \in Nat /\ MaxTrouble \in Nat
  /\ \A c \in DOMAIN Attr : /\ Attr[c].size \in Nat /\ Attr[c].fix \in Nat
                            /\ Attr[c].fmt \in Imports!Formats
  /\ \A o \in ImportOffers : /\ o.c \in DOMAIN Attr
                             /\ o.cv \in Imports!Issues \cup {Imports!None}
                             /\ o.grab \in Imports!Issues \cup {Imports!None}
  BY LibraryAssumption DEF Imports!OffersAssumption, Imports!Formats

\* A set of numbers has a least one, and one that is bounded a greatest.
LEMMA LeastOne ==
  ASSUME NEW ns, ns \subseteq Nat, ns # {}
  PROVE  Imports!Min(ns) \in ns /\ \A y \in ns : Imports!Min(ns) <= y
<1> DEFINE R == OpToRel(<, Nat)
<1> HIDE DEF R
<1>1. PICK m \in ns : \A n \in ns : ~(<<n, m>> \in R)
  BY NatLessThanWellFounded, WFMin DEF R
<1>2. \A n \in ns : ~(n < m)
  BY <1>1 DEF R, OpToRel
<1>3. \A n \in ns : m <= n
  BY <1>2
<1> QED
  BY <1>3 DEF Imports!Min

LEMMA GreatestOne ==
  ASSUME NEW b \in Nat, NEW ns, ns \subseteq 0..b, ns # {}
  PROVE  Imports!Max(ns) \in ns /\ \A y \in ns : Imports!Max(ns) >= y
<1> DEFINE T == {k \in Nat : \A y \in ns : y <= k}
<1>1. T \subseteq Nat /\ T # {}
  BY b \in T
<1> HIDE DEF T
<1>2. Imports!Min(T) \in T /\ \A k \in T : Imports!Min(T) <= k
  BY <1>1, LeastOne
<1> DEFINE m == Imports!Min(T)
<1> HIDE DEF m
<1>3. m \in Nat /\ (\A y \in ns : y <= m) /\ \A k \in Nat : (\A y \in ns : y <= k) => m <= k
  BY <1>2 DEF m, T
<1>4. m \in ns
  <2> SUFFICES ASSUME m \notin ns PROVE FALSE
    OBVIOUS
  <2>1. \A y \in ns : y \in Nat /\ y < m
    BY <1>3
  <2>0. PICK z \in ns : z \in Nat /\ z < m
    BY <2>1
  <2>2. m - 1 \in Nat /\ \A y \in ns : y <= m - 1
    BY <1>3, <2>0, <2>1
  <2> QED
    BY <1>3, <2>2
<1> QED
  BY <1>3, <1>4 DEF Imports!Max

LEMMA FreshId ==
  ASSUME NEW rs, NEW b \in Nat, DOMAIN rs \subseteq 1..b
  PROVE  Imports!NewId(rs) \in Nat \ {0} /\ DOMAIN rs \subseteq 1..(Imports!NewId(rs) - 1)
<1> DEFINE S == DOMAIN rs \cup {0}
<1>1. S \subseteq 0..b /\ S # {}
  OBVIOUS
<1>2. Imports!Max(S) \in S /\ \A y \in S : Imports!Max(S) >= y
  BY <1>1, GreatestOne
<1> QED
  BY <1>1, <1>2 DEF Imports!NewId

\* What the tables say of an issue's file.
LEMMA ExistingIsRow ==
  ASSUME ImportTypes, NEW i
  PROVE  LET m == Imports!Min(Imports!RowsOf(i)) IN
         /\ Imports!HasFile(i) =>
              /\ m \in DOMAIN importRows /\ importRows[m].issue = i
              /\ Imports!Existing(i) = importRows[m]
              /\ Imports!Existing(i) # Imports!NoRow
         /\ ~Imports!HasFile(i) =>
              Imports!Existing(i) = Imports!NoRow /\ ~Imports!Present(Imports!Existing(i))
<1> DEFINE m == Imports!Min(Imports!RowsOf(i))
<1>1. CASE Imports!HasFile(i)
  <2>1. Imports!RowsOf(i) \subseteq Nat /\ Imports!RowsOf(i) # {}
    BY <1>1 DEF ImportTypes, Imports!RowsOf, Imports!HasFile
  <2>2. m \in Imports!RowsOf(i)
    BY <2>1, LeastOne
  <2>3. m \in DOMAIN importRows /\ importRows[m].issue = i
    BY <2>2 DEF Imports!RowsOf
  <2>4. importRows[m] # Imports!NoRow
    <3>1. Imports!NoRow.issue = Imports!None
      BY DEF Imports!NoRow
    <3> QED
      BY <2>3, <3>1, OfferFacts DEF ImportTypes
  <2> QED
    BY <1>1, <2>3, <2>4 DEF Imports!Existing
<1>2. CASE ~Imports!HasFile(i)
  BY <1>2 DEF Imports!Existing, Imports!Present
<1> QED
  BY <1>1, <1>2

LEMMA RanksAreNumbers == \A f : Imports!Rank(f) \in Nat
<1> TAKE f
<1>1. Ladder \in Seq(Imports!Range(Ladder))
  BY LibraryAssumption DEF Imports!OffersAssumption
<1>2. CASE Imports!Contains(Ladder, f)
  <2>1. PICK n \in 1..Len(Ladder) : Ladder[n] = f
    BY <1>2 DEF Imports!Contains
  <2>2. DOMAIN Ladder = 1..Len(Ladder) /\ Len(Ladder) \in Nat
    BY <1>1
  <2>3. n \in DOMAIN Ladder
    BY <2>1, <2>2
  <2>4. (CHOOSE k \in DOMAIN Ladder : Ladder[k] = f) \in DOMAIN Ladder
    BY <2>1, <2>3
  <2>5. (CHOOSE k \in DOMAIN Ladder : Ladder[k] = f) \in Nat
    BY <2>2, <2>4
  <2> QED
    BY <1>2, <2>5 DEF Imports!Rank
<1>3. CASE ~Imports!Contains(Ladder, f)
  BY <1>3 DEF Imports!Rank
<1> QED
  BY <1>2, <1>3

\* What a file is taken for is an issue of the library, or none.
LEMMA BaseIsIssue ==
  ASSUME NEW o \in ImportOffers
  PROVE  Imports!Base(o).issue \in Imports!Issues \cup {Imports!None}
<1> DEFINE b == Imports!Base(o)
<1>1. \A s, i, v : Imports!Found(s, i, v).issue = i
  BY DEF Imports!Found, Imports!NoIssue
<1>2. \A s, v : Imports!Derived(o, s, v).issue \in Imports!Issues \cup {Imports!None}
  BY DerivesWithin
<1>3. CASE Imports!Tagged(o) # {}
  <2>1. (CHOOSE y \in Imports!Tagged(o) : TRUE) \in Imports!Issues
    BY <1>3 DEF Imports!Tagged
  <2> QED
    BY <1>1, <1>3, <2>1 DEF Imports!Base
<1>4. CASE Imports!Tagged(o) = {} /\ o.grab # Imports!None
  BY <1>1, <1>4, OfferFacts DEF Imports!Base
<1>5. CASE Imports!Tagged(o) = {} /\ o.grab = Imports!None /\ o.store.series # Imports!None
  BY <1>2, <1>5 DEF Imports!Base
<1>6. CASE /\ Imports!Tagged(o) = {} /\ o.grab = Imports!None /\ o.store.series = Imports!None
           /\ Imports!Scope(o) # Imports!None
  <2>1. b = Imports!InScopeByName(o, Imports!Scope(o))
    BY <1>6 DEF Imports!Base
  <2>2. Imports!NoIssue.issue = Imports!None
    BY DEF Imports!NoIssue
  <2> QED
    BY <1>2, <2>1, <2>2 DEF Imports!InScopeByName
<1>7. CASE /\ Imports!Tagged(o) = {} /\ o.grab = Imports!None /\ o.store.series = Imports!None
           /\ Imports!Scope(o) = Imports!None
  <2>1. b = Imports!ByName(o)
    BY <1>7 DEF Imports!Base
  <2>2. Imports!NoIssue.issue = Imports!None
    BY DEF Imports!NoIssue
  <2>3. Imports!Match(o.title, o.num) \subseteq Imports!Issues
    BY DEF Imports!Match
  <2> QED
    BY <1>1, <2>1, <2>2, <2>3 DEF Imports!ByName
<1> QED
  BY <1>3, <1>4, <1>5, <1>6, <1>7

LEMMA ResolvedIsIssue ==
  ASSUME NEW o \in ImportOffers, NEW r, r = Imports!Reconciled(o)
  PROVE  /\ r.issue \in Imports!Issues \cup {Imports!None}
         /\ Imports!Approved(o, r) => r.issue \in Imports!Issues
<1>1. \A s, i, v : Imports!Found(s, i, v).issue = i
  BY DEF Imports!Found, Imports!NoIssue
<1>2. \A s, i, v, c : [Imports!Found(s, i, v) EXCEPT !.conflict = c].issue = i
  BY DEF Imports!Found, Imports!NoIssue
<1>3. \A c : Imports!WithEmbedded(o, c).issue \in Imports!Issues \cup {Imports!None}
  <2> TAKE c
  <2>1. \A b, x : [b EXCEPT !.conflict = x].issue = b.issue
    OBVIOUS
  <2> QED
    BY <1>2, <2>1, BaseIsIssue, OfferFacts DEF Imports!WithEmbedded
<1>4. \A s : Imports!PinnedTo(o, s).issue \in Imports!Issues \cup {Imports!None}
  <2> TAKE s
  <2>1. Imports!Match(s, o.num) \subseteq Imports!Issues
    BY DEF Imports!Match
  <2>2. CASE \E i \in Imports!Embedded(o) : SeriesOf[i] = s
    <3>1. Imports!PinnedTo(o, s) = Imports!Found(s, o.cv, "comicinfo")
      BY <2>2 DEF Imports!PinnedTo
    <3> QED
      BY <1>1, <3>1, OfferFacts
  <2>3. CASE ~(\E i \in Imports!Embedded(o) : SeriesOf[i] = s)
             /\ o.num # 0 /\ Imports!Match(s, o.num) # {}
    <3> DEFINE x == CHOOSE i \in Imports!Match(s, o.num) : TRUE
               abroad == \E i \in Imports!Embedded(o) : SeriesOf[i] # s
    <3>1. /\ x \in Imports!Match(s, o.num)
          /\ Imports!PinnedTo(o, s) = [Imports!Found(s, x, "pin") EXCEPT !.conflict = abroad]
      BY <2>3 DEF Imports!PinnedTo
    <3> HIDE DEF x, abroad
    <3> QED
      BY <1>2, <2>1, <3>1
  <2>4. CASE ~(\E i \in Imports!Embedded(o) : SeriesOf[i] = s)
             /\ ~(o.num # 0 /\ Imports!Match(s, o.num) # {})
    BY <1>3, <2>4 DEF Imports!PinnedTo
  <2> QED
    BY <2>2, <2>3, <2>4
<1>5. r.issue \in Imports!Issues \cup {Imports!None}
  <2>1. CASE Imports!Override(o) # {}
    <3>1. o.over.issue \in Imports!Issues
      BY <2>1 DEF Imports!Override
    <3>2. r = Imports!Found(SeriesOf[o.over.issue], o.over.issue, "override")
      BY <2>1 DEF Imports!Reconciled
    <3> QED
      BY <1>1, <3>1, <3>2
  <2>2. CASE Imports!Override(o) = {} /\ Imports!Pinned(o) # {}
    BY <1>4, <2>2 DEF Imports!Reconciled
  <2>3. CASE Imports!Override(o) = {} /\ Imports!Pinned(o) = {}
    BY <1>3, <2>3 DEF Imports!Reconciled
  <2> QED
    BY <2>1, <2>2, <2>3
<1>6. Imports!Approved(o, r) => r.issue # Imports!None
  BY DEF Imports!Approved, Imports!MappedToIssue, Imports!OrdinalGuard
<1> QED
  BY <1>5, <1>6

\* What was done when a fault struck is part of what was to be done.
LEMMA DoneIsPart ==
  ASSUME NEW o, NEW i, NEW fault, Imports!CanFail(o, i, fault)
  PROVE  Imports!Done(o, i, fault) \subseteq Imports!Operations(o, i)
<1>1. CASE fault = "second"
  <2>1. Imports!Done(o, i, fault)
          = {IF Imports!LeavesFirst(o, i) \/ Imports!InPlace(o) THEN "dispose" ELSE "place"}
    BY <1>1 DEF Imports!Done
  <2>2. ~(Imports!Operations(o, i) \subseteq Imports!Done(o, i, fault))
    BY <1>1 DEF Imports!CanFail
  <2>3. Imports!InPlace(o) => Imports!Operations(o, i) \subseteq {"dispose"}
    BY DEF Imports!Operations
  <2>4. Imports!LeavesFirst(o, i) => "dispose" \in Imports!Operations(o, i)
    BY DEF Imports!LeavesFirst, Imports!Operations
  <2>5. ~Imports!InPlace(o) => "place" \in Imports!Operations(o, i)
    BY DEF Imports!Operations
  <2> QED
    BY <2>1, <2>2, <2>3, <2>4, <2>5
<1>2. CASE fault # "second"
  BY <1>2 DEF Imports!Done
<1> QED
  BY <1>1, <1>2

LEMMA FilesAreTyped ==
  ASSUME ImportTypes, NEW o \in ImportOffers, NEW i, NEW ops, ops \subseteq Imports!Operations(o, i)
  PROVE  /\ \A p \in DOMAIN Imports!After(o, i, ops) : Imports!After(o, i, ops)[p] \in DOMAIN Attr
         /\ Imports!Saved(i, ops) \subseteq DOMAIN Attr
<1> DEFINE Typed(d) == \A p \in DOMAIN d : d[p] \in DOMAIN Attr
<1>0. o.c \in DOMAIN Attr
  BY OfferFacts
<1>1. ASSUME NEW d, NEW k, Typed(d)
      PROVE  Typed(Imports!With(d, k, o.c)) /\ Typed(Imports!Without(d, k))
  BY <1>0, <1>1 DEF Imports!With, Imports!Without
<1> DEFINE space == IF "dispose" \in ops /\ Imports!LeavesFirst(o, i)
                    THEN Imports!Disposed(importDisk, i) ELSE importDisk
           placed == IF "place" \in ops THEN Imports!Placed(space, o, i) ELSE space
<1>2. Typed(importDisk)
  BY DEF ImportTypes
<1>3. Imports!After(o, i, ops) = IF "dispose" \in ops /\ ~Imports!LeavesFirst(o, i)
                                 THEN Imports!Disposed(placed, i) ELSE placed
  BY DEF Imports!After
<1>a. "dispose" \in ops => Imports!Existing(i).path \in DOMAIN importDisk
  BY DEF Imports!Operations, Imports!Present
<1> HIDE DEF Typed
<1>4. Typed(space)
  BY <1>1, <1>2 DEF Imports!Disposed
<1> HIDE DEF space
<1>5. Typed(placed)
  BY <1>1, <1>4 DEF Imports!Placed, Imports!Taken
<1> HIDE DEF placed
<1>6. Typed(Imports!After(o, i, ops))
  BY <1>1, <1>3, <1>5 DEF Imports!Disposed
<1>7. Imports!Saved(i, ops) \subseteq DOMAIN Attr
  BY <1>2, <1>a DEF Imports!Saved, Typed
<1> QED
  BY <1>6, <1>7 DEF Typed

\* One file: its history entry, its row, what is on disk.
LEMMA HandlingIsTyped ==
  ASSUME ImportTypes, NEW o \in ImportOffers, Imports!Handle(o)
  PROVE  ImportTypes'
<1> DEFINE r == Imports!Reconciled(o)
           i == r.issue
<1>0. /\ importRegime' = importRegime /\ importRemoved' = importRemoved
      /\ importBudget \in [offers : 0..MaxOffers, trouble : 0..MaxTrouble]
      /\ importBudget.offers > 0
  BY DEF Imports!Handle, ImportTypes
<1>1. ASSUME NEW n \in Nat, n <= importBudget.trouble, Imports!Spent(n)
      PROVE  importBudget' \in [offers : 0..MaxOffers, trouble : 0..MaxTrouble]
  <2>1. /\ importBudget.offers - 1 \in 0..MaxOffers
        /\ importBudget.trouble - n \in 0..MaxTrouble
    BY <1>0, <1>1, OfferFacts
  <2> QED
    BY <1>0, <1>1, <2>1 DEF Imports!Spent
<1>2. \A entry : DOMAIN importHistory \subseteq DOMAIN Imports!Noted(o, entry)
                 /\ (o.id # Imports!None => o.id \in DOMAIN Imports!Noted(o, entry))
  BY DEF Imports!Noted, Imports!With, Imports!Without
<1>3. ASSUME Imports!Refuse(o, r) \/ Imports!RefuseReadOnly(o, r), Imports!Spent(0)
      PROVE  ImportTypes'
  <2>1. DOMAIN importHistory \subseteq DOMAIN importHistory'
    BY <1>2, <1>3 DEF Imports!Refuse, Imports!RefuseReadOnly
  <2>2. UNCHANGED <<importDisk, importRows, importImported, importKept, importKnown>>
    BY <1>3 DEF Imports!Refuse, Imports!RefuseReadOnly
  <2>3. importBudget' \in [offers : 0..MaxOffers, trouble : 0..MaxTrouble]
    BY <1>0, <1>1, <1>3
  <2> QED
    BY <1>0, <2>1, <2>2, <2>3 DEF ImportTypes
<1>4. ASSUME NEW f \in Imports!Troubles(o, i), Imports!ImportFails(o, r, f),
             Imports!Spent(IF Imports!PathTaken(o, i) THEN 0 ELSE 1)
      PROVE  ImportTypes'
  <2> DEFINE done == Imports!Done(o, i, f)
  <2>0. /\ importDisk' = Imports!After(o, i, done)
        /\ importKept' = importKept \cup Imports!Saved(i, done)
        /\ importHistory' = IF f = "commit" THEN importHistory
                            ELSE Imports!Noted(o, <<"blocked", Imports!None>>)
        /\ UNCHANGED <<importRows, importImported, importKnown>>
        /\ done \subseteq Imports!Operations(o, i)
    BY <1>4, DoneIsPart DEF Imports!ImportFails
  <2> HIDE DEF done
  <2>1. DOMAIN importHistory \subseteq DOMAIN importHistory'
    BY <1>2, <2>0
  <2>2. importBudget' \in [offers : 0..MaxOffers, trouble : 0..MaxTrouble]
    <3>1. Imports!PathTaken(o, i) \/ importBudget.trouble > 0
      BY <1>4 DEF Imports!Troubles
    <3>2. /\ Imports!PathTaken(o, i) => Imports!Spent(0)
          /\ ~Imports!PathTaken(o, i) => Imports!Spent(1)
      BY <1>4
    <3> QED
      BY <1>0, <1>1, <3>1, <3>2
  <2>3. (\A p \in DOMAIN importDisk' : importDisk'[p] \in DOMAIN Attr)
        /\ Imports!Saved(i, done) \subseteq DOMAIN Attr
    BY <2>0, FilesAreTyped
  <2> QED
    BY <1>0, <2>0, <2>1, <2>2, <2>3 DEF ImportTypes
<1>5. ASSUME Imports!Import(o, r), Imports!Spent(0) PROVE ImportTypes'
  <2> DEFINE all == Imports!Operations(o, i)
             left == Imports!RowsLeft(o, i)
             new == Imports!NewId(left)
             row == Imports!NewRow(o, i)
  <2>0. /\ importDisk' = Imports!Conversion(Imports!After(o, i, all), o, i)
        /\ importKept' = importKept \cup Imports!Saved(i, all)
        /\ importRows' = Imports!With(left, new, row)
        /\ \E entry : importHistory' = Imports!Noted(o, entry)
        /\ importImported' = IF o.id = Imports!None THEN importImported
                             ELSE importImported \cup {<<o.id, i>>}
        /\ importKnown' = importKnown \cup {o.c}
        /\ Imports!Approved(o, r)
    BY <1>5 DEF Imports!Import
  <2>1. i \in Imports!Issues /\ o.c \in DOMAIN Attr
    BY <2>0, ResolvedIsIssue, OfferFacts
  <2>2. importBudget' \in [offers : 0..MaxOffers, trouble : 0..MaxTrouble]
    BY <1>0, <1>1, <1>5
  <2>3. /\ DOMAIN importHistory \subseteq DOMAIN importHistory'
        /\ o.id # Imports!None => o.id \in DOMAIN importHistory'
    BY <1>2, <2>0
  <2>4. importImported' \subseteq (DOMAIN importHistory') \X Imports!Issues
    BY <2>0, <2>1, <2>3 DEF ImportTypes
  <2>5. /\ \A p \in DOMAIN importDisk' : importDisk'[p] \in DOMAIN Attr
        /\ Imports!Saved(i, all) \subseteq DOMAIN Attr
    <3> DEFINE d == Imports!After(o, i, all)
    <3>1. (\A p \in DOMAIN d : d[p] \in DOMAIN Attr) /\ Imports!Saved(i, all) \subseteq DOMAIN Attr
      BY FilesAreTyped
    <3> HIDE DEF d
    <3> QED
      BY <2>0, <2>1, <3>1 DEF Imports!Conversion, d, Imports!With, Imports!Without
  <2>6. /\ row.issue \in Imports!Issues /\ Imports!Fmt(row.path) \in Imports!Formats
        /\ row.size \in Nat /\ row.fix \in Nat
    <3>1. row = [issue |-> i, path |-> Imports!FinalPath(o, i), size |-> Attr[o.c].size,
                 fix |-> Attr[o.c].fix]
      BY DEF Imports!NewRow
    <3>2. Imports!Fmt(Imports!FinalPath(o, i)) \in Imports!Formats
      BY <2>1 DEF Imports!Fmt, Imports!FinalPath, Imports!Dest, Imports!Own, Imports!Formats
    <3> QED
      BY <2>1, <3>1, <3>2, OfferFacts
  <2>7. /\ DOMAIN left \subseteq DOMAIN importRows
        /\ \A n \in DOMAIN left : left[n] = importRows[n]
    BY DEF Imports!RowsLeft, Imports!With, Imports!Without
  <2>8. new \in Nat \ {0} /\ DOMAIN left \subseteq 1..(new - 1)
    BY <2>7, FreshId DEF ImportTypes
  <2> HIDE DEF left, new, row
  <2>9. DOMAIN importRows' \subseteq 1..new
    BY <2>0, <2>8 DEF Imports!With, Imports!Without
  <2>10. \A n \in DOMAIN importRows' : importRows'[n] = IF n = new THEN row ELSE importRows[n]
    BY <2>0, <2>7 DEF Imports!With, Imports!Without
  <2>11. DOMAIN importRows' \subseteq DOMAIN importRows \cup {new}
    BY <2>0, <2>7 DEF Imports!With, Imports!Without
  <2> QED
    BY <1>0, <2>0, <2>1, <2>2, <2>4, <2>5, <2>6, <2>8, <2>9, <2>10, <2>11 DEF ImportTypes
<1> QED
  BY <1>3, <1>4, <1>5 DEF Imports!Handle

LEMMA ImportTypeStep == ASSUME ImportTypes, [Imports!Next]_importVars PROVE ImportTypes'
<1>1. ASSUME NEW o \in ImportOffers, Imports!Drop(o) PROVE ImportTypes'
  <2>1. \A p \in DOMAIN importDisk' : importDisk'[p] \in DOMAIN Attr
    BY <1>1, OfferFacts DEF Imports!Drop, ImportTypes, Imports!With, Imports!Without
  <2> QED
    BY <1>1, <2>1 DEF Imports!Drop, ImportTypes
<1>2. ASSUME NEW p \in DOMAIN importDisk, Imports!Vanish(p) PROVE ImportTypes'
  <2>1. /\ \A q \in DOMAIN importDisk' : importDisk'[q] \in DOMAIN Attr
        /\ importRemoved' \subseteq DOMAIN Attr
    BY <1>2 DEF Imports!Vanish, ImportTypes, Imports!With, Imports!Without
  <2>2. importBudget' \in [offers : 0..MaxOffers, trouble : 0..MaxTrouble]
    BY <1>2, OfferFacts DEF Imports!Vanish, ImportTypes
  <2> QED
    BY <1>2, <2>1, <2>2 DEF Imports!Vanish, ImportTypes
<1>3. ASSUME Imports!Rescan PROVE ImportTypes'
  <2>1. /\ DOMAIN importRows' \subseteq DOMAIN importRows
        /\ \A n \in DOMAIN importRows' : importRows'[n] = importRows[n]
    BY <1>3 DEF Imports!Rescan
  <2> QED
    BY <1>3, <2>1 DEF Imports!Rescan, ImportTypes
<1>4. ASSUME UNCHANGED importVars PROVE ImportTypes'
  BY <1>4 DEF importVars, ImportTypes
<1> QED
  BY <1>1, <1>2, <1>3, <1>4, HandlingIsTyped DEF Imports!Next

LEMMA ImportInit == Imports!Init => ImportTypes
<1> SUFFICES ASSUME Imports!Init PROVE ImportTypes
  OBVIOUS
<1>1. DOMAIN importRows = {} /\ DOMAIN importDisk = {}
  BY DEF Imports!Init
<1>2. DOMAIN importRows \subseteq 1..0 /\ 0 \in Nat
  BY <1>1
<1> QED
  BY <1>1, <1>2, OfferFacts DEF Imports!Init, ImportTypes

\* The disk after the placement, the disposal, or both.
Leaving(o, i, ops) ==
  (IF "dispose" \in ops THEN {Imports!Existing(i).path} ELSE {})
    \cup (IF "place" \in ops /\ o.kind = "library" THEN {Imports!Own(o.c)} ELSE {})
Arriving(o, i, ops) == IF "place" \in ops THEN {Imports!Dest(o, i)} ELSE {}
Rearranged(d, o, i, ops) ==
  /\ DOMAIN d = (DOMAIN importDisk \ Leaving(o, i, ops)) \cup Arriving(o, i, ops)
  /\ \A p \in DOMAIN d : d[p] = IF p \in Arriving(o, i, ops) THEN o.c ELSE importDisk[p]
LEMMA PlacedDisk ==
  ASSUME NEW o, NEW i, NEW ops, ops \subseteq Imports!Operations(o, i)
  PROVE  Rearranged(Imports!After(o, i, ops), o, i, ops)
<1> DEFINE d == Imports!After(o, i, ops)
           at == Imports!Existing(i).path
           gone == IF "dispose" \in ops THEN {at} ELSE {}
           taken == IF "place" \in ops /\ o.kind = "library" THEN {Imports!Own(o.c)} ELSE {}
           to == Imports!Dest(o, i)
           put == IF "place" \in ops THEN {to} ELSE {}
           first == "dispose" \in ops /\ Imports!LeavesFirst(o, i)
           later == "dispose" \in ops /\ ~Imports!LeavesFirst(o, i)
           space == IF first THEN Imports!Disposed(importDisk, i) ELSE importDisk
           placed == IF "place" \in ops THEN Imports!Placed(space, o, i) ELSE space
<1>1. d = IF later THEN Imports!Disposed(placed, i) ELSE placed
  BY DEF Imports!After
<1>2. /\ first => at = to
      /\ later /\ "place" \in ops => at # to
  BY DEF Imports!LeavesFirst, Imports!Operations
<1> HIDE DEF first, later, at, to
<1>3. /\ DOMAIN space = DOMAIN importDisk \ (IF first THEN {at} ELSE {})
      /\ \A p \in DOMAIN space : space[p] = importDisk[p]
  BY DEF Imports!Disposed, Imports!Without, at
<1> HIDE DEF space
<1>4. /\ DOMAIN placed = (DOMAIN space \ taken) \cup put
      /\ \A p \in DOMAIN placed : placed[p] = IF p \in put THEN o.c ELSE space[p]
  BY DEF Imports!Placed, Imports!Taken, Imports!With, Imports!Without, to
<1> HIDE DEF placed
<1>5. /\ DOMAIN d = DOMAIN placed \ (IF later THEN {at} ELSE {})
      /\ \A p \in DOMAIN d : d[p] = placed[p]
  BY <1>1 DEF Imports!Disposed, Imports!Without, at
<1>6. ("dispose" \in ops <=> first \/ later) /\ ~(first /\ later)
  BY DEF first, later
<1> HIDE DEF d
<1>7. DOMAIN d = ((DOMAIN importDisk \ gone) \ taken) \cup put
  BY <1>2, <1>3, <1>4, <1>5, <1>6
<1>8. \A p \in DOMAIN d : d[p] = IF p \in put THEN o.c ELSE importDisk[p]
  BY <1>3, <1>4, <1>5
<1>9. Leaving(o, i, ops) = gone \cup taken /\ Arriving(o, i, ops) = put
  BY DEF Leaving, Arriving, at, to
<1> QED
  BY <1>7, <1>8, <1>9 DEF d, Rearranged

\* A conversion turns the file at its destination into the one beside it.
Turned(c, d, o, i) ==
  LET at == Imports!FinalPath(o, i) IN
  /\ DOMAIN c = (DOMAIN d \ {Imports!Dest(o, i)}) \cup {at}
  /\ \A p \in DOMAIN c \ {at} : c[p] = d[p]
  /\ c[at] = IF at \in DOMAIN d THEN d[at] ELSE o.c
LEMMA ConvertedDisk ==
  ASSUME NEW o, NEW i, NEW d, Imports!Dest(o, i) \in DOMAIN d, d[Imports!Dest(o, i)] = o.c
  PROVE  Turned(Imports!Conversion(d, o, i), d, o, i)
<1> DEFINE at == Imports!FinalPath(o, i)
           to == Imports!Dest(o, i)
<1>1. CASE ~Imports!Converts(o)
  BY <1>1 DEF Turned, Imports!Conversion, Imports!FinalPath
<1>2. CASE Imports!Converts(o)
  <2>1. at = <<to[1], "cbz">> /\ at # to
    <3>1. to[2] = "cbr"
      BY <1>2 DEF Imports!Converts, Imports!Dest, Imports!Own
    <3>2. at = <<to[1], "cbz">>
      BY <1>2 DEF Imports!FinalPath
    <3> QED
      BY <3>1, <3>2
  <2> HIDE DEF at, to
  <2>2. Imports!Conversion(d, o, i)
          = Imports!Without(IF at \in DOMAIN d THEN d ELSE Imports!With(d, at, o.c), to)
    BY <1>2 DEF Imports!Conversion, at, to
  <2> QED
    BY <2>1, <2>2 DEF Turned, Imports!With, Imports!Without, at, to
<1> QED
  BY <1>1, <1>2

\* A file that is moved over nothing else, and disposed of into a bin, is kept.
LEMMA FilesAreKept ==
  ASSUME NEW o \in ImportOffers, NEW i, NEW ops, ops \subseteq Imports!Operations(o, i),
         importRegime.keep,
         Imports!Own(o.c) \in DOMAIN importDisk => importDisk[Imports!Own(o.c)] = o.c,
         \A p \in DOMAIN importDisk :
           p = Imports!Dest(o, i) =>
             \/ importDisk[p] = o.c
             \/ "dispose" \in ops /\ Imports!Existing(i).path = p
  PROVE  \A x \in Imports!Range(importDisk) :
           x \in Imports!Range(Imports!After(o, i, ops)) \cup Imports!Saved(i, ops)
<1> DEFINE d == Imports!After(o, i, ops)
           at == Imports!Existing(i).path
           to == Imports!Dest(o, i)
           leave == Leaving(o, i, ops)
           put == Arriving(o, i, ops)
<1>1. /\ DOMAIN d = (DOMAIN importDisk \ leave) \cup put
      /\ \A p \in DOMAIN d : d[p] = IF p \in put THEN o.c ELSE importDisk[p]
  <2>1. Rearranged(d, o, i, ops)
    BY PlacedDisk
  <2> QED
    BY <2>1 DEF Rearranged
<1> HIDE DEF d
<1> SUFFICES ASSUME NEW p \in DOMAIN importDisk
             PROVE  importDisk[p] \in Imports!Range(d) \cup Imports!Saved(i, ops)
  BY DEF Imports!Range, d
<1>2. CASE "dispose" \in ops /\ p = at
  BY <1>2 DEF Imports!Saved
<1>3. CASE ~("dispose" \in ops /\ p = at) /\ (p \in leave \/ p \in put)
  <2>1. "place" \in ops /\ importDisk[p] = o.c
    BY <1>3 DEF Leaving, Arriving
  <2>2. to \in DOMAIN d /\ d[to] = o.c
    BY <1>1, <2>1 DEF Arriving
  <2> QED
    BY <2>1, <2>2 DEF Imports!Range
<1>4. CASE p \notin leave /\ p \notin put
  <2>1. p \in DOMAIN d /\ d[p] = importDisk[p]
    BY <1>1, <1>4
  <2> QED
    BY <2>1 DEF Imports!Range
<1> QED
  BY <1>2, <1>3, <1>4

\* How a row and a file stand in the comparison the import makes: format, fix, size.
Scores == [rank : Nat, fix : Nat, size : Nat]
Standing(row) == [rank |-> Imports!Rank(Imports!Fmt(row.path)), fix |-> row.fix, size |-> row.size]
Merit(c) == [rank |-> Imports!Rank(Attr[c].fmt), fix |-> Attr[c].fix, size |-> Attr[c].size]
Beats(a, b) == \/ a.rank > b.rank
               \/ a.rank = b.rank /\ a.fix > b.fix
               \/ a.rank = b.rank /\ a.fix = b.fix /\ importRegime.larger /\ a.size > b.size
AtLeast(a, b) == a.rank >= b.rank /\ a.fix = b.fix /\ a.size = b.size

LEMMA BeatsIsAnOrder ==
  ASSUME NEW a \in Scores, NEW b \in Scores, NEW c \in Scores
  PROVE  /\ ~Beats(a, a)
         /\ Beats(a, b) /\ Beats(b, c) => Beats(a, c)
         /\ AtLeast(a, b) /\ Beats(b, c) => Beats(a, c)
         /\ Beats(a, b) /\ AtLeast(b, c) => Beats(a, c)
         /\ AtLeast(a, b) => ~Beats(b, a)
<1>1. /\ a.rank \in Nat /\ b.rank \in Nat /\ c.rank \in Nat
      /\ a.fix \in Nat /\ b.fix \in Nat /\ c.fix \in Nat
      /\ a.size \in Nat /\ b.size \in Nat /\ c.size \in Nat
  BY DEF Scores
<1> QED
  BY <1>1 DEF Beats, AtLeast

LEMMA ScoresAreTyped ==
  ASSUME ImportTypes
  PROVE  /\ \A n \in DOMAIN importRows : Standing(importRows[n]) \in Scores
         /\ \A c \in DOMAIN Attr : Merit(c) \in Scores
  BY OfferFacts, RanksAreNumbers DEF ImportTypes, Scores, Standing, Merit

LEMMA ApprovedBeats ==
  ASSUME ImportTypes, NEW o \in ImportOffers, NEW r, r = Imports!Reconciled(o),
         Imports!Approved(o, r), Imports!HasFile(r.issue)
  PROVE  Beats(Merit(o.c), Standing(Imports!Existing(r.issue)))
<1> DEFINE e == Imports!Existing(r.issue)
<1>1. e # Imports!NoRow /\ Imports!UpgradeAllowed(o, e) /\ Imports!DuplicateConstraint(o, e)
  BY ExistingIsRow DEF Imports!Approved
<1> HIDE DEF e
<1>2. Imports!Rank(Attr[o.c].fmt) \in Nat /\ Imports!Rank(Imports!Fmt(e.path)) \in Nat
  BY RanksAreNumbers
<1>3. \/ Imports!Rank(Attr[o.c].fmt) > Imports!Rank(Imports!Fmt(e.path))
      \/ /\ Imports!Rank(Attr[o.c].fmt) = Imports!Rank(Imports!Fmt(e.path))
         /\ Imports!DuplicateWins(o, e)
  BY <1>1, <1>2 DEF Imports!UpgradeAllowed, Imports!DuplicateConstraint, Imports!SameRung
<1>4. Beats(Merit(o.c), Standing(e))
  BY <1>3 DEF Beats, Merit, Standing, Imports!DuplicateWins
<1> QED
  BY <1>4 DEF e

(***************************************************************************)
(* An import that renames, of which no operation fails half-way while no   *)
(* file is taken away: each row's file is in the place the template gives  *)
(* it, an issue has one row, and what lies about has its own name.         *)
(***************************************************************************)
Quiet == importRegime.rename /\ ~importRegime.vanish /\ importRegime.faults \subseteq {"first"}
Housed ==
  /\ \A n \in DOMAIN importRows :
       /\ importRows[n].path = <<importRows[n].issue, Imports!Fmt(importRows[n].path)>>
       /\ importRows[n].path \in DOMAIN importDisk
  /\ \A n, m \in DOMAIN importRows : importRows[n].issue = importRows[m].issue => n = m
  /\ \A p \in DOMAIN importDisk :
       p = Imports!Own(importDisk[p]) \/ \E n \in DOMAIN importRows : importRows[n].path = p

\* Where an issue's files are, then.
LEMMA HousedFacts ==
  ASSUME ImportTypes, Quiet, Housed, NEW o \in ImportOffers, NEW i \in Imports!Issues
  PROVE  /\ Imports!Own(o.c) \in DOMAIN importDisk => importDisk[Imports!Own(o.c)] = o.c
         /\ \A f : <<i, f>> \in DOMAIN importDisk =>
              /\ Imports!Present(Imports!Existing(i)) /\ Imports!Existing(i).path = <<i, f>>
         /\ Imports!HasFile(i) <=> Imports!Present(Imports!Existing(i))
         /\ Imports!HasFile(i) =>
              /\ Imports!RowsOf(i) = {Imports!Min(Imports!RowsOf(i))}
              /\ Imports!Existing(i).path[1] = i
         /\ DOMAIN Imports!RowsLeft(o, i) = DOMAIN importRows \ Imports!RowsOf(i)
         /\ \A n \in DOMAIN Imports!RowsLeft(o, i) : Imports!RowsLeft(o, i)[n] = importRows[n]
         /\ ~Imports!PathTaken(o, i)
         /\ Imports!Dest(o, i)[1] = i /\ ~Imports!InPlace(o)
         /\ Imports!FinalPath(o, i) = <<i, Imports!Fmt(Imports!FinalPath(o, i))>>
<1> DEFINE m == Imports!Min(Imports!RowsOf(i))
           e == Imports!Existing(i)
<1>1. o.c \in DOMAIN Attr /\ i \notin DOMAIN Attr
  BY OfferFacts
<1>2. Imports!Own(o.c) \in DOMAIN importDisk => importDisk[Imports!Own(o.c)] = o.c
  <2> SUFFICES ASSUME Imports!Own(o.c) \in DOMAIN importDisk
               PROVE  importDisk[Imports!Own(o.c)] = o.c
    OBVIOUS
  <2>1. ASSUME NEW n \in DOMAIN importRows PROVE importRows[n].path # Imports!Own(o.c)
    <3>1. importRows[n].path[1] = importRows[n].issue /\ importRows[n].issue \in Imports!Issues
      BY DEF Housed, ImportTypes
    <3>2. Imports!Own(o.c)[1] = o.c
      BY DEF Imports!Own
    <3> QED
      BY <1>1, <3>1, <3>2, OfferFacts
  <2>2. Imports!Own(o.c) = Imports!Own(importDisk[Imports!Own(o.c)])
    BY <2>1 DEF Housed
  <2> QED
    BY <2>2 DEF Imports!Own
<1>3. Imports!HasFile(i) =>
        /\ m \in DOMAIN importRows /\ importRows[m].issue = i /\ e = importRows[m]
        /\ e # Imports!NoRow /\ Imports!RowsOf(i) = {m}
  <2>1. Imports!HasFile(i) => m \in DOMAIN importRows /\ importRows[m].issue = i
                              /\ e = importRows[m] /\ e # Imports!NoRow
    BY ExistingIsRow
  <2> HIDE DEF m, e
  <2> QED
    BY <2>1 DEF Housed, Imports!RowsOf
<1>4. ~Imports!HasFile(i) => e = Imports!NoRow /\ ~Imports!Present(e) /\ Imports!RowsOf(i) = {}
  BY ExistingIsRow DEF Imports!HasFile
<1> HIDE DEF m, e
<1>5. Imports!HasFile(i) => Imports!Present(e) /\ e.path[1] = i
  BY <1>3 DEF Housed, Imports!Present
<1>6. ASSUME NEW f, <<i, f>> \in DOMAIN importDisk PROVE Imports!Present(e) /\ e.path = <<i, f>>
  <2>1. Imports!Own(importDisk[<<i, f>>])[1] \in DOMAIN Attr
    BY <1>6 DEF Imports!Own, ImportTypes
  <2>2. <<i, f>> # Imports!Own(importDisk[<<i, f>>])
    BY <1>1, <2>1
  <2>3. PICK n \in DOMAIN importRows : importRows[n].path = <<i, f>>
    BY <1>6, <2>2 DEF Housed
  <2>4. importRows[n].issue = i
    BY <2>3 DEF Housed
  <2>5. n \in Imports!RowsOf(i)
    BY <2>4 DEF Imports!RowsOf
  <2> QED
    BY <1>3, <1>5, <2>3, <2>5 DEF Imports!HasFile
<1>7. /\ DOMAIN Imports!RowsLeft(o, i) = DOMAIN importRows \ Imports!RowsOf(i)
      /\ \A n \in DOMAIN Imports!RowsLeft(o, i) : Imports!RowsLeft(o, i)[n] = importRows[n]
  BY <1>3, <1>4, <1>5 DEF Imports!RowsLeft, Imports!Without, m, e
<1>8. Imports!Dest(o, i)[1] = i /\ ~Imports!InPlace(o)
  BY DEF Quiet, Imports!Dest, Imports!InPlace
<1>9. ~Imports!PathTaken(o, i)
  <2> SUFFICES ASSUME NEW n \in DOMAIN Imports!RowsLeft(o, i),
                      importRows[n].path = Imports!Dest(o, i)
               PROVE  FALSE
    BY DEF Imports!PathTaken
  <2>1. n \in DOMAIN importRows /\ n \notin Imports!RowsOf(i)
    BY <1>7
  <2>2. importRows[n].path[1] = importRows[n].issue
    BY <2>1 DEF Housed
  <2>3. importRows[n].issue = i
    BY <1>8, <2>2
  <2> QED
    BY <2>1, <2>3 DEF Imports!RowsOf
<1>10. Imports!FinalPath(o, i) = <<i, Imports!Fmt(Imports!FinalPath(o, i))>>
  BY <1>8 DEF Quiet, Imports!FinalPath, Imports!Fmt, Imports!Dest
<1> QED
  BY <1>2, <1>3, <1>4, <1>5, <1>6, <1>7, <1>8, <1>9, <1>10 DEF e, m

\* What an import does then: it replaces the file and the row of its issue.
Filed(o, i) ==
  LET at == Imports!FinalPath(o, i)
      left == DOMAIN importDisk \ Leaving(o, i, Imports!Operations(o, i))
      new == Imports!NewId(Imports!RowsLeft(o, i))
      others == DOMAIN importRows \ Imports!RowsOf(i) IN
  /\ DOMAIN importDisk' = left \cup {at}
  /\ \A p \in DOMAIN importDisk' : importDisk'[p] = IF p = at THEN o.c ELSE importDisk[p]
  /\ DOMAIN importRows' = others \cup {new} /\ new \notin others
  /\ \A n \in DOMAIN importRows' :
       importRows'[n] = IF n = new THEN Imports!NewRow(o, i) ELSE importRows[n]

LEMMA HousedImport ==
  ASSUME ImportTypes, Quiet, Housed, NEW o \in ImportOffers, NEW r,
         r = Imports!Reconciled(o), Imports!Import(o, r)
  PROVE  r.issue \in Imports!Issues /\ Filed(o, r.issue)
<1> DEFINE i == r.issue
           ops == Imports!Operations(o, i)
           d == Imports!After(o, i, ops)
           to == Imports!Dest(o, i)
           at == Imports!FinalPath(o, i)
           left == DOMAIN importDisk \ Leaving(o, i, ops)
           rest == Imports!RowsLeft(o, i)
           new == Imports!NewId(rest)
           e == Imports!Existing(i)
<1>0. i \in Imports!Issues
  BY ResolvedIsIssue DEF Imports!Import
<1>1. /\ \A f : <<i, f>> \in DOMAIN importDisk => Imports!Present(e) /\ e.path = <<i, f>>
      /\ DOMAIN rest = DOMAIN importRows \ Imports!RowsOf(i)
      /\ \A n \in DOMAIN rest : rest[n] = importRows[n]
      /\ ~Imports!InPlace(o) /\ at = <<i, Imports!Fmt(at)>>
      /\ to = <<i, Attr[o.c].fmt>>
  BY <1>0, HousedFacts DEF Quiet, Imports!Dest
<1>2. /\ "place" \in ops
      /\ \A p \in DOMAIN importDisk : p \in {to, at} => p \in Leaving(o, i, ops)
  <2>1. Imports!Present(e) => e.path \in Leaving(o, i, ops)
    BY DEF Imports!Operations, Leaving
  <2> QED
    BY <1>1, <2>1 DEF Imports!Operations
<1>3. Rearranged(d, o, i, ops)
  BY PlacedDisk
<1>4. /\ DOMAIN d = left \cup {to}
      /\ \A p \in DOMAIN d : d[p] = IF p = to THEN o.c ELSE importDisk[p]
  BY <1>2, <1>3 DEF Rearranged, Arriving
<1>5. importDisk' = Imports!Conversion(d, o, i)
  BY DEF Imports!Import
<1> HIDE DEF d, left
<1>6. /\ DOMAIN importDisk' = (DOMAIN d \ {to}) \cup {at}
      /\ \A p \in DOMAIN importDisk' \ {at} : importDisk'[p] = d[p]
      /\ importDisk'[at] = IF at \in DOMAIN d THEN d[at] ELSE o.c
  <2>1. to \in DOMAIN d /\ d[to] = o.c
    BY <1>4
  <2>2. Turned(importDisk', d, o, i)
    BY <1>5, <2>1, ConvertedDisk
  <2> QED
    BY <2>2 DEF Turned
<1>7. to \notin left /\ at \notin left
  BY <1>2 DEF left
<1>8. /\ DOMAIN importDisk' = left \cup {at}
      /\ \A p \in DOMAIN importDisk' : importDisk'[p] = IF p = at THEN o.c ELSE importDisk[p]
  BY <1>4, <1>6, <1>7
<1>9. importRows' = Imports!With(rest, new, Imports!NewRow(o, i))
  BY DEF Imports!Import
<1>10. new \notin DOMAIN rest
  <2>1. PICK b \in Nat : DOMAIN rest \subseteq 1..b
    BY <1>1 DEF ImportTypes
  <2>2. new \in Nat /\ DOMAIN rest \subseteq 1..(new - 1)
    BY <2>1, FreshId
  <2> QED
    BY <2>2
<1> HIDE DEF rest, new
<1>11. /\ DOMAIN importRows' = DOMAIN rest \cup {new}
       /\ \A n \in DOMAIN importRows' :
            importRows'[n] = IF n = new THEN Imports!NewRow(o, i) ELSE rest[n]
  BY <1>9 DEF Imports!With
<1>12. Filed(o, i)
  BY <1>1, <1>8, <1>10, <1>11 DEF Filed, left, rest, new
<1> QED
  BY <1>0, <1>12

\* A fault at the first operation leaves everything where it is.
LEMMA QuietFailure ==
  ASSUME ImportTypes, Quiet, Housed, NEW o \in ImportOffers, NEW r,
         r = Imports!Reconciled(o), NEW f \in Imports!Troubles(o, r.issue),
         Imports!ImportFails(o, r, f)
  PROVE  /\ DOMAIN importDisk' = DOMAIN importDisk
         /\ \A p \in DOMAIN importDisk : importDisk'[p] = importDisk[p]
         /\ UNCHANGED <<importRows, importKept, importKnown, importBeaten>>
<1> DEFINE i == r.issue
<1>1. i \in Imports!Issues
  BY ResolvedIsIssue DEF Imports!ImportFails
<1>2. f = "first"
  BY <1>1, HousedFacts DEF Imports!Troubles, Quiet
<1>3. Imports!Done(o, i, f) = {}
  BY <1>2 DEF Imports!Done
<1>4. /\ importDisk' = Imports!After(o, i, {}) /\ importKept' = importKept \cup Imports!Saved(i, {})
      /\ UNCHANGED <<importRows, importKnown, importBeaten>>
  BY <1>3 DEF Imports!ImportFails
<1>5. Rearranged(Imports!After(o, i, {}), o, i, {}) /\ Imports!Saved(i, {}) = {}
  BY PlacedDisk DEF Imports!Saved
<1>6. Leaving(o, i, {}) = {} /\ Arriving(o, i, {}) = {}
  BY DEF Leaving, Arriving
<1>7. /\ DOMAIN importDisk' = DOMAIN importDisk
      /\ \A p \in DOMAIN importDisk : importDisk'[p] = importDisk[p]
  BY <1>4, <1>5, <1>6 DEF Rearranged
<1> QED
  BY <1>4, <1>5, <1>7

\* The other steps of a library that nobody disturbs.
LEMMA QuietSteps ==
  ASSUME ImportTypes, Quiet, Housed, [Imports!Next]_importVars,
         ~(\E o \in ImportOffers : Imports!Import(o, Imports!Reconciled(o)))
  PROVE  /\ UNCHANGED <<importRows, importKept, importKnown, importBeaten, importRemoved, importRegime>>
         /\ DOMAIN importDisk \subseteq DOMAIN importDisk'
         /\ \A p \in DOMAIN importDisk : importDisk'[p] = importDisk[p]
         /\ \A p \in DOMAIN importDisk' \ DOMAIN importDisk : p = Imports!Own(importDisk'[p])
<1>1. ASSUME NEW o \in ImportOffers, Imports!Drop(o)
      PROVE  /\ UNCHANGED <<importRows, importKept, importKnown, importBeaten, importRemoved, importRegime>>
             /\ DOMAIN importDisk \subseteq DOMAIN importDisk'
             /\ \A p \in DOMAIN importDisk : importDisk'[p] = importDisk[p]
             /\ \A p \in DOMAIN importDisk' \ DOMAIN importDisk : p = Imports!Own(importDisk'[p])
  BY <1>1 DEF Imports!Drop, Imports!With
<1>2. ASSUME NEW p \in DOMAIN importDisk, Imports!Vanish(p) PROVE FALSE
  BY <1>2 DEF Imports!Vanish, Quiet
<1>3. ASSUME Imports!Rescan PROVE FALSE
  <2>1. DOMAIN importRows = {n \in DOMAIN importRows : importRows[n].path \in DOMAIN importDisk}
    BY DEF Housed
  <2> QED
    BY <1>3, <2>1 DEF Imports!Rescan
<1>4. ASSUME NEW o \in ImportOffers, Imports!Handle(o)
      PROVE  /\ UNCHANGED <<importRows, importKept, importKnown, importBeaten, importRemoved, importRegime>>
             /\ DOMAIN importDisk = DOMAIN importDisk'
             /\ \A p \in DOMAIN importDisk : importDisk'[p] = importDisk[p]
  <2> DEFINE r == Imports!Reconciled(o)
  <2>0. UNCHANGED <<importRemoved, importRegime>>
    BY <1>4 DEF Imports!Handle
  <2>1. CASE Imports!Refuse(o, r)
    BY <2>0, <2>1 DEF Imports!Refuse
  <2>2. CASE Imports!RefuseReadOnly(o, r)
    BY <2>0, <2>2 DEF Imports!RefuseReadOnly
  <2>3. ASSUME NEW f \in Imports!Troubles(o, r.issue), Imports!ImportFails(o, r, f)
        PROVE  /\ UNCHANGED <<importRows, importKept, importKnown, importBeaten>>
               /\ DOMAIN importDisk = DOMAIN importDisk'
               /\ \A p \in DOMAIN importDisk : importDisk'[p] = importDisk[p]
    BY <2>3, QuietFailure
  <2> QED
    BY <1>4, <2>0, <2>1, <2>2, <2>3 DEF Imports!Handle
<1>5. CASE UNCHANGED importVars
  BY <1>5 DEF importVars
<1> QED
  BY <1>1, <1>2, <1>3, <1>4, <1>5 DEF Imports!Next

LEMMA HousedStep ==
  ASSUME ImportTypes, Quiet, Housed, [Imports!Next]_importVars
  PROVE  Housed'
<1>1. ASSUME NEW o \in ImportOffers, Imports!Import(o, Imports!Reconciled(o)) PROVE Housed'
  <2> DEFINE r == Imports!Reconciled(o)
             i == r.issue
             at == Imports!FinalPath(o, i)
             left == DOMAIN importDisk \ Leaving(o, i, Imports!Operations(o, i))
             new == Imports!NewId(Imports!RowsLeft(o, i))
             others == DOMAIN importRows \ Imports!RowsOf(i)
             row == Imports!NewRow(o, i)
  <2>0. i \in Imports!Issues /\ Filed(o, i)
    BY <1>1, HousedImport
  <2>1. /\ DOMAIN importDisk' = left \cup {at}
        /\ \A p \in DOMAIN importDisk' : importDisk'[p] = IF p = at THEN o.c ELSE importDisk[p]
        /\ DOMAIN importRows' = others \cup {new} /\ new \notin others
        /\ \A n \in DOMAIN importRows' : importRows'[n] = IF n = new THEN row ELSE importRows[n]
    BY <2>0 DEF Filed
  <2>2. row.issue = i /\ row.path = at /\ at = <<i, Imports!Fmt(at)>>
    BY <2>0, HousedFacts DEF Imports!NewRow
  <2>3. \A n \in others : /\ n \in DOMAIN importRows /\ importRows[n].issue # i
                          /\ importRows[n].issue \in Imports!Issues
    BY DEF Imports!RowsOf, ImportTypes
  <2>4. \A p \in Leaving(o, i, Imports!Operations(o, i)) :
          \/ Imports!HasFile(i) /\ p = Imports!Existing(i).path /\ p[1] = i
          \/ p = Imports!Own(o.c) /\ p[1] \in DOMAIN Attr
    <3>1. "dispose" \in Imports!Operations(o, i) => Imports!Present(Imports!Existing(i))
      BY DEF Imports!Operations
    <3>2. Imports!Own(o.c)[1] \in DOMAIN Attr
      BY OfferFacts DEF Imports!Own
    <3>3. /\ Imports!Present(Imports!Existing(i)) => Imports!HasFile(i)
          /\ Imports!HasFile(i) => Imports!Existing(i).path[1] = i
      BY <2>0, HousedFacts
    <3> QED
      BY <3>1, <3>2, <3>3 DEF Leaving
  <2>5. \A n \in others : importRows[n].path \in left
    <3> SUFFICES ASSUME NEW n \in others PROVE importRows[n].path \in left
      OBVIOUS
    <3>1. /\ importRows[n].path \in DOMAIN importDisk
          /\ importRows[n].path[1] = importRows[n].issue
      BY <2>3 DEF Housed
    <3> QED
      BY <2>3, <2>4, <3>1, OfferFacts
  <2>6. \A p \in left : p = Imports!Own(importDisk[p]) \/ \E n \in others : importRows[n].path = p
    <3> SUFFICES ASSUME NEW p \in left, p # Imports!Own(importDisk[p])
                 PROVE  \E n \in others : importRows[n].path = p
      OBVIOUS
    <3>1. PICK n \in DOMAIN importRows : importRows[n].path = p
      BY DEF Housed
    <3>2. ASSUME n \in Imports!RowsOf(i) PROVE FALSE
      <4>1. Imports!HasFile(i) /\ Imports!RowsOf(i) = {Imports!Min(Imports!RowsOf(i))}
        BY <2>0, <3>2, HousedFacts DEF Imports!HasFile
      <4>2. Imports!Existing(i) = importRows[n] /\ Imports!Present(Imports!Existing(i))
        BY <2>0, <3>2, <4>1, HousedFacts DEF Imports!Existing
      <4>3. p \in Leaving(o, i, Imports!Operations(o, i))
        BY <3>1, <4>2 DEF Leaving, Imports!Operations
      <4> QED
        BY <4>3
    <3> QED
      BY <3>1, <3>2
  <2> HIDE DEF left, at, row, new, others
  <2>7. \A n \in DOMAIN importRows' :
          /\ importRows'[n].path = <<importRows'[n].issue, Imports!Fmt(importRows'[n].path)>>
          /\ importRows'[n].path \in DOMAIN importDisk'
    BY <2>1, <2>2, <2>3, <2>5 DEF Housed
  <2>8. \A n, m \in DOMAIN importRows' : importRows'[n].issue = importRows'[m].issue => n = m
    BY <2>1, <2>2, <2>3 DEF Housed
  <2>9. \A p \in DOMAIN importDisk' :
          p = Imports!Own(importDisk'[p]) \/ \E n \in DOMAIN importRows' : importRows'[n].path = p
    <3> SUFFICES ASSUME NEW p \in DOMAIN importDisk'
                 PROVE  \/ p = Imports!Own(importDisk'[p])
                        \/ \E n \in DOMAIN importRows' : importRows'[n].path = p
      OBVIOUS
    <3>1. CASE p = at
      BY <2>1, <2>2, <3>1
    <3>2. CASE p # at
      <4>1. p \in left /\ importDisk'[p] = importDisk[p]
        BY <2>1, <3>2
      <4>2. \A n \in others : n \in DOMAIN importRows' /\ importRows'[n].path = importRows[n].path
        BY <2>1
      <4> QED
        BY <2>6, <4>1, <4>2
    <3> QED
      BY <3>1, <3>2
  <2> QED
    BY <2>7, <2>8, <2>9 DEF Housed, Imports!Fmt, Imports!Own
<1>2. CASE ~(\E o \in ImportOffers : Imports!Import(o, Imports!Reconciled(o)))
  <2>1. /\ importRows' = importRows
        /\ DOMAIN importDisk \subseteq DOMAIN importDisk'
        /\ \A p \in DOMAIN importDisk : importDisk'[p] = importDisk[p]
        /\ \A p \in DOMAIN importDisk' \ DOMAIN importDisk : p = Imports!Own(importDisk'[p])
    BY <1>2, QuietSteps
  <2> QED
    BY <2>1 DEF Housed, Imports!Fmt
<1> QED
  BY <1>1, <1>2

\* Without the template a file keeps its name, so that its place tells what it is.
Stems == ~importRegime.rename => \A p \in DOMAIN importDisk : importDisk[p] = p[1]

LEMMA StemsAfter ==
  ASSUME Stems, ~importRegime.rename, NEW o, NEW i,
         NEW ops, ops \subseteq Imports!Operations(o, i)
  PROVE  LET d == Imports!After(o, i, ops) IN
         /\ \A p \in DOMAIN d : d[p] = p[1]
         /\ \A p \in DOMAIN Imports!Conversion(d, o, i) : Imports!Conversion(d, o, i)[p] = p[1]
<1> DEFINE d == Imports!After(o, i, ops)
           to == Imports!Dest(o, i)
           at == Imports!FinalPath(o, i)
<1>1. Rearranged(d, o, i, ops)
  BY PlacedDisk
<1>2. to[1] = o.c /\ at[1] = o.c
  BY DEF Imports!Dest, Imports!Own, Imports!FinalPath
<1>3. \A p \in Arriving(o, i, ops) : p = to
  BY DEF Arriving
<1> HIDE DEF d, to, at
<1>4. \A p \in DOMAIN d : d[p] = p[1]
  BY <1>1, <1>2, <1>3 DEF Rearranged, Stems
<1>5. \A p \in DOMAIN Imports!Conversion(d, o, i) : Imports!Conversion(d, o, i)[p] = p[1]
  BY <1>2, <1>4 DEF Imports!Conversion, Imports!With, Imports!Without, at
<1> QED
  BY <1>4, <1>5 DEF d

LEMMA StemsStep ==
  ASSUME ImportTypes, Stems, [Imports!Next]_importVars
  PROVE  Stems'
<1> SUFFICES ASSUME ~importRegime'.rename PROVE \A p \in DOMAIN importDisk' : importDisk'[p] = p[1]
  BY DEF Stems
<1>1. importRegime' = importRegime
  BY DEF Imports!Next, Imports!Handle, Imports!Drop, Imports!Vanish, Imports!Rescan, importVars
<1>2. ~importRegime.rename /\ \A p \in DOMAIN importDisk : importDisk[p] = p[1]
  BY <1>1 DEF Stems
<1>3. ASSUME NEW o \in ImportOffers, Imports!Handle(o)
      PROVE  \A p \in DOMAIN importDisk' : importDisk'[p] = p[1]
  <2> DEFINE r == Imports!Reconciled(o)
             i == r.issue
  <2>1. CASE Imports!Refuse(o, r) \/ Imports!RefuseReadOnly(o, r)
    BY <1>2, <2>1 DEF Imports!Refuse, Imports!RefuseReadOnly
  <2>2. CASE Imports!Import(o, r)
    <3>1. importDisk' = Imports!Conversion(Imports!After(o, i, Imports!Operations(o, i)), o, i)
      BY <2>2 DEF Imports!Import
    <3> QED
      BY <1>2, <3>1, StemsAfter
  <2>3. ASSUME NEW f, Imports!ImportFails(o, r, f)
        PROVE  \A p \in DOMAIN importDisk' : importDisk'[p] = p[1]
    <3>1. /\ importDisk' = Imports!After(o, i, Imports!Done(o, i, f))
          /\ Imports!Done(o, i, f) \subseteq Imports!Operations(o, i)
      BY <2>3, DoneIsPart DEF Imports!ImportFails
    <3> QED
      BY <1>2, <3>1, StemsAfter
  <2> QED
    BY <1>3, <2>1, <2>2, <2>3 DEF Imports!Handle
<1>4. ASSUME NEW o \in ImportOffers, Imports!Drop(o)
      PROVE  \A p \in DOMAIN importDisk' : importDisk'[p] = p[1]
  BY <1>2, <1>4 DEF Imports!Drop, Imports!With, Imports!Own
<1>5. ASSUME NEW q \in DOMAIN importDisk, Imports!Vanish(q)
      PROVE  \A p \in DOMAIN importDisk' : importDisk'[p] = p[1]
  BY <1>2, <1>5 DEF Imports!Vanish, Imports!Without
<1>6. CASE Imports!Rescan \/ UNCHANGED importVars
  BY <1>2, <1>6 DEF Imports!Rescan, importVars
<1> QED
  BY <1>3, <1>4, <1>5, <1>6 DEF Imports!Next

\* A file the pipeline imports without the template ends in the library.
LEMMA StemsImport ==
  ASSUME ImportTypes, Stems, ~importRegime.rename, importRegime.keep, NEW o \in ImportOffers,
         NEW r, r = Imports!Reconciled(o), Imports!Offered(o), Imports!Import(o, r)
  PROVE  /\ o.c \in Imports!Range(importDisk')
         /\ Imports!Range(importDisk) \subseteq Imports!Range(importDisk') \cup importKept'
<1> DEFINE i == r.issue
           ops == Imports!Operations(o, i)
           d == Imports!After(o, i, ops)
           to == Imports!Dest(o, i)
           at == Imports!FinalPath(o, i)
           e == Imports!Existing(i)
<1>1. to = Imports!Own(o.c) /\ to[1] = o.c /\ at[1] = o.c
  BY DEF Imports!Dest, Imports!Own, Imports!FinalPath
<1>2. Rearranged(d, o, i, ops)
  BY PlacedDisk
<1>3. to \in DOMAIN d /\ d[to] = o.c
  <2>1. CASE "place" \in ops
    BY <1>2, <2>1 DEF Rearranged, Arriving
  <2>2. CASE "place" \notin ops
    <3>1. Imports!InPlace(o) /\ o.kind = "library"
      BY <2>2 DEF Imports!Operations, Imports!InPlace
    <3>2. to \in DOMAIN importDisk /\ \A n \in DOMAIN importRows : importRows[n].path # to
      BY <1>1, <3>1 DEF Imports!Offered
    <3>3. "dispose" \in ops => e.path # to
      <4>1. "dispose" \in ops => Imports!HasFile(i)
        BY ExistingIsRow DEF Imports!Operations
      <4>2. Imports!HasFile(i) => e \in {importRows[n] : n \in DOMAIN importRows}
        BY ExistingIsRow
      <4> QED
        BY <3>2, <4>1, <4>2
    <3>4. Arriving(o, i, ops) = {} /\ to \notin Leaving(o, i, ops)
      BY <2>2, <3>3 DEF Arriving, Leaving
    <3>5. importDisk[to] = o.c
      BY <1>1, <3>2 DEF Stems
    <3> QED
      BY <1>2, <3>2, <3>4, <3>5 DEF Rearranged
  <2> QED
    BY <2>1, <2>2
<1>4. \A p \in DOMAIN d : d[p] = p[1]
  BY StemsAfter
<1>5. \A x \in Imports!Range(importDisk) : x \in Imports!Range(d) \cup Imports!Saved(i, ops)
  <2>1. \A p \in DOMAIN importDisk : p = to => importDisk[p] = o.c
    BY <1>1 DEF Stems
  <2> QED
    BY <1>1, <2>1, FilesAreKept
<1>6. /\ importDisk' = Imports!Conversion(d, o, i)
      /\ importKept' = importKept \cup Imports!Saved(i, ops)
  BY DEF Imports!Import
<1> HIDE DEF d, to, at
<1>7. Turned(importDisk', d, o, i)
  BY <1>3, <1>6, ConvertedDisk DEF to
<1>8. at \in DOMAIN importDisk' /\ importDisk'[at] = o.c
  BY <1>1, <1>4, <1>7 DEF Turned, at
<1>9. \A p \in DOMAIN d : d[p] \in Imports!Range(importDisk')
  <2> SUFFICES ASSUME NEW p \in DOMAIN d PROVE \E q \in DOMAIN importDisk' : importDisk'[q] = d[p]
    BY DEF Imports!Range
  <2>1. CASE p = to
    BY <1>3, <1>8, <2>1
  <2>2. CASE p # to /\ p # at
    BY <1>7, <2>2 DEF Turned, at, to
  <2>3. CASE p # to /\ p = at
    BY <1>7, <1>8, <2>3, <1>1, <1>4
  <2> QED
    BY <2>1, <2>2, <2>3
<1> QED
  BY <1>5, <1>6, <1>8, <1>9 DEF Imports!Range

\* The same for one that is renamed in a library nobody disturbs.
LEMMA QuietImport ==
  ASSUME ImportTypes, Quiet, Housed, importRegime.keep, NEW o \in ImportOffers,
         NEW r, r = Imports!Reconciled(o), Imports!Import(o, r)
  PROVE  /\ o.c \in Imports!Range(importDisk')
         /\ Imports!Range(importDisk) \subseteq Imports!Range(importDisk') \cup importKept'
<1> DEFINE i == r.issue
           ops == Imports!Operations(o, i)
           at == Imports!FinalPath(o, i)
           e == Imports!Existing(i)
<1>1. i \in Imports!Issues /\ Filed(o, i)
  BY HousedImport
<1>2. /\ DOMAIN importDisk' = (DOMAIN importDisk \ Leaving(o, i, ops)) \cup {at}
      /\ \A p \in DOMAIN importDisk' : importDisk'[p] = IF p = at THEN o.c ELSE importDisk[p]
  BY <1>1 DEF Filed
<1>3. o.c \in Imports!Range(importDisk')
  BY <1>2 DEF Imports!Range
<1>4. importKept' = importKept \cup Imports!Saved(i, ops)
  BY DEF Imports!Import
<1>5. /\ Imports!Own(o.c) \in DOMAIN importDisk => importDisk[Imports!Own(o.c)] = o.c
      /\ \A f : <<i, f>> \in DOMAIN importDisk => Imports!Present(e) /\ e.path = <<i, f>>
      /\ at = <<i, Imports!Fmt(at)>>
  BY <1>1, HousedFacts
<1>6. ASSUME NEW p \in DOMAIN importDisk
      PROVE  importDisk[p] \in Imports!Range(importDisk') \cup importKept'
  <2>1. CASE Imports!Present(e) /\ p = e.path
    <3>1. importDisk[p] \in Imports!Saved(i, ops)
      BY <2>1 DEF Imports!Saved, Imports!Operations
    <3> QED
      BY <1>4, <3>1
  <2>2. CASE p = Imports!Own(o.c)
    BY <1>3, <1>5, <2>2
  <2>3. CASE ~(Imports!Present(e) /\ p = e.path) /\ p # Imports!Own(o.c)
    <3>1. p \notin Leaving(o, i, ops)
      BY <2>3 DEF Leaving, Imports!Operations
    <3>2. p # at
      BY <1>5, <2>3
    <3>3. p \in DOMAIN importDisk' /\ importDisk'[p] = importDisk[p]
      BY <1>2, <3>1, <3>2
    <3> QED
      BY <3>3 DEF Imports!Range
  <2> QED
    BY <2>1, <2>2, <2>3
<1> QED
  BY <1>3, <1>6 DEF Imports!Range

Lasting == importRegime.rename => Quiet

LEMMA RegimeStays == [Imports!Next]_importVars => importRegime' = importRegime
  BY DEF Imports!Next, Imports!Handle, Imports!Drop, Imports!Vanish, Imports!Rescan, importVars

LEMMA KeptStep ==
  ASSUME ImportTypes, Quiet => Housed, Stems, Lasting, Imports!LoserKept,
         [Imports!Next]_importVars
  PROVE  Imports!LoserKept'
<1>0. importRegime' = importRegime
  BY RegimeStays
<1> SUFFICES ASSUME importRegime.keep
             PROVE  importKnown' \subseteq Imports!Range(importDisk') \cup importKept' \cup importRemoved'
  BY <1>0 DEF Imports!LoserKept, Imports!Range
<1> DEFINE held == Imports!Range(importDisk) \cup importKept \cup importRemoved
           holds == Imports!Range(importDisk') \cup importKept' \cup importRemoved'
<1>1. importKnown \subseteq held
  BY DEF Imports!LoserKept
<1>2. ASSUME NEW o \in ImportOffers, Imports!Handle(o), Imports!Import(o, Imports!Reconciled(o))
      PROVE  importKnown' \subseteq holds
  <2>1. /\ o.c \in Imports!Range(importDisk')
        /\ Imports!Range(importDisk) \subseteq Imports!Range(importDisk') \cup importKept'
    <3>1. CASE importRegime.rename
      BY <1>2, <3>1, QuietImport DEF Lasting
    <3>2. CASE ~importRegime.rename
      BY <1>2, <3>2, StemsImport DEF Imports!Handle
    <3> QED
      BY <3>1, <3>2
  <2>2. /\ importKept \subseteq importKept' /\ importRemoved' = importRemoved
        /\ importKnown' = importKnown \cup {o.c}
    BY <1>2 DEF Imports!Import, Imports!Handle
  <2> QED
    BY <1>1, <2>1, <2>2
<1>3. ASSUME Quiet, ~(\E o \in ImportOffers : Imports!Import(o, Imports!Reconciled(o)))
      PROVE  importKnown' \subseteq holds
  <2>1. /\ UNCHANGED <<importKept, importKnown, importRemoved>>
        /\ DOMAIN importDisk \subseteq DOMAIN importDisk'
        /\ \A p \in DOMAIN importDisk : importDisk'[p] = importDisk[p]
    BY <1>3, QuietSteps
  <2>2. Imports!Range(importDisk) \subseteq Imports!Range(importDisk')
    BY <2>1 DEF Imports!Range
  <2> QED
    BY <1>1, <2>1, <2>2
<1>4. ASSUME ~importRegime.rename, NEW o \in ImportOffers, NEW r, r = Imports!Reconciled(o),
             NEW f, Imports!ImportFails(o, r, f), importRemoved' = importRemoved
      PROVE  importKnown' \subseteq holds
  <2> DEFINE done == Imports!Done(o, r.issue, f)
  <2>1. /\ importDisk' = Imports!After(o, r.issue, done)
        /\ importKept' = importKept \cup Imports!Saved(r.issue, done)
        /\ importKnown' = importKnown /\ done \subseteq Imports!Operations(o, r.issue)
    BY <1>4, DoneIsPart DEF Imports!ImportFails
  <2>2. Imports!Dest(o, r.issue) = Imports!Own(o.c) /\ Imports!Own(o.c)[1] = o.c
    BY <1>4 DEF Imports!Dest, Imports!Own
  <2>3. \A p \in DOMAIN importDisk : p = Imports!Own(o.c) => importDisk[p] = o.c
    BY <1>4, <2>2 DEF Stems
  <2> HIDE DEF done
  <2>4. \A x \in Imports!Range(importDisk) :
          x \in Imports!Range(importDisk') \cup Imports!Saved(r.issue, done)
    BY <2>1, <2>2, <2>3, FilesAreKept
  <2> QED
    BY <1>1, <1>4, <2>1, <2>4
<1>5. ASSUME ~importRegime.rename, NEW o \in ImportOffers, Imports!Handle(o),
             ~Imports!Import(o, Imports!Reconciled(o))
      PROVE  importKnown' \subseteq holds
  <2> DEFINE r == Imports!Reconciled(o)
  <2>1. importRemoved' = importRemoved
    BY <1>5 DEF Imports!Handle
  <2>2. CASE Imports!Refuse(o, r) \/ Imports!RefuseReadOnly(o, r)
    <3>1. UNCHANGED <<importDisk, importKept, importKnown>>
      BY <2>2 DEF Imports!Refuse, Imports!RefuseReadOnly
    <3> QED
      BY <1>1, <2>1, <3>1 DEF Imports!Range
  <2>3. CASE \E f \in Imports!Troubles(o, r.issue) : Imports!ImportFails(o, r, f)
    BY <1>4, <1>5, <2>1, <2>3
  <2> QED
    BY <1>5, <2>2, <2>3 DEF Imports!Handle
<1>6. ASSUME NEW o \in ImportOffers, Imports!Drop(o) PROVE importKnown' \subseteq holds
  <2>1. Imports!Range(importDisk) \subseteq Imports!Range(importDisk')
    BY <1>6 DEF Imports!Drop, Imports!With, Imports!Range
  <2> QED
    BY <1>1, <1>6, <2>1 DEF Imports!Drop
<1>7. ASSUME NEW p \in DOMAIN importDisk, Imports!Vanish(p) PROVE importKnown' \subseteq holds
  <2>1. Imports!Range(importDisk) \subseteq Imports!Range(importDisk') \cup {importDisk[p]}
    BY <1>7 DEF Imports!Vanish, Imports!Without, Imports!Range
  <2> QED
    BY <1>1, <1>7, <2>1 DEF Imports!Vanish
<1>8. CASE Imports!Rescan \/ UNCHANGED importVars
  <2>1. UNCHANGED <<importDisk, importKept, importKnown, importRemoved>>
    BY <1>8 DEF Imports!Rescan, importVars
  <2> QED
    BY <1>1, <2>1 DEF Imports!Range
<1>9. CASE Quiet
  <2>1. ASSUME NEW o \in ImportOffers, Imports!Import(o, Imports!Reconciled(o))
        PROVE  importKnown' \subseteq holds
    <3>1. o.c \in Imports!Range(importDisk')
          /\ Imports!Range(importDisk) \subseteq Imports!Range(importDisk') \cup importKept'
      BY <1>9, <2>1, QuietImport
    <3>2. importKept \subseteq importKept' /\ importKnown' = importKnown \cup {o.c}
      BY <2>1 DEF Imports!Import
    <3>3. importRemoved \subseteq importRemoved'
      BY DEF Imports!Next, Imports!Handle, Imports!Drop, Imports!Vanish, Imports!Rescan, importVars
    <3> QED
      BY <1>1, <3>1, <3>2, <3>3
  <2> QED
    BY <1>3, <1>9, <2>1
<1>10. CASE ~importRegime.rename
  BY <1>2, <1>5, <1>6, <1>7, <1>8, <1>10 DEF Imports!Next
<1> QED
  BY <1>9, <1>10 DEF Lasting

(* With a recycle bin, no file the library ever had is destroyed by an      *)
(* import: without the template whatever fails and whoever takes files      *)
(* away, with it as long as no operation fails half-way and nobody does.    *)
THEOREM SupersededIsKept == Spec => [](Lasting => LoserKept)
<1> DEFINE Inv == ImportTypes /\ (Quiet => Housed) /\ Stems /\ (Lasting => Imports!LoserKept)
<1>1. Init => Inv
  <2> SUFFICES ASSUME Imports!Init PROVE Inv
    BY DEF Init
  <2>1. ImportTypes
    BY ImportInit
  <2>2. DOMAIN importRows = {} /\ DOMAIN importDisk = {} /\ importKnown = {}
    BY DEF Imports!Init
  <2> QED
    BY <2>1, <2>2 DEF Housed, Stems, Imports!LoserKept
<1>2. Inv /\ [Next]_vars => Inv'
  <2> SUFFICES ASSUME Inv, [Imports!Next]_importVars PROVE Inv'
    BY OneActs
  <2>1. ImportTypes' /\ Stems'
    BY ImportTypeStep, StemsStep
  <2>2. importRegime' = importRegime
    BY RegimeStays
  <2>3. (Quiet' <=> Quiet) /\ (Lasting' <=> Lasting)
    BY <2>2 DEF Quiet, Lasting
  <2>4. Quiet => Housed'
    BY HousedStep
  <2>5. Lasting => Imports!LoserKept'
    BY KeptStep
  <2> QED
    BY <2>1, <2>3, <2>4, <2>5
<1>3. Inv => (Lasting => LoserKept)
  BY DEF LoserKept
<1> QED
  BY <1>1, <1>2, <1>3, PTL DEF Spec

\* A file that is converted does not lose by it.
Uphill == importRegime.convert => Imports!Rank("cbr") <= Imports!Rank("cbz")

\* Then an issue's row is never below its file, and above each file its files superseded.
Settled ==
  /\ \A n \in DOMAIN importRows :
       AtLeast(Standing(importRows[n]), Merit(importDisk[importRows[n].path]))
  /\ \A b \in importBeaten :
       /\ b[2] \in DOMAIN Attr
       /\ \E n \in DOMAIN importRows : /\ importRows[n].issue = b[1]
                                       /\ Beats(Standing(importRows[n]), Merit(b[2]))
  /\ \A n \in DOMAIN importRows :
       <<importRows[n].issue, importDisk[importRows[n].path]>> \notin importBeaten

\* The file that comes beats the one it supersedes and every one that did before.
LEMMA NewcomerBeats ==
  ASSUME ImportTypes, Quiet, Uphill, Housed, Settled, NEW o \in ImportOffers,
         NEW r, r = Imports!Reconciled(o), Imports!Import(o, r)
  PROVE  LET i == r.issue
             row == Imports!NewRow(o, i) IN
         /\ AtLeast(Standing(row), Merit(o.c))
         /\ \A b \in importBeaten' : b[1] = i =>
              /\ b[2] \in DOMAIN Attr /\ Beats(Standing(row), Merit(b[2])) /\ b[2] # o.c
<1> DEFINE i == r.issue
           row == Imports!NewRow(o, i)
           e == Imports!Existing(i)
           old == importDisk[e.path]
<1>0. i \in Imports!Issues /\ o.c \in DOMAIN Attr /\ Imports!Approved(o, r)
  BY ResolvedIsIssue, OfferFacts DEF Imports!Import
<1>1. AtLeast(Standing(row), Merit(o.c))
  <2>1. row = [issue |-> i, path |-> Imports!FinalPath(o, i), size |-> Attr[o.c].size,
               fix |-> Attr[o.c].fix]
    BY DEF Imports!NewRow
  <2>2. Imports!Rank(Imports!Fmt(Imports!FinalPath(o, i))) >= Imports!Rank(Attr[o.c].fmt)
    <3>1. CASE Imports!Converts(o)
      <4>1. Imports!Fmt(Imports!FinalPath(o, i)) = "cbz" /\ Attr[o.c].fmt = "cbr"
        BY <3>1 DEF Imports!Converts, Imports!FinalPath, Imports!Fmt
      <4>2. Imports!Rank("cbr") <= Imports!Rank("cbz")
        BY <3>1 DEF Imports!Converts, Uphill
      <4> QED
        BY <4>1, <4>2, RanksAreNumbers
    <3>2. CASE ~Imports!Converts(o)
      <4>1. Imports!Fmt(Imports!FinalPath(o, i)) = Attr[o.c].fmt
        BY <3>2 DEF Imports!FinalPath, Imports!Fmt, Imports!Dest, Imports!Own
      <4> QED
        BY <4>1, RanksAreNumbers
    <3> QED
      BY <3>1, <3>2
  <2> QED
    BY <2>1, <2>2 DEF AtLeast, Standing, Merit
<1>2. Standing(row) \in Scores /\ Merit(o.c) \in Scores
  <2>1. row.size \in Nat /\ row.fix \in Nat
    BY <1>0, OfferFacts DEF Imports!NewRow
  <2> QED
    BY <1>0, <2>1, ScoresAreTyped, RanksAreNumbers DEF Standing, Scores
<1>3. Imports!HasFile(i) =>
        /\ e.path \in DOMAIN importDisk /\ old \in DOMAIN Attr
        /\ Standing(e) \in Scores /\ Merit(old) \in Scores
        /\ AtLeast(Standing(e), Merit(old)) /\ Beats(Merit(o.c), Standing(e))
        /\ \E n \in DOMAIN importRows : e = importRows[n] /\ importRows[n].issue = i
  <2> SUFFICES ASSUME Imports!HasFile(i)
               PROVE  /\ e.path \in DOMAIN importDisk /\ old \in DOMAIN Attr
                      /\ Standing(e) \in Scores /\ Merit(old) \in Scores
                      /\ AtLeast(Standing(e), Merit(old)) /\ Beats(Merit(o.c), Standing(e))
                      /\ \E n \in DOMAIN importRows : e = importRows[n] /\ importRows[n].issue = i
    OBVIOUS
  <2>1. PICK n \in DOMAIN importRows : e = importRows[n] /\ importRows[n].issue = i
    BY ExistingIsRow
  <2>2. Beats(Merit(o.c), Standing(e))
    BY <1>0, ApprovedBeats
  <2>3. e.path \in DOMAIN importDisk /\ old \in DOMAIN Attr
    BY <2>1 DEF Housed, ImportTypes
  <2>4. AtLeast(Standing(e), Merit(old))
    BY <2>1 DEF Settled
  <2> QED
    BY <2>1, <2>2, <2>3, <2>4, ScoresAreTyped
<1> HIDE DEF row, e
<1>4. ASSUME NEW b \in importBeaten, b[1] = i
      PROVE  b[2] \in DOMAIN Attr /\ Beats(Standing(row), Merit(b[2])) /\ b[2] # o.c
  <2>1. PICK n \in DOMAIN importRows : /\ importRows[n].issue = i
                                       /\ Beats(Standing(importRows[n]), Merit(b[2]))
    BY <1>4 DEF Settled
  <2>2. b[2] \in DOMAIN Attr /\ Merit(b[2]) \in Scores
    BY ScoresAreTyped DEF Settled
  <2>3. Imports!HasFile(i)
    BY <2>1 DEF Imports!HasFile, Imports!RowsOf
  <2>4. e = importRows[n]
    BY <1>3, <2>1, <2>3 DEF Housed
  <2>5. Beats(Merit(o.c), Merit(b[2]))
    BY <1>2, <1>3, <2>1, <2>2, <2>3, <2>4, BeatsIsAnOrder
  <2>6. Beats(Standing(row), Merit(b[2]))
    BY <1>1, <1>2, <2>2, <2>5, BeatsIsAnOrder
  <2>7. b[2] # o.c
    BY <1>2, <2>5, BeatsIsAnOrder
  <2> QED
    BY <2>2, <2>6, <2>7
<1>5. Imports!Present(e) =>
        old \in DOMAIN Attr /\ Beats(Standing(row), Merit(old)) /\ old # o.c
  <2> SUFFICES ASSUME Imports!Present(e)
               PROVE  old \in DOMAIN Attr /\ Beats(Standing(row), Merit(old)) /\ old # o.c
    OBVIOUS
  <2>1. Imports!HasFile(i)
    BY <1>0, HousedFacts DEF e
  <2> HIDE DEF old
  <2>2. Beats(Merit(o.c), Merit(old))
    BY <1>2, <1>3, <2>1, BeatsIsAnOrder
  <2>3. Beats(Standing(row), Merit(old))
    BY <1>1, <1>2, <1>3, <2>1, <2>2, BeatsIsAnOrder
  <2>4. old # o.c
    BY <1>2, <2>2, BeatsIsAnOrder
  <2> QED
    BY <1>3, <2>1, <2>3, <2>4
<1>6. importBeaten' = IF Imports!Present(e) THEN importBeaten \cup {<<i, old>>} ELSE importBeaten
  BY DEF Imports!Import, e
<1> HIDE DEF old, i
<1>7. \A b \in importBeaten' : b[1] = i =>
        b[2] \in DOMAIN Attr /\ Beats(Standing(row), Merit(b[2])) /\ b[2] # o.c
  BY <1>4, <1>5, <1>6
<1> QED
  BY <1>1, <1>7 DEF row, i

LEMMA SettledStep ==
  ASSUME ImportTypes, Quiet, Uphill, Housed, Settled, [Imports!Next]_importVars
  PROVE  Settled'
<1>0. importRegime' = importRegime
  BY RegimeStays
<1>a. \A x, y : Beats(x, y)' <=> Beats(x, y)
  BY <1>0 DEF Beats
<1>1. ASSUME NEW o \in ImportOffers, Imports!Import(o, Imports!Reconciled(o)) PROVE Settled'
  <2> DEFINE r == Imports!Reconciled(o)
             i == r.issue
             at == Imports!FinalPath(o, i)
             left == DOMAIN importDisk \ Leaving(o, i, Imports!Operations(o, i))
             new == Imports!NewId(Imports!RowsLeft(o, i))
             others == DOMAIN importRows \ Imports!RowsOf(i)
             row == Imports!NewRow(o, i)
  <2>0. i \in Imports!Issues /\ Filed(o, i)
    BY <1>1, HousedImport
  <2>1. /\ DOMAIN importDisk' = left \cup {at}
        /\ \A p \in DOMAIN importDisk' : importDisk'[p] = IF p = at THEN o.c ELSE importDisk[p]
        /\ DOMAIN importRows' = others \cup {new} /\ new \notin others
        /\ \A n \in DOMAIN importRows' : importRows'[n] = IF n = new THEN row ELSE importRows[n]
    BY <2>0 DEF Filed
  <2>2. row.issue = i /\ row.path = at /\ at[1] = i
    <3>1. at = <<i, Imports!Fmt(at)>>
      BY <2>0, HousedFacts
    <3>2. row.issue = i /\ row.path = at
      BY DEF Imports!NewRow
    <3> HIDE DEF at, row, i
    <3> QED
      BY <3>1, <3>2
  <2>3. /\ AtLeast(Standing(row), Merit(o.c))
        /\ \A b \in importBeaten' : b[1] = i =>
             b[2] \in DOMAIN Attr /\ Beats(Standing(row), Merit(b[2])) /\ b[2] # o.c
    BY <1>1, NewcomerBeats
  <2>4. \A b \in importBeaten' : b[1] # i => b \in importBeaten
    BY <1>1 DEF Imports!Import
  <2>5. \A n \in others :
          /\ n \in DOMAIN importRows /\ importRows[n].issue # i
          /\ importRows[n].path # at /\ importRows[n].path \in DOMAIN importDisk'
    <3>1. \A n \in others : n \in DOMAIN importRows /\ importRows[n].issue # i
      BY DEF Imports!RowsOf
    <3>2. \A n \in others : importRows[n].path[1] = importRows[n].issue
      BY DEF Housed
    <3>3. \A n \in others : n \in DOMAIN importRows'
      BY <2>1
    <3>4. Housed'
      BY HousedStep
    <3>5. \A n \in others : importRows'[n] = importRows[n]
      BY <2>1
    <3>6. \A n \in DOMAIN importRows' : importRows'[n].path \in DOMAIN importDisk'
      BY <3>4 DEF Housed
    <3> QED
      BY <2>2, <3>1, <3>2, <3>3, <3>5, <3>6
  <2> HIDE DEF left, at, row, new, others, i
  <2>6. at \in DOMAIN importDisk' /\ importDisk'[at] = o.c
    BY <2>1
  <2>7. \A n \in others : importDisk'[importRows[n].path] = importDisk[importRows[n].path]
    BY <2>1, <2>5
  <2>8. \A n \in DOMAIN importRows' :
          AtLeast(Standing(importRows'[n]), Merit(importDisk'[importRows'[n].path]))
    BY <2>1, <2>2, <2>3, <2>5, <2>6, <2>7 DEF Settled
  <2>9. \A b \in importBeaten' :
          /\ b[2] \in DOMAIN Attr
          /\ \E n \in DOMAIN importRows' : /\ importRows'[n].issue = b[1]
                                           /\ Beats(Standing(importRows'[n]), Merit(b[2]))
    <3> SUFFICES ASSUME NEW b \in importBeaten'
                 PROVE  /\ b[2] \in DOMAIN Attr
                        /\ \E n \in DOMAIN importRows' : /\ importRows'[n].issue = b[1]
                                                         /\ Beats(Standing(importRows'[n]), Merit(b[2]))
      OBVIOUS
    <3>1. CASE b[1] = i
      <4>1. new \in DOMAIN importRows' /\ importRows'[new] = row
        BY <2>1
      <4> QED
        BY <2>2, <2>3, <3>1, <4>1
    <3>2. CASE b[1] # i
      <4>1. b \in importBeaten
        BY <2>4, <3>2
      <4>2. b[2] \in DOMAIN Attr
        BY <4>1 DEF Settled
      <4>3. PICK n \in DOMAIN importRows : /\ importRows[n].issue = b[1]
                                           /\ Beats(Standing(importRows[n]), Merit(b[2]))
        BY <4>1 DEF Settled
      <4>4. n \in others
        BY <3>2, <4>3 DEF others, Imports!RowsOf
      <4>5. n \in DOMAIN importRows' /\ importRows'[n] = importRows[n]
        BY <2>1, <4>4
      <4> QED
        BY <4>2, <4>3, <4>5
    <3> QED
      BY <3>1, <3>2
  <2>10. \A n \in DOMAIN importRows' :
           <<importRows'[n].issue, importDisk'[importRows'[n].path]>> \notin importBeaten'
    <3>1. <<i, o.c>> \notin importBeaten'
      BY <2>3
    <3>2. \A n \in others : <<importRows[n].issue, importDisk[importRows[n].path]>> \notin importBeaten'
      BY <2>4, <2>5 DEF Settled
    <3> QED
      BY <2>1, <2>2, <2>5, <2>6, <2>7, <3>1, <3>2
  <2> QED
    BY <1>a, <2>8, <2>9, <2>10 DEF Settled, AtLeast, Standing, Merit, Imports!Rank, Imports!Fmt
<1>2. CASE ~(\E o \in ImportOffers : Imports!Import(o, Imports!Reconciled(o)))
  <2>1. /\ importRows' = importRows /\ importBeaten' = importBeaten
        /\ \A p \in DOMAIN importDisk : importDisk'[p] = importDisk[p]
    BY <1>2, QuietSteps
  <2>2. \A n \in DOMAIN importRows : importDisk'[importRows[n].path] = importDisk[importRows[n].path]
    BY <2>1 DEF Housed
  <2>4. \A n \in DOMAIN importRows' :
          AtLeast(Standing(importRows'[n]), Merit(importDisk'[importRows'[n].path]))
    BY <2>1, <2>2 DEF Settled
  <2>5. \A b \in importBeaten' :
          /\ b[2] \in DOMAIN Attr
          /\ \E n \in DOMAIN importRows' : /\ importRows'[n].issue = b[1]
                                           /\ Beats(Standing(importRows'[n]), Merit(b[2]))
    BY <2>1 DEF Settled
  <2>6. \A n \in DOMAIN importRows' :
          <<importRows'[n].issue, importDisk'[importRows'[n].path]>> \notin importBeaten'
    BY <2>1, <2>2 DEF Settled
  <2> QED
    BY <1>a, <2>4, <2>5, <2>6 DEF Settled, AtLeast, Standing, Merit, Imports!Rank, Imports!Fmt
<1> QED
  BY <1>1, <1>2

(* Offering files again and again settles: the file an issue has never lost *)
(* to another one for it, whatever is offered, in whatever order and how    *)
(* often, in a library of renamed files that nobody disturbs and whose      *)
(* format profile puts a CBZ no lower than the CBR it is made from.         *)
THEOREM OffersSettle == Spec => [](Quiet /\ Uphill => UpgradesSettle)
<1> DEFINE Inv == /\ ImportTypes /\ Stems
                  /\ Quiet => Housed /\ Imports!LoserKept
                  /\ Quiet /\ Uphill => Settled
<1>1. Init => Inv
  <2> SUFFICES ASSUME Imports!Init PROVE Inv
    BY DEF Init
  <2>1. ImportTypes
    BY ImportInit
  <2>2. DOMAIN importRows = {} /\ DOMAIN importDisk = {} /\ importKnown = {} /\ importBeaten = {}
    BY DEF Imports!Init
  <2> QED
    BY <2>1, <2>2 DEF Housed, Stems, Imports!LoserKept, Settled
<1>2. Inv /\ [Next]_vars => Inv'
  <2> SUFFICES ASSUME Inv, [Imports!Next]_importVars PROVE Inv'
    BY OneActs
  <2>1. ImportTypes' /\ Stems'
    BY ImportTypeStep, StemsStep
  <2>2. importRegime' = importRegime
    BY RegimeStays
  <2>3. (Quiet' <=> Quiet) /\ (Uphill' <=> Uphill)
    BY <2>2 DEF Quiet, Uphill, Imports!Rank
  <2>4. Quiet => Housed' /\ Imports!LoserKept'
    BY HousedStep, KeptStep DEF Lasting
  <2>5. Quiet /\ Uphill => Settled'
    BY SettledStep
  <2> QED
    BY <2>1, <2>3, <2>4, <2>5
<1>3. Inv => (Quiet /\ Uphill => UpgradesSettle)
  <2> SUFFICES ASSUME Inv, Quiet, Uphill PROVE Imports!TypeOK /\ Imports!LoserKept /\ Imports!NoThrash
    BY DEF UpgradesSettle
  <2>1. Imports!TypeOK
    BY DEF ImportTypes, Imports!TypeOK
  <2>2. Imports!NoThrash
    BY DEF Imports!NoThrash, Settled
  <2> QED
    BY <2>1, <2>2
<1> QED
  BY <1>1, <1>2, <1>3, PTL DEF Spec



(***************************************************************************)
(* The catalogue: what refreshes, scans, edits and deletions may do to it. *)
(***************************************************************************)
RowTypes ==
  /\ catSeries \in [DOMAIN catSeries -> Catalog!SeriesRow] /\ DOMAIN catSeries \subseteq Ids
  /\ catIssue \in [DOMAIN catIssue -> Catalog!IssueRow] /\ DOMAIN catIssue \subseteq Listed
  /\ \A i \in DOMAIN catIssue : catIssue[i].s \in DOMAIN catSeries
  /\ catCv.of \in [Listed -> Catalog!Volumes \cup {Nobody}]
  /\ catCv.date \in [Catalog!Volumes -> Nat]
  /\ catRegime \in CatalogueRegimes

People == /\ catCreator \in [DOMAIN catCreator -> Catalog!Person]
          /\ DOMAIN catCreator \subseteq Catalog!People

Places == {"idle", "read", "walk", "commit", "chain", "register", "scanned", "fan"}
Working(j) ==
  j \in [at : Places, cmd : {j.cmd}, vol : {j.vol}, short : BOOLEAN, stamp : {j.stamp},
         date : Nat, page : SUBSET Listed, whole : BOOLEAN, known : {j.known},
         fetched : {j.fetched}, sweep : {j.sweep}, todo : {j.todo}]
JobTypes == catJob = [w \in Workers |-> catJob[w]] /\ \A w \in Workers : Working(catJob[w])

\* A queued command is not running; the import's refresh and no command at all
\* are never queued.
Queued == \A c \in catQueue :
            c.name \notin {"none", "import"} /\ \A w \in Workers : catJob[w].cmd # c

\* Every group has a member, and every member its group.
Franchised ==
  /\ catGroup \subseteq {Key[v] : v \in Catalog!Volumes} \ {Nobody}
  /\ \A s \in DOMAIN catSeries : catSeries[s].group \in catGroup \cup {Nobody}
  /\ \A g \in catGroup : \E s \in DOMAIN catSeries : catSeries[s].group = g

\* The options of an add are waiting only while the series has no issue, and
\* for a browse-only series they ask for none.
Browsed ==
  /\ \A s \in DOMAIN catSeries : catSeries[s].ro =>
       ~catSeries[s].monitored /\ ~catSeries[s].auto /\ catSeries[s].options.strategy = "none"
  /\ \A i \in DOMAIN catIssue :
       /\ catSeries[catIssue[i].s].ro => ~catIssue[i].mon
       /\ ~catSeries[catIssue[i].s].options.pending

Lists(v, S) == \A i \in Listed : catCv.of[i] = v => i \in S
Dated ==
  \A s \in DOMAIN catSeries :
    /\ catSeries[s].date <= catCv.date[catSeries[s].vol]
    /\ catSeries[s].date # 0 /\ catSeries[s].date = catCv.date[catSeries[s].vol]
         => Lists(catSeries[s].vol, Catalog!Of(s))

\* A refresh that has read its volume holds a date of it, and the pages of a
\* whole walk are what ComicVine lists unless it has changed the date since.
Walking ==
  \A w \in Workers : catJob[w].at \in {"walk", "commit"} =>
    /\ catJob[w].vol \in Catalog!Volumes /\ catJob[w].date <= catCv.date[catJob[w].vol]
    /\ catJob[w].cmd.s \in DOMAIN catSeries => catSeries[catJob[w].cmd.s].vol = catJob[w].vol
    /\ (/\ catJob[w].at = "commit" /\ ~catJob[w].short /\ catJob[w].whole
        /\ catJob[w].date = catCv.date[catJob[w].vol])
       => Lists(catJob[w].vol, catJob[w].page)

CatInv == RowTypes /\ People /\ JobTypes /\ Queued /\ Franchised /\ Browsed /\ Dated /\ Walking

LEMMA CatalogFacts ==
  /\ IsFiniteSet(Ids) /\ Ids = 1..Cardinality(Ids)
  /\ \A S : Catalog!Cardinality(S) = Cardinality(S)
<1>1. \A S : Catalog!Cardinality(S) = Cardinality(S)
  BY DEF Cardinality, Catalog!Cardinality
<1>2. \A S : Catalog!IsFiniteSet(S) = IsFiniteSet(S)
  BY DEF IsFiniteSet, Catalog!IsFiniteSet
<1> QED
  BY <1>1, <1>2, LibraryAssumption DEF Catalog!CatalogueAssumption

\* The id given to a new series is not in use.
LEMMA NewIdIsFree == ASSUME RowTypes PROVE Catalog!NewId \notin DOMAIN catSeries
<1> DEFINE N == Cardinality(Ids)
           below == {n \in Ids : \E s \in Catalog!Rows : s >= n}
           k == Cardinality(below)
<1>1. IsFiniteSet(Ids) /\ Ids = 1..N /\ N \in Nat
  BY CatalogFacts, FS_CardinalityType
<1>2. IsFiniteSet(below) /\ k \in Nat
  BY <1>1, FS_Subset, FS_CardinalityType
<1>3. Catalog!NewId = k + 1
  BY <1>2, CatalogFacts DEF Catalog!NewId
<1>4. ASSUME k + 1 \in DOMAIN catSeries PROVE FALSE
  <2>1. k + 1 \in 1..N
    BY <1>1, <1>4 DEF RowTypes
  <2>2. 1..(k + 1) \subseteq below
    <3> SUFFICES ASSUME NEW n \in 1..(k + 1) PROVE n \in below
      OBVIOUS
    <3> HIDE DEF k
    <3>1. n \in 1..N /\ k + 1 >= n
      BY <1>1, <1>2, <2>1
    <3> QED
      BY <1>1, <1>4, <3>1 DEF Catalog!Rows
  <2> HIDE DEF below
  <2>3. Cardinality(1..(k + 1)) <= k
    BY <1>2, <2>2, FS_Subset
  <2> HIDE DEF k
  <2>4. Cardinality(1..(k + 1)) = k + 1
    BY <1>2, FS_Interval
  <2> QED
    BY <1>2, <2>3, <2>4
<1> QED
  BY <1>3, <1>4

(***************************************************************************)
(* What the transaction of a refresh writes.                               *)
(***************************************************************************)
LEMMA Reconciles ==
  ASSUME RowTypes, NEW j, Working(j), j.cmd.s \in DOMAIN catSeries, ~Catalog!Moved(j),
         NEW rows, rows = Catalog!Reconciled(j, Catalog!Vanished(j))
  PROVE  /\ rows \in [DOMAIN rows -> Catalog!IssueRow]
         /\ DOMAIN rows \subseteq DOMAIN catIssue \cup j.page
         /\ \A i \in DOMAIN rows \cap DOMAIN catIssue : rows[i] = catIssue[i]
         /\ \A i \in DOMAIN rows \ DOMAIN catIssue :
              rows[i].s = j.cmd.s /\ rows[i].mon = catSeries[j.cmd.s].auto
         /\ \A i \in DOMAIN catIssue \ DOMAIN rows : catIssue[i].s = j.cmd.s /\ ~catIssue[i].file
         /\ ~j.short => \A i \in j.page : i \in DOMAIN rows /\ rows[i].s = j.cmd.s
         /\ j.short => rows = catIssue
<1> DEFINE s == j.cmd.s
           gone == Catalog!Vanished(j)
           new == [s |-> s, mon |-> catSeries[s].auto, file |-> FALSE, credited |-> FALSE]
           kept == (DOMAIN catIssue \cup j.page) \ gone
           row(i) == IF i \in DOMAIN catIssue THEN catIssue[i] ELSE new
<1>1. gone \subseteq {i \in DOMAIN catIssue : catIssue[i].s = s /\ ~catIssue[i].file} \ j.page
  BY DEF Catalog!Vanished, Catalog!Unlisted, Catalog!Of
<1>2. catSeries[s].auto \in BOOLEAN /\ s \in Ids
  BY DEF RowTypes, Catalog!SeriesRow
<1>3. new \in Catalog!IssueRow /\ new.s = s /\ new.mon = catSeries[s].auto
  BY <1>2 DEF Catalog!IssueRow
<1>4. \A i \in DOMAIN catIssue : catIssue[i] \in Catalog!IssueRow
  BY DEF RowTypes
<1>5. CASE j.short
  BY <1>4, <1>5 DEF Catalog!Reconciled, RowTypes
<1>6. CASE ~j.short
  <2>1. rows = [i \in kept |-> row(i)]
    BY <1>6 DEF Catalog!Reconciled
  <2>2. \A i \in j.page : i \in DOMAIN catIssue => catIssue[i].s = s
    BY <1>6 DEF Catalog!Moved
  <2> HIDE DEF s, gone, new
  <2>3. \A i \in kept : row(i) \in Catalog!IssueRow
    BY <1>3, <1>4
  <2> QED
    BY <1>1, <1>3, <1>6, <2>1, <2>2, <2>3 DEF s
<1>7. j.short \in BOOLEAN
  BY DEF Working
<1> QED
  BY <1>5, <1>6, <1>7

LEMMA Credits ==
  ASSUME NEW D, NEW rows \in [D -> Catalog!IssueRow], NEW j
  PROVE  /\ Catalog!Credited(rows, j) \in [D -> Catalog!IssueRow]
         /\ \A i \in D : /\ Catalog!Credited(rows, j)[i].s = rows[i].s
                         /\ Catalog!Credited(rows, j)[i].file = rows[i].file
                         /\ Catalog!Credited(rows, j)[i].mon = rows[i].mon
<1> DEFINE new(i) == IF i \in j.fetched /\ rows[i].s = j.cmd.s
                     THEN [rows[i] EXCEPT !.credited = TRUE] ELSE rows[i]
<1>1. \A i \in D : new(i) \in Catalog!IssueRow /\ new(i).s = rows[i].s
                   /\ new(i).file = rows[i].file /\ new(i).mon = rows[i].mon
  BY DEF Catalog!IssueRow
<1>2. Catalog!Credited(rows, j) = [i \in D |-> new(i)]
  BY DEF Catalog!Credited
<1> HIDE DEF new
<1> QED
  BY <1>1, <1>2

LEMMA Applies ==
  ASSUME RowTypes, NEW s \in DOMAIN catSeries, NEW D, NEW rows \in [D -> Catalog!IssueRow]
  PROVE  /\ Catalog!Applied(rows, s) \in [D -> Catalog!IssueRow]
         /\ \A i \in D :
              /\ Catalog!Applied(rows, s)[i].s = rows[i].s
              /\ Catalog!Applied(rows, s)[i].file = rows[i].file
              /\ rows[i].s # s \/ ~catSeries[s].options.pending
                   => Catalog!Applied(rows, s)[i].mon = rows[i].mon
              /\ (/\ rows[i].s = s /\ catSeries[s].options.pending
                  /\ catSeries[s].options.strategy = "none")
                 => ~Catalog!Applied(rows, s)[i].mon
<1> DEFINE opt == catSeries[s].options
           want(i) == Catalog!Wanted(opt.strategy, rows, s, i)
           new(i) == IF rows[i].s # s THEN rows[i] ELSE [rows[i] EXCEPT !.mon = want(i)]
<1>1. opt.strategy \in Catalog!Strategies /\ opt.pending \in BOOLEAN
  BY DEF RowTypes, Catalog!SeriesRow
<1>2. \A i \in D : rows[i].file \in BOOLEAN
  BY DEF Catalog!IssueRow
<1>3. \A i \in D : want(i) \in BOOLEAN /\ (opt.strategy = "none" => ~want(i))
  BY <1>1, <1>2 DEF Catalog!Wanted, Catalog!Strategies
<1> HIDE DEF want
<1>4. \A i \in D : /\ new(i) \in Catalog!IssueRow /\ new(i).s = rows[i].s
                   /\ new(i).file = rows[i].file
                   /\ new(i).mon = IF rows[i].s # s THEN rows[i].mon ELSE want(i)
  BY <1>3 DEF Catalog!IssueRow
<1>5. Catalog!Applied(rows, s) = IF ~opt.pending THEN rows ELSE [i \in D |-> new(i)]
  BY DEF Catalog!Applied, want
<1> HIDE DEF new, opt
<1>6. CASE opt.pending
  BY <1>3, <1>4, <1>5, <1>6 DEF opt
<1>7. CASE ~opt.pending
  BY <1>5, <1>7 DEF opt
<1> QED
  BY <1>6, <1>7

\* The row of the series after a refresh.
LEMMA Settles ==
  ASSUME RowTypes, NEW j, Working(j), NEW s \in DOMAIN catSeries, NEW new,
         new = Catalog!Grouped(Catalog!Consumed(Catalog!Stamped(catSeries[s], j)))
  PROVE  /\ new \in Catalog!SeriesRow
         /\ new.vol = catSeries[s].vol /\ new.ro = catSeries[s].ro /\ new.locked = catSeries[s].locked
         /\ new.monitored = catSeries[s].monitored /\ new.auto = catSeries[s].auto
         /\ new.options.strategy = "none" /\ ~new.options.pending
         /\ new.group = IF new.locked THEN catSeries[s].group ELSE Key[new.vol]
         /\ new.date = IF j.short THEN catSeries[s].date ELSE IF j.whole THEN j.date ELSE 0
<1> DEFINE r == catSeries[s]
           d == IF j.whole THEN j.date ELSE 0
           t == [r EXCEPT !.fresh = TRUE, !.date = d]
           x == Catalog!Stamped(r, j)
           y == Catalog!Consumed(x)
           z == [y EXCEPT !.group = Key[y.vol]]
<1>1. r \in Catalog!SeriesRow /\ j.short \in BOOLEAN /\ d \in Nat
  BY DEF RowTypes, Working
<1>2. x = IF j.short THEN r ELSE t
  BY DEF Catalog!Stamped
<1> HIDE DEF d, r
<1>3. /\ t \in Catalog!SeriesRow /\ t.vol = r.vol /\ t.ro = r.ro /\ t.locked = r.locked
      /\ t.monitored = r.monitored /\ t.auto = r.auto /\ t.group = r.group /\ t.date = d
  BY <1>1 DEF Catalog!SeriesRow
<1> HIDE DEF t
<1>4. /\ x \in Catalog!SeriesRow /\ x.vol = r.vol /\ x.ro = r.ro /\ x.locked = r.locked
      /\ x.monitored = r.monitored /\ x.auto = r.auto /\ x.group = r.group
      /\ x.date = IF j.short THEN r.date ELSE d
  BY <1>1, <1>2, <1>3
<1> HIDE DEF x
<1>5. /\ Catalog!NoOptions \in [strategy : Catalog!Strategies, search : BOOLEAN, pending : BOOLEAN]
      /\ Catalog!NoOptions.strategy = "none" /\ ~Catalog!NoOptions.pending
  BY DEF Catalog!NoOptions, Catalog!Strategies
<1>6. /\ y \in Catalog!SeriesRow /\ y.vol = x.vol /\ y.ro = x.ro /\ y.locked = x.locked
      /\ y.monitored = x.monitored /\ y.auto = x.auto /\ y.group = x.group /\ y.date = x.date
      /\ y.options.strategy = "none" /\ ~y.options.pending
  BY <1>4, <1>5 DEF Catalog!Consumed, Catalog!SeriesRow
<1> HIDE DEF y
<1>7. Key[y.vol] \in {Key[v] : v \in Catalog!Volumes} \cup {Nobody} /\ y.locked \in BOOLEAN
  BY <1>6 DEF Catalog!SeriesRow
<1>8. new = IF y.locked THEN y ELSE z
  BY DEF Catalog!Grouped, y, x, r
<1>9. /\ z \in Catalog!SeriesRow /\ z.vol = y.vol /\ z.ro = y.ro /\ z.locked = y.locked
      /\ z.monitored = y.monitored /\ z.auto = y.auto /\ z.group = Key[y.vol] /\ z.date = y.date
      /\ z.options = y.options
  BY <1>6, <1>7 DEF Catalog!SeriesRow
<1> HIDE DEF z
<1> QED
  BY <1>4, <1>6, <1>7, <1>8, <1>9 DEF r, d

LEMMA CommitWrites ==
  ASSUME RowTypes, JobTypes, NEW w \in Workers, Catalog!Commit(w), NEW j, j = catJob[w],
         NEW s, s = j.cmd.s
  PROVE  /\ Working(j) /\ s \in DOMAIN catSeries /\ j.at = "commit"
         /\ DOMAIN catSeries' = DOMAIN catSeries
         /\ \A t \in DOMAIN catSeries \ {s} : catSeries'[t] = catSeries[t]
         /\ catSeries'[s] = Catalog!Grouped(Catalog!Consumed(Catalog!Stamped(catSeries[s], j)))
         /\ catSeries' = [catSeries EXCEPT ![s] = catSeries'[s]]
         /\ catIssue' \in [DOMAIN catIssue' -> Catalog!IssueRow]
         /\ DOMAIN catIssue' \subseteq DOMAIN catIssue \cup j.page
         /\ \A i \in DOMAIN catIssue' \cap DOMAIN catIssue :
              /\ catIssue'[i].s = catIssue[i].s /\ catIssue'[i].file = catIssue[i].file
              /\ catIssue[i].s # s \/ ~catSeries[s].options.pending
                   => catIssue'[i].mon = catIssue[i].mon
         /\ \A i \in DOMAIN catIssue' \ DOMAIN catIssue :
              /\ catIssue'[i].s = s
              /\ ~catSeries[s].options.pending => catIssue'[i].mon = catSeries[s].auto
         /\ \A i \in DOMAIN catIssue' :
              (/\ catIssue'[i].s = s /\ catSeries[s].options.pending
               /\ catSeries[s].options.strategy = "none") => ~catIssue'[i].mon
         /\ \A i \in DOMAIN catIssue \ DOMAIN catIssue' : catIssue[i].s = s /\ ~catIssue[i].file
         /\ ~j.short => \A i \in j.page : i \in DOMAIN catIssue' /\ catIssue'[i].s = s
         /\ j.short => DOMAIN catIssue' = DOMAIN catIssue
<1> DEFINE rows == Catalog!Reconciled(j, Catalog!Vanished(j))
           paid == Catalog!Credited(rows, j)
<1>1. Working(j)
  BY DEF JobTypes
<1>2. s \in DOMAIN catSeries /\ j.at = "commit" /\ ~Catalog!Moved(j)
  BY DEF Catalog!Commit, Catalog!Fits, Catalog!Refreshing, Catalog!Target, Catalog!Rows
<1>3. /\ catIssue' = Catalog!Applied(paid, s)
      /\ catSeries' = [catSeries EXCEPT ![s] =
                         Catalog!Grouped(Catalog!Consumed(Catalog!Stamped(catSeries[s], j)))]
  BY DEF Catalog!Commit, Catalog!Write, Catalog!Settled, Catalog!Target
<1>4. /\ rows \in [DOMAIN rows -> Catalog!IssueRow]
      /\ DOMAIN rows \subseteq DOMAIN catIssue \cup j.page
      /\ \A i \in DOMAIN rows \cap DOMAIN catIssue : rows[i] = catIssue[i]
      /\ \A i \in DOMAIN rows \ DOMAIN catIssue :
           rows[i].s = s /\ rows[i].mon = catSeries[s].auto
      /\ \A i \in DOMAIN catIssue \ DOMAIN rows : catIssue[i].s = s /\ ~catIssue[i].file
      /\ ~j.short => \A i \in j.page : i \in DOMAIN rows /\ rows[i].s = s
      /\ j.short => rows = catIssue
  BY <1>1, <1>2, Reconciles
<1> HIDE DEF rows
<1>5. /\ paid \in [DOMAIN rows -> Catalog!IssueRow]
      /\ \A i \in DOMAIN rows : paid[i].s = rows[i].s /\ paid[i].file = rows[i].file
                                /\ paid[i].mon = rows[i].mon
  BY <1>4, Credits
<1> HIDE DEF paid
<1>6. /\ catIssue' \in [DOMAIN rows -> Catalog!IssueRow]
      /\ \A i \in DOMAIN rows :
           /\ catIssue'[i].s = paid[i].s /\ catIssue'[i].file = paid[i].file
           /\ paid[i].s # s \/ ~catSeries[s].options.pending => catIssue'[i].mon = paid[i].mon
           /\ (/\ paid[i].s = s /\ catSeries[s].options.pending
               /\ catSeries[s].options.strategy = "none") => ~catIssue'[i].mon
  BY <1>2, <1>3, <1>5, Applies
<1>7. DOMAIN catIssue' = DOMAIN rows
  BY <1>6
<1>8. DOMAIN catSeries' = DOMAIN catSeries
  BY <1>3
<1>9. /\ \A t \in DOMAIN catSeries \ {s} : catSeries'[t] = catSeries[t]
      /\ catSeries'[s] = Catalog!Grouped(Catalog!Consumed(Catalog!Stamped(catSeries[s], j)))
      /\ catSeries' = [catSeries EXCEPT ![s] = catSeries'[s]]
  BY <1>2, <1>3
<1> QED
  BY <1>1, <1>2, <1>4, <1>5, <1>6, <1>7, <1>8, <1>9


(***************************************************************************)
(* What a step may do to the workers and to the queue.                     *)
(***************************************************************************)
\* A worker goes on, ends, or takes a command that leaves the queue.
Advances(w, x) ==
  /\ Working(x) /\ catJob' = [catJob EXCEPT ![w] = x]
  /\ x.cmd = catJob[w].cmd \/ x.cmd.name \in {"none", "import"} \/ x.cmd \notin catQueue'
  /\ \/ x.at \notin {"walk", "commit"}
     \/ Catalog!ReadVolume(w) \/ \E page, fetched \in SUBSET Listed : Catalog!Walk(w, page, fetched)

LEMMA NoJobWorks ==
  Working(Catalog!NoJob) /\ Catalog!NoJob.at = "idle" /\ Catalog!NoJob.cmd.name = "none"
BY DEF Working, Places, Catalog!NoJob, Catalog!NoCmd, Catalog!Cmd

\* What a refresh knows of its volume once it has read it.
LEMMA Reads ==
  ASSUME RowTypes, NEW w \in Workers, NEW j, j = catJob[w], Working(j), Catalog!ReadVolume(w),
         j.cmd.s \in DOMAIN catSeries, NEW row, row = catSeries[j.cmd.s]
  PROVE  \E x : /\ Working(x) /\ catJob' = [catJob EXCEPT ![w] = x] /\ x.cmd = j.cmd
                /\ x.at = "walk" /\ x.vol = row.vol /\ x.date = catCv.date[row.vol]
<1> DEFINE now == catCv.date[row.vol]
           short == row.date # 0 /\ row.date = now /\ row.fresh
           known == {i \in Catalog!Of(j.cmd.s) : catIssue[i].credited}
           x == [j EXCEPT !.at = "walk", !.vol = row.vol, !.date = now, !.short = short, !.known = known]
<1>0. catJob' = [catJob EXCEPT ![w].at = "walk", ![w].vol = row.vol, ![w].date = now,
                             ![w].short = short, ![w].known = known]
  BY DEF Catalog!ReadVolume, Catalog!Target, Catalog!Rows
<1> HIDE DEF now, short, known
<1>1. catJob' = [catJob EXCEPT ![w] = x]
  BY <1>0
<1> USE DEF now, short, known
<1>2. row \in Catalog!SeriesRow
  BY DEF RowTypes
<1>3. row.vol \in Catalog!Volumes /\ row.fresh \in BOOLEAN
  BY <1>2 DEF Catalog!SeriesRow
<1>4. now \in Nat /\ short \in BOOLEAN
  BY <1>3 DEF RowTypes
<1> HIDE DEF now, short, known
<1>5. Working(x) /\ x.cmd = j.cmd /\ x.at = "walk" /\ x.vol = row.vol /\ x.date = now
  BY <1>4 DEF Working, Places
<1> HIDE DEF x
<1> QED
  BY <1>1, <1>5 DEF now

\* What it has when the walk is over.
LEMMA Walks ==
  ASSUME RowTypes, NEW w \in Workers, NEW j, j = catJob[w], Working(j),
         NEW page \in SUBSET Listed, NEW fetched \in SUBSET Listed, Catalog!Walk(w, page, fetched)
  PROVE  \E x : /\ Working(x) /\ catJob' = [catJob EXCEPT ![w] = x] /\ x.cmd = j.cmd
                /\ j.at = "walk" /\ x.at = "commit" /\ x.vol = j.vol /\ x.date = j.date
                /\ x.short = j.short /\ x.page = page
                /\ x.whole = (page = Catalog!ListedIn(j.vol))
<1> DEFINE all == page = Catalog!ListedIn(j.vol)
           x == [j EXCEPT !.at = "commit", !.page = page, !.fetched = fetched, !.whole = all]
<1>1. catJob' = [catJob EXCEPT ![w] = x] /\ j.at = "walk"
  BY DEF Catalog!Walk, Catalog!Refreshing
<1>2. all \in BOOLEAN
  OBVIOUS
<1> HIDE DEF all
<1>3. /\ Working(x) /\ x.cmd = j.cmd /\ x.at = "commit" /\ x.vol = j.vol /\ x.date = j.date
      /\ x.short = j.short /\ x.page = page /\ x.whole = all
  BY <1>2 DEF Working, Places
<1> HIDE DEF x
<1> QED
  BY <1>1, <1>3 DEF all

LEMMA JobMoves ==
  ASSUME RowTypes, JobTypes, Queued, [Catalog!Next]_catVars
  PROVE  \/ UNCHANGED catJob
         \/ \E w \in Workers : \E x : Advances(w, x)
         \/ catJob' = [w \in Workers |-> Catalog!NoJob]
<1>0. ASSUME NEW w \in Workers, NEW x, Working(x), catJob' = [catJob EXCEPT ![w] = x],
             x.at \notin {"walk", "commit"},
             x.cmd = catJob[w].cmd \/ x.cmd.name \in {"none", "import"} \/ x.cmd \notin catQueue'
      PROVE  \E y : Advances(w, y)
  <2>1. Advances(w, x)
    BY <1>0 DEF Advances
  <2> QED
    BY <2>1
<1>1. ASSUME NEW w \in Workers, Catalog!Ends(w) PROVE \E x : Advances(w, x)
  BY <1>0, <1>1, NoJobWorks DEF Catalog!Ends
<1>2. ASSUME NEW w \in Workers, NEW a \in Places \ {"walk", "commit"}, Catalog!At(w, a)
      PROVE  \E x : Advances(w, x)
  <2> DEFINE x == [catJob[w] EXCEPT !.at = a]
  <2>1. Working(catJob[w])
    BY DEF JobTypes
  <2>2. Working(x) /\ x.at = a /\ x.cmd = catJob[w].cmd
    BY <2>1 DEF Working
  <2>3. catJob' = [catJob EXCEPT ![w] = x]
    BY <1>2 DEF Catalog!At
  <2> HIDE DEF x
  <2> QED
    BY <1>0, <2>2, <2>3
<1>3. ASSUME NEW w \in Workers, Catalog!Work(w) PROVE \E x : Advances(w, x)
  <2> DEFINE j == catJob[w]
  <2>0. Working(j)
    BY DEF JobTypes
  <2>1. CASE Catalog!ReadVolume(w)
    <3>1. CASE j.cmd.s \notin DOMAIN catSeries
      BY <1>1, <2>1, <3>1 DEF Catalog!ReadVolume, Catalog!Target, Catalog!Rows
    <3>2. CASE j.cmd.s \in DOMAIN catSeries
      <4>1. PICK x : Working(x) /\ catJob' = [catJob EXCEPT ![w] = x] /\ x.cmd = j.cmd
        BY <2>0, <2>1, <3>2, Reads
      <4>2. Advances(w, x)
        BY <2>1, <4>1 DEF Advances
      <4> QED
        BY <4>2
    <3> QED
      BY <3>1, <3>2
  <2>2. ASSUME NEW page \in SUBSET Listed, NEW fetched \in SUBSET Listed, Catalog!Walk(w, page, fetched)
        PROVE  \E x : Advances(w, x)
    <3>1. PICK x : Working(x) /\ catJob' = [catJob EXCEPT ![w] = x] /\ x.cmd = j.cmd
      BY <2>0, <2>2, Walks
    <3>2. Advances(w, x)
      BY <2>2, <3>1 DEF Advances
    <3> QED
      BY <3>2
  <2>3. CASE Catalog!Commit(w)
    <3>1. PICK b : catJob' = [catJob EXCEPT ![w] = [j EXCEPT !.at = "chain", !.sweep = b]]
      BY <2>3 DEF Catalog!Commit, Catalog!Write
    <3> DEFINE x == [j EXCEPT !.at = "chain", !.sweep = b]
    <3>2. Working(x) /\ x.at = "chain" /\ x.cmd = j.cmd
      BY <2>0 DEF Working, Places
    <3> HIDE DEF x
    <3> QED
      BY <1>0, <3>1, <3>2 DEF x
  <2>4. CASE \/ Catalog!WalkFails(w) \/ Catalog!CommitVoid(w) \/ Catalog!Chain(w)
             \/ Catalog!ScanEnds(w) \/ Catalog!BackfillMark(w)
    BY <1>1, <2>4 DEF Catalog!WalkFails, Catalog!CommitVoid, Catalog!Chain, Catalog!ScanEnds,
       Catalog!BackfillMark
  <2>5. CASE Catalog!ScanRead(w)
    <3>1. CASE Catalog!At(w, "scanned")
      BY <1>2, <3>1 DEF Places
    <3>2. ASSUME NEW t, catJob' = [catJob EXCEPT ![w] = [j EXCEPT !.at = "register", !.todo = t]]
          PROVE  \E x : Advances(w, x)
      <4> DEFINE x == [j EXCEPT !.at = "register", !.todo = t]
      <4>1. Working(x) /\ x.at = "register" /\ x.cmd = j.cmd
        BY <2>0 DEF Working, Places
      <4> HIDE DEF x
      <4> QED
        BY <1>0, <3>2, <4>1 DEF x
    <3> QED
      BY <2>5, <3>1, <3>2 DEF Catalog!ScanRead
  <2>6. CASE Catalog!ScanRegister(w)
    BY <1>1, <1>2, <2>6 DEF Catalog!ScanRegister, Places
  <2>7. CASE Catalog!BackfillRead(w)
    <3> DEFINE x == [j EXCEPT !.at = "fan", !.todo = DOMAIN catSeries]
    <3>1. catJob' = [catJob EXCEPT ![w] = x]
      BY <2>7 DEF Catalog!BackfillRead, Catalog!Rows
    <3>2. Working(x) /\ x.at = "fan" /\ x.cmd = j.cmd
      BY <2>0 DEF Working, Places
    <3> HIDE DEF x
    <3> QED
      BY <1>0, <3>1, <3>2
  <2>8. CASE Catalog!BackfillNext(w)
    <3>1. PICK t : catJob' = [catJob EXCEPT ![w] = [j EXCEPT !.todo = t]]
      BY <2>8 DEF Catalog!BackfillNext
    <3> DEFINE x == [j EXCEPT !.todo = t]
    <3>2. j.at = "fan"
      BY <2>8 DEF Catalog!BackfillNext, Catalog!Backfilling
    <3>3. Working(x) /\ x.at = j.at /\ x.cmd = j.cmd
      BY <2>0 DEF Working, Places
    <3> HIDE DEF x
    <3> QED
      BY <1>0, <3>1, <3>2, <3>3 DEF x
  <2>9. ASSUME NEW c \in catQueue, Catalog!Take(w, c) PROVE \E x : Advances(w, x)
    <3> DEFINE x == [Catalog!NoJob EXCEPT !.at = "read", !.cmd = c]
    <3>1. catJob' = [catJob EXCEPT ![w] = x] /\ c \notin catQueue'
      BY <2>9 DEF Catalog!Take, Catalog!Start
    <3>2. Working(x) /\ x.at = "read" /\ x.cmd = c
      BY NoJobWorks DEF Working, Places
    <3> HIDE DEF x
    <3> QED
      BY <1>0, <3>1, <3>2
  <2> QED
    BY <1>3, <2>1, <2>2, <2>3, <2>4, <2>5, <2>6, <2>7, <2>8, <2>9
       DEF Catalog!Work, Catalog!Refresh, Catalog!Scan, Catalog!Backfill
<1>4. CASE Catalog!Crash
  BY <1>4 DEF Catalog!Crash
<1>5. ASSUME NEW w \in Workers, NEW s \in Ids, Catalog!ImportRefresh(w, s) PROVE \E x : Advances(w, x)
  <2> DEFINE c == Catalog!Cmd("import", s)
             x == [Catalog!NoJob EXCEPT !.at = "read", !.cmd = c]
  <2>1. catJob' = [catJob EXCEPT ![w] = x]
    BY <1>5 DEF Catalog!ImportRefresh
  <2>2. c.name = "import"
    BY DEF Catalog!Cmd
  <2> HIDE DEF c
  <2>3. Working(x) /\ x.at = "read" /\ x.cmd = c
    BY NoJobWorks DEF Working, Places
  <2> HIDE DEF x
  <2> QED
    BY <1>0, <2>1, <2>2, <2>3
<1>6. CASE UNCHANGED catVars
  BY <1>6 DEF catVars
<1>7. CASE Catalog!Starting \/ Catalog!World \/ \E s \in Ids : Catalog!Search(s)
  BY <1>7 DEF Catalog!Starting, Catalog!World, Catalog!Search, Catalog!Unseed, Catalog!AskBackfill,
     Catalog!FileComes, Catalog!FileGoes, Catalog!News, Catalog!WeekPasses
<1>8. CASE Catalog!Operator
  BY <1>5, <1>8 DEF Catalog!Operator, Catalog!AddSeries, Catalog!RefreshNow, Catalog!Unlock,
     Catalog!DeleteSeries, Catalog!EditMonitoring, Catalog!EditGroup, Catalog!SetMonitored,
     Catalog!Follow
<1> QED
  BY <1>3, <1>4, <1>6, <1>7, <1>8 DEF Catalog!Next

LEMMA JobsStep ==
  ASSUME CatInv, [Catalog!Next]_catVars
  PROVE  /\ JobTypes'
         /\ \A w \in Workers :
              \/ catJob'[w] = catJob[w] \/ catJob'[w].at \notin {"walk", "commit"}
              \/ Catalog!ReadVolume(w)
              \/ \E page, fetched \in SUBSET Listed : Catalog!Walk(w, page, fetched)
         /\ \A w \in Workers : \/ catJob'[w].cmd = catJob[w].cmd
                               \/ catJob'[w].cmd.name \in {"none", "import"}
                               \/ catJob'[w].cmd \notin catQueue'
<1> USE DEF CatInv
<1>1. CASE UNCHANGED catJob
  BY <1>1 DEF JobTypes
<1>2. ASSUME NEW w \in Workers, NEW x, Advances(w, x)
      PROVE  /\ JobTypes' /\ catJob'[w] = x
             /\ \A v \in Workers \ {w} : catJob'[v] = catJob[v]
  <2>1. catJob' = [catJob EXCEPT ![w] = x] /\ Working(x)
    BY <1>2 DEF Advances
  <2>2. catJob = [v \in Workers |-> catJob[v]] /\ \A v \in Workers : Working(catJob[v])
    BY DEF JobTypes
  <2>3. catJob' = [v \in Workers |-> IF v = w THEN x ELSE catJob[v]]
    BY <2>1, <2>2
  <2> QED
    BY <2>1, <2>2, <2>3 DEF JobTypes
<1>3. CASE catJob' = [w \in Workers |-> Catalog!NoJob]
  BY <1>3, NoJobWorks DEF JobTypes
<1>4. ASSUME NEW w \in Workers, NEW x, Advances(w, x)
      PROVE  /\ JobTypes'
             /\ \A v \in Workers :
                  \/ catJob'[v] = catJob[v] \/ catJob'[v].at \notin {"walk", "commit"}
                  \/ Catalog!ReadVolume(v)
                  \/ \E page, fetched \in SUBSET Listed : Catalog!Walk(v, page, fetched)
             /\ \A v \in Workers : \/ catJob'[v].cmd = catJob[v].cmd
                                   \/ catJob'[v].cmd.name \in {"none", "import"}
                                   \/ catJob'[v].cmd \notin catQueue'
  <2>1. JobTypes' /\ catJob'[w] = x /\ \A v \in Workers \ {w} : catJob'[v] = catJob[v]
    BY <1>2, <1>4
  <2>2. /\ x.cmd = catJob[w].cmd \/ x.cmd.name \in {"none", "import"} \/ x.cmd \notin catQueue'
        /\ \/ x.at \notin {"walk", "commit"} \/ Catalog!ReadVolume(w)
           \/ \E page, fetched \in SUBSET Listed : Catalog!Walk(w, page, fetched)
    BY <1>4 DEF Advances
  <2> QED
    BY <2>1, <2>2
<1>5. RowTypes /\ JobTypes /\ Queued
  OBVIOUS
<1>6. CASE \E w \in Workers : \E x : Advances(w, x)
  BY <1>4, <1>6
<1> QED
  BY <1>1, <1>3, <1>5, <1>6, JobMoves

\* The queue takes in what is not queued or running.
LEMMA QueueStep ==
  ASSUME CatInv, [Catalog!Next]_catVars
  PROVE  Queued'
<1>1. ASSUME NEW cs, \A c \in cs : c.name \notin {"none", "import"},
             catQueue' \subseteq catQueue \cup (cs \ Catalog!Live)
      PROVE  Queued'
  <2>1. Queued
    BY DEF CatInv
  <2>2. \A c \in cs \ Catalog!Live : \A w \in Workers : catJob[w].cmd # c
    BY DEF Catalog!Live
  <2>3. \A w \in Workers : \/ catJob'[w].cmd = catJob[w].cmd
                           \/ catJob'[w].cmd.name \in {"none", "import"}
                           \/ catJob'[w].cmd \notin catQueue'
    BY JobsStep
  <2> QED
    BY <1>1, <2>1, <2>2, <2>3 DEF Queued
<1>2. ASSUME NEW c, c.name \notin {"none", "import"}, Catalog!Enqueue({c}) PROVE Queued'
  <2>1. catQueue' \subseteq catQueue \cup ({c} \ Catalog!Live)
    BY <1>2 DEF Catalog!Enqueue
  <2>2. \A d \in {c} : d.name \notin {"none", "import"}
    BY <1>2
  <2> QED
    BY <1>1, <2>1, <2>2
<1>3. ASSUME NEW name \in {"refresh", "scan", "search", "backfill"}, NEW s,
             Catalog!Enqueue({Catalog!Cmd(name, s)})
      PROVE  Queued'
  <2>1. Catalog!Cmd(name, s).name = name
    BY DEF Catalog!Cmd
  <2> QED
    BY <1>2, <1>3, <2>1
<1>4. ASSUME catQueue' \subseteq catQueue PROVE Queued'
  <2> DEFINE cs == {}
  <2>1. catQueue' \subseteq catQueue \cup (cs \ Catalog!Live) /\ \A c \in cs : FALSE
    BY <1>4
  <2> HIDE DEF cs
  <2> QED
    BY <1>1, <2>1
<1>5. ASSUME NEW w \in Workers, Catalog!Work(w) PROVE Queued'
  <2>1. CASE Catalog!Chain(w)
    <3> DEFINE b == catJob[w].sweep
               c == [Catalog!Cmd("scan", Catalog!Target(w)) EXCEPT !.sweep = b]
    <3>1. Catalog!Enqueue({c})
      BY <2>1 DEF Catalog!Chain
    <3>2. c.name = "scan"
      BY DEF Catalog!Cmd
    <3> HIDE DEF c
    <3> QED
      BY <1>2, <3>1, <3>2
  <2>2. CASE Catalog!ScanEnds(w)
    <3>1. CASE Catalog!Enqueue({Catalog!Cmd("search", Catalog!Target(w))})
      BY <1>3, <3>1
    <3>2. CASE Catalog!Enqueue({})
      BY <1>4, <3>2 DEF Catalog!Enqueue
    <3> QED
      BY <2>2, <3>1, <3>2 DEF Catalog!ScanEnds
  <2>3. CASE Catalog!BackfillNext(w)
    BY <1>3, <2>3 DEF Catalog!BackfillNext
  <2>4. CASE \E c \in catQueue : Catalog!Take(w, c)
    BY <1>4, <2>4 DEF Catalog!Take
  <2>5. CASE \/ Catalog!ReadVolume(w) \/ Catalog!WalkFails(w) \/ Catalog!CommitVoid(w)
             \/ \E page, fetched \in SUBSET Listed : Catalog!Walk(w, page, fetched)
    BY <1>4, <2>5 DEF Catalog!ReadVolume, Catalog!WalkFails, Catalog!CommitVoid, Catalog!Walk
  <2>6. CASE Catalog!Commit(w)
    BY <1>4, <2>6 DEF Catalog!Commit, Catalog!Write
  <2>7. CASE \/ Catalog!ScanRead(w) \/ Catalog!ScanRegister(w)
             \/ Catalog!BackfillRead(w) \/ Catalog!BackfillMark(w)
    BY <1>4, <2>7 DEF Catalog!ScanRead, Catalog!ScanRegister, Catalog!BackfillRead,
       Catalog!BackfillMark
  <2> QED
    BY <1>5, <2>1, <2>2, <2>3, <2>4, <2>5, <2>6, <2>7
       DEF Catalog!Work, Catalog!Refresh, Catalog!Scan, Catalog!Backfill
<1>6. CASE Catalog!Operator
  <2>1. CASE catQueue' \subseteq catQueue
    BY <1>4, <2>1
  <2>2. ASSUME NEW s, Catalog!Enqueue({Catalog!Cmd("refresh", s)}) PROVE Queued'
    BY <1>3, <2>2
  <2>3. catQueue' \subseteq catQueue \/ \E s : Catalog!Enqueue({Catalog!Cmd("refresh", s)})
    BY <1>6 DEF Catalog!Operator, Catalog!AddSeries, Catalog!ImportRefresh, Catalog!RefreshNow,
       Catalog!Unlock, Catalog!DeleteSeries, Catalog!EditMonitoring, Catalog!EditGroup,
       Catalog!SetMonitored, Catalog!Follow
  <2> QED
    BY <2>1, <2>2, <2>3
<1>7. CASE Catalog!Starting
  <2>1. catQueue' \subseteq catQueue \/ Catalog!Enqueue({Catalog!Cmd("backfill", 0)})
    BY <1>7 DEF Catalog!Starting, Catalog!Unseed, Catalog!AskBackfill
  <2> QED
    BY <1>3, <1>4, <2>1
<1>8. CASE Catalog!World \/ Catalog!Crash \/ UNCHANGED catVars \/ \E s \in Ids : Catalog!Search(s)
  <2>1. catQueue' \subseteq catQueue
    BY <1>8 DEF Catalog!World, Catalog!Crash, Catalog!Search, Catalog!FileComes, Catalog!FileGoes,
       Catalog!News, Catalog!WeekPasses, catVars
  <2> QED
    BY <1>4, <2>1
<1> QED
  BY <1>5, <1>6, <1>7, <1>8 DEF Catalog!Next

(***************************************************************************)
(* What a step may do to the rows.                                         *)
(***************************************************************************)
\* Files come and go: no other column of an issue changes.
Refiled ==
  /\ UNCHANGED <<catCv, catSeries, catGroup>>
  /\ catIssue' \in [DOMAIN catIssue -> Catalog!IssueRow]
  /\ \A i \in DOMAIN catIssue : catIssue'[i].s = catIssue[i].s /\ catIssue'[i].mon = catIssue[i].mon

\* A series is edited: what it stands for stays.
Edited(s) ==
  /\ s \in DOMAIN catSeries /\ UNCHANGED <<catCv, catIssue>>
  /\ catSeries' \in [DOMAIN catSeries -> Catalog!SeriesRow]
  /\ \A t \in DOMAIN catSeries \ {s} : catSeries'[t] = catSeries[t]
  /\ catSeries'[s].vol = catSeries[s].vol /\ catSeries'[s].ro = catSeries[s].ro
  /\ catSeries'[s].date = catSeries[s].date /\ catSeries'[s].options = catSeries[s].options
  /\ \/ /\ catSeries'[s].monitored = catSeries[s].monitored
        /\ catSeries'[s].auto = catSeries[s].auto
     \/ catSeries[s].ro => ~catSeries'[s].monitored /\ ~catSeries'[s].auto

LEMMA Flags ==
  ASSUME NEW r \in Catalog!IssueRow, NEW b \in BOOLEAN
  PROVE  /\ [r EXCEPT !.file = b] \in Catalog!IssueRow
         /\ [r EXCEPT !.file = b].s = r.s /\ [r EXCEPT !.file = b].mon = r.mon
         /\ [r EXCEPT !.mon = b] \in Catalog!IssueRow
         /\ [r EXCEPT !.mon = b].s = r.s /\ [r EXCEPT !.mon = b].mon = b
         /\ [r EXCEPT !.mon = b].file = r.file
BY DEF Catalog!IssueRow

LEMMA ScansRefile == ASSUME RowTypes, NEW w \in Workers, Catalog!ScanRegister(w) PROVE Refiled
<1> DEFINE flag(i) == [catIssue[i] EXCEPT !.file = TRUE]
           new(i) == IF i \in catJob[w].todo THEN flag(i) ELSE catIssue[i]
<1>1. catIssue \in [DOMAIN catIssue -> Catalog!IssueRow]
  BY DEF RowTypes
<1>2. \A i \in DOMAIN catIssue : /\ flag(i) \in Catalog!IssueRow /\ flag(i).s = catIssue[i].s
                                 /\ flag(i).mon = catIssue[i].mon
  BY <1>1, Flags
<1>3. UNCHANGED <<catCv, catSeries, catGroup>>
  BY DEF Catalog!ScanRegister
<1>4. catIssue' = [i \in DOMAIN catIssue |-> new(i)] \/ catIssue' = catIssue
  BY DEF Catalog!ScanRegister
<1> HIDE DEF flag
<1> QED
  BY <1>1, <1>2, <1>3, <1>4 DEF Refiled

LEMMA FilesRefile ==
  ASSUME RowTypes, NEW i \in Listed, Catalog!FileComes(i) \/ Catalog!FileGoes(i) PROVE Refiled
<1>1. catIssue \in [DOMAIN catIssue -> Catalog!IssueRow]
  BY DEF RowTypes
<1>2. PICK b \in BOOLEAN : catIssue' = [catIssue EXCEPT ![i] = [catIssue[i] EXCEPT !.file = b]]
  BY DEF Catalog!FileComes, Catalog!FileGoes
<1> DEFINE row == [catIssue[i] EXCEPT !.file = b]
<1>3. i \in DOMAIN catIssue
  BY DEF Catalog!FileComes, Catalog!FileGoes, Catalog!Owned
<1>6. catIssue[i] \in Catalog!IssueRow
  BY <1>1, <1>3
<1>4. row \in Catalog!IssueRow /\ row.s = catIssue[i].s /\ row.mon = catIssue[i].mon
  BY <1>6 DEF Catalog!IssueRow
<1>5. UNCHANGED <<catCv, catSeries, catGroup>>
  BY DEF Catalog!FileComes, Catalog!FileGoes
<1> HIDE DEF row
<1> QED
  BY <1>1, <1>2, <1>3, <1>4, <1>5 DEF Refiled, row

LEMMA SeriesEdits ==
  ASSUME RowTypes, Catalog!TypeOK, NEW s \in Ids,
         \/ \E mon, auto \in BOOLEAN : Catalog!EditMonitoring(s, mon, auto)
         \/ \E g \in catGroup \cup {Nobody} : Catalog!EditGroup(s, g)
         \/ Catalog!Unlock(s) \/ Catalog!WeekPasses(s)
  PROVE  Edited(s)
<1> DEFINE r == catSeries[s]
<1>1. catSeries \in [DOMAIN catSeries -> Catalog!SeriesRow]
  BY DEF RowTypes
<1>2. s \in DOMAIN catSeries /\ UNCHANGED <<catCv, catIssue>>
  BY DEF Catalog!EditMonitoring, Catalog!EditGroup, Catalog!Unlock, Catalog!WeekPasses, Catalog!Rows
<1>3. r \in Catalog!SeriesRow
  BY <1>1, <1>2
<1>4. ASSUME NEW x \in Catalog!SeriesRow, catSeries' = [catSeries EXCEPT ![s] = x],
             x.vol = r.vol, x.ro = r.ro, x.date = r.date, x.options = r.options,
             \/ x.monitored = r.monitored /\ x.auto = r.auto
             \/ r.ro => ~x.monitored /\ ~x.auto
      PROVE  Edited(s)
  BY <1>1, <1>2, <1>4 DEF Edited
<1>5. ASSUME NEW mon \in BOOLEAN, NEW auto \in BOOLEAN, Catalog!EditMonitoring(s, mon, auto)
      PROVE  Edited(s)
  <2> DEFINE x == [r EXCEPT !.monitored = mon, !.auto = auto]
  <2>1. catSeries' = [catSeries EXCEPT ![s] = x] /\ (r.ro => ~mon /\ ~auto)
    BY <1>5 DEF Catalog!EditMonitoring
  <2>2. /\ x \in Catalog!SeriesRow /\ x.vol = r.vol /\ x.ro = r.ro /\ x.date = r.date
        /\ x.options = r.options /\ x.monitored = mon /\ x.auto = auto
    BY <1>3 DEF Catalog!SeriesRow
  <2> HIDE DEF x, r
  <2> QED
    BY <1>4, <2>1, <2>2
<1>6. ASSUME NEW g \in catGroup \cup {Nobody}, Catalog!EditGroup(s, g) PROVE Edited(s)
  <2> DEFINE x == [r EXCEPT !.group = g, !.locked = TRUE]
  <2>1. catSeries' = [catSeries EXCEPT ![s] = x]
    BY <1>6 DEF Catalog!EditGroup
  <2>2. g \in {Key[v] : v \in Catalog!Volumes} \cup {Nobody}
    BY DEF Catalog!TypeOK
  <2>3. /\ x \in Catalog!SeriesRow /\ x.vol = r.vol /\ x.ro = r.ro /\ x.date = r.date
        /\ x.options = r.options /\ x.monitored = r.monitored /\ x.auto = r.auto
    BY <1>3, <2>2 DEF Catalog!SeriesRow
  <2> HIDE DEF x, r
  <2> QED
    BY <1>4, <2>1, <2>3
<1>7. CASE Catalog!Unlock(s)
  <2> DEFINE x == [r EXCEPT !.locked = FALSE]
  <2>1. catSeries' = [catSeries EXCEPT ![s] = x]
    BY <1>7 DEF Catalog!Unlock
  <2>2. /\ x \in Catalog!SeriesRow /\ x.vol = r.vol /\ x.ro = r.ro /\ x.date = r.date
        /\ x.options = r.options /\ x.monitored = r.monitored /\ x.auto = r.auto
    BY <1>3 DEF Catalog!SeriesRow
  <2> HIDE DEF x, r
  <2> QED
    BY <1>4, <2>1, <2>2
<1>8. CASE Catalog!WeekPasses(s)
  <2> DEFINE x == [r EXCEPT !.fresh = FALSE]
  <2>1. catSeries' = [catSeries EXCEPT ![s] = x]
    BY <1>8 DEF Catalog!WeekPasses
  <2>2. /\ x \in Catalog!SeriesRow /\ x.vol = r.vol /\ x.ro = r.ro /\ x.date = r.date
        /\ x.options = r.options /\ x.monitored = r.monitored /\ x.auto = r.auto
    BY <1>3 DEF Catalog!SeriesRow
  <2> HIDE DEF x, r
  <2> QED
    BY <1>4, <2>1, <2>2
<1> QED
  BY <1>5, <1>6, <1>7, <1>8

LEMMA SetsMonitored ==
  ASSUME RowTypes, NEW i \in Listed, NEW b \in BOOLEAN, Catalog!SetMonitored(i, b)
  PROVE  /\ UNCHANGED <<catCv, catSeries, catGroup>> /\ i \in DOMAIN catIssue
         /\ catIssue' \in [DOMAIN catIssue -> Catalog!IssueRow]
         /\ \A k \in DOMAIN catIssue \ {i} : catIssue'[k] = catIssue[k]
         /\ catIssue'[i].s = catIssue[i].s /\ ~catSeries[catIssue[i].s].ro
<1> DEFINE row == [catIssue[i] EXCEPT !.mon = b]
<1>1. catIssue \in [DOMAIN catIssue -> Catalog!IssueRow]
  BY DEF RowTypes
<1>2. /\ UNCHANGED <<catCv, catSeries, catGroup>> /\ i \in DOMAIN catIssue
      /\ catIssue' = [catIssue EXCEPT ![i] = row] /\ ~catSeries[catIssue[i].s].ro
  BY DEF Catalog!SetMonitored
<1>4. catIssue[i] \in Catalog!IssueRow
  BY <1>1, <1>2
<1>3. row \in Catalog!IssueRow /\ row.s = catIssue[i].s
  BY <1>4 DEF Catalog!IssueRow
<1> HIDE DEF row
<1> QED
  BY <1>1, <1>2, <1>3

LEMMA AddsRow ==
  ASSUME RowTypes, NEW v \in Catalog!Volumes, NEW ro \in BOOLEAN, NEW opt \in catRegime.adds,
         Catalog!AddSeries(v, ro, opt), NEW n, n = Catalog!NewId
  PROVE  /\ n \in Ids \ DOMAIN catSeries /\ UNCHANGED <<catCv, catIssue, catJob, catRegime, catCreator>>
         /\ catSeries' \in [DOMAIN catSeries \cup {n} -> Catalog!SeriesRow]
         /\ \A s \in DOMAIN catSeries : catSeries'[s] = catSeries[s]
         /\ catSeries'[n].date = 0 /\ catSeries'[n].vol = v /\ catSeries'[n].group = Key[v]
         /\ catSeries'[n].ro => /\ ~catSeries'[n].monitored /\ ~catSeries'[n].auto
                                /\ catSeries'[n].options.strategy = "none"
         /\ catGroup' = catGroup \cup ({Key[v]} \ {Nobody})
         /\ catRegime.reuse \/ \A w \in Workers : catJob[w].cmd.s # n
<1> DEFINE bare == [vol |-> v, ro |-> ro, monitored |-> ~ro, auto |-> ~ro /\ opt.auto, date |-> 0,
                    fresh |-> FALSE, group |-> Nobody, locked |-> FALSE,
                    options |-> [strategy |-> IF ro THEN "none" ELSE opt.strategy,
                                 search |-> ~ro /\ opt.search, pending |-> TRUE]]
           row == [bare EXCEPT !.group = Key[v]]
<1>1. opt.strategy \in Catalog!Strategies /\ opt.auto \in BOOLEAN /\ opt.search \in BOOLEAN
  BY LibraryAssumption DEF RowTypes, Catalog!CatalogueAssumption
<1>2. n \in Ids /\ (catRegime.reuse \/ \A w \in Workers : catJob[w].cmd.s # n)
  BY DEF Catalog!AddSeries, Catalog!Addable
<1>3. n \notin DOMAIN catSeries
  BY NewIdIsFree
<1>4. Catalog!NewRow(v, ro, opt) = row
  BY DEF Catalog!NewRow, Catalog!Grouped
<1>5. "none" \in Catalog!Strategies
  BY DEF Catalog!Strategies
<1>6. Key[v] \in {Key[x] : x \in Catalog!Volumes} \cup {Nobody}
  OBVIOUS
<1>7. row \in Catalog!SeriesRow
  BY <1>1, <1>5, <1>6 DEF Catalog!SeriesRow
<1>8. /\ row.date = 0 /\ row.vol = v /\ row.group = Key[v]
      /\ row.ro => ~row.monitored /\ ~row.auto /\ row.options.strategy = "none"
  OBVIOUS
<1> HIDE DEF row
<1>9. /\ catSeries' = [s \in DOMAIN catSeries \cup {n} |-> IF s = n THEN row ELSE catSeries[s]]
      /\ UNCHANGED <<catCv, catIssue, catJob, catRegime, catCreator>>
      /\ catGroup' = catGroup \cup ({Key[v]} \ {Nobody})
  BY <1>4 DEF Catalog!AddSeries, Catalog!Inserted, Catalog!Rows
<1>10. catSeries \in [DOMAIN catSeries -> Catalog!SeriesRow]
  BY DEF RowTypes
<1> QED
  BY <1>2, <1>3, <1>7, <1>8, <1>9, <1>10

LEMMA StepKinds ==
  ASSUME RowTypes, Catalog!TypeOK, [Catalog!Next]_catVars
  PROVE  /\ catRegime' = catRegime
         /\ \/ UNCHANGED <<catCv, catSeries, catIssue, catGroup>>
            \/ Refiled
            \/ \E w \in Workers : Catalog!Commit(w)
            \/ \E v \in Catalog!Volumes, ro \in BOOLEAN, opt \in catRegime.adds :
                 Catalog!AddSeries(v, ro, opt)
            \/ \E s \in Ids : Catalog!DeleteSeries(s)
            \/ \E s \in Ids : /\ Edited(s)
                              /\ \/ UNCHANGED catGroup /\ catSeries'[s].group = catSeries[s].group
                                 \/ \E g \in catGroup \cup {Nobody} : Catalog!EditGroup(s, g)
            \/ \E i \in Listed, b \in BOOLEAN : Catalog!SetMonitored(i, b)
            \/ \E i \in Listed, v \in Catalog!Volumes \cup {Nobody} : Catalog!News(i, v)
<1>0. catRegime' = catRegime
  <2>1. ASSUME NEW w \in Workers, Catalog!Work(w) PROVE catRegime' = catRegime
    BY <2>1 DEF Catalog!Work, Catalog!Refresh, Catalog!Scan, Catalog!Backfill, Catalog!ReadVolume,
       Catalog!Walk, Catalog!WalkFails, Catalog!Commit, Catalog!Write, Catalog!CommitVoid,
       Catalog!Chain, Catalog!ScanRead, Catalog!ScanRegister, Catalog!ScanEnds,
       Catalog!BackfillRead, Catalog!BackfillNext, Catalog!BackfillMark, Catalog!Take, Catalog!rest
  <2>2. CASE Catalog!Operator
    BY <2>2 DEF Catalog!Operator, Catalog!AddSeries, Catalog!ImportRefresh, Catalog!RefreshNow,
       Catalog!Unlock, Catalog!DeleteSeries, Catalog!EditMonitoring, Catalog!EditGroup,
       Catalog!SetMonitored, Catalog!Follow
  <2>3. CASE Catalog!World
    BY <2>3 DEF Catalog!World, Catalog!FileComes, Catalog!FileGoes, Catalog!News, Catalog!WeekPasses
  <2>4. CASE Catalog!Starting \/ Catalog!Crash \/ UNCHANGED catVars \/ \E s \in Ids : Catalog!Search(s)
    BY <2>4 DEF Catalog!Starting, Catalog!Unseed, Catalog!AskBackfill, Catalog!Crash,
       Catalog!Search, Catalog!rest, catVars
  <2> QED
    BY <2>1, <2>2, <2>3, <2>4 DEF Catalog!Next
<1>1. ASSUME NEW w \in Workers, Catalog!Work(w)
      PROVE  UNCHANGED <<catCv, catSeries, catIssue, catGroup>> \/ Refiled \/ Catalog!Commit(w)
  <2>1. CASE Catalog!ScanRegister(w)
    BY <2>1, ScansRefile
  <2> QED
    BY <1>1, <2>1 DEF Catalog!Work, Catalog!Refresh, Catalog!Scan,
       Catalog!Backfill, Catalog!ReadVolume, Catalog!Walk, Catalog!WalkFails, Catalog!CommitVoid,
       Catalog!Chain, Catalog!ScanRead, Catalog!ScanEnds, Catalog!BackfillRead,
       Catalog!BackfillNext, Catalog!BackfillMark, Catalog!Take
<1>2. ASSUME NEW s \in Ids, \/ \E mon, auto \in BOOLEAN : Catalog!EditMonitoring(s, mon, auto)
                            \/ Catalog!Unlock(s) \/ Catalog!WeekPasses(s)
      PROVE  Edited(s) /\ UNCHANGED catGroup /\ catSeries'[s].group = catSeries[s].group
  <2>1. Edited(s)
    BY <1>2, SeriesEdits
  <2>2. catSeries[s] \in Catalog!SeriesRow /\ s \in DOMAIN catSeries
    BY <2>1 DEF RowTypes, Edited
  <2>3. ASSUME NEW mon, NEW auto, Catalog!EditMonitoring(s, mon, auto)
        PROVE  UNCHANGED catGroup /\ catSeries'[s].group = catSeries[s].group
    BY <2>2, <2>3 DEF Catalog!EditMonitoring, Catalog!SeriesRow
  <2>4. CASE Catalog!Unlock(s)
    BY <2>1, <2>2, <2>4 DEF Catalog!Unlock, Catalog!SeriesRow
  <2>5. CASE Catalog!WeekPasses(s)
    BY <2>1, <2>2, <2>5 DEF Catalog!WeekPasses, Catalog!SeriesRow
  <2> QED
    BY <1>2, <2>1, <2>3, <2>4, <2>5
<1>3. ASSUME NEW s \in Ids, NEW g \in catGroup \cup {Nobody}, Catalog!EditGroup(s, g) PROVE Edited(s)
  BY <1>3, SeriesEdits
<1>4. ASSUME NEW i \in Listed, Catalog!FileComes(i) \/ Catalog!FileGoes(i) PROVE Refiled
  BY <1>4, FilesRefile
<1>5. CASE Catalog!World
  BY <1>0, <1>2, <1>4, <1>5 DEF Catalog!World
<1>6. CASE Catalog!Operator
  <2>1. CASE \/ \E w \in Workers, s \in Ids : Catalog!ImportRefresh(w, s)
             \/ \E s \in Ids : Catalog!RefreshNow(s)
             \/ \E p \in Catalog!People, b \in BOOLEAN : Catalog!Follow(p, b)
    BY <2>1 DEF Catalog!ImportRefresh, Catalog!RefreshNow, Catalog!Follow
  <2>2. CASE \E s \in Ids, g \in catGroup \cup {Nobody} : Catalog!EditGroup(s, g)
    BY <1>0, <1>3, <2>2
  <2>3. CASE \/ \E s \in Ids : Catalog!Unlock(s)
             \/ \E s \in Ids, mon, auto \in BOOLEAN : Catalog!EditMonitoring(s, mon, auto)
    BY <1>0, <1>2, <2>3
  <2> QED
    BY <1>0, <1>6, <2>1, <2>2, <2>3 DEF Catalog!Operator
<1>7. CASE Catalog!Starting \/ Catalog!Crash \/ UNCHANGED catVars \/ \E s \in Ids : Catalog!Search(s)
  BY <1>0, <1>7 DEF Catalog!Starting, Catalog!Unseed, Catalog!AskBackfill, Catalog!Crash,
     Catalog!Search, catVars
<1> QED
  BY <1>0, <1>1, <1>5, <1>6, <1>7 DEF Catalog!Next

LEMMA TypeFollows == ASSUME CatInv PROVE Catalog!TypeOK
BY DEF CatInv, RowTypes, People, Queued, Franchised, Catalog!TypeOK, Catalog!Rows

LEMMA RowTypesStep == ASSUME CatInv, [Catalog!Next]_catVars PROVE RowTypes'
<1> USE DEF CatInv
<1>0. Catalog!TypeOK /\ RowTypes /\ JobTypes /\ catRegime' \in CatalogueRegimes
  BY TypeFollows, StepKinds DEF RowTypes
<1>1. CASE UNCHANGED <<catCv, catSeries, catIssue, catGroup>>
  BY <1>0, <1>1 DEF RowTypes
<1>2. CASE Refiled
  BY <1>0, <1>2 DEF RowTypes, Refiled
<1>3. ASSUME NEW w \in Workers, Catalog!Commit(w) PROVE RowTypes'
  <2> DEFINE j == catJob[w]
             s == j.cmd.s
  <2>1. /\ Working(j) /\ s \in DOMAIN catSeries /\ j.at = "commit"
        /\ DOMAIN catSeries' = DOMAIN catSeries
        /\ catSeries'[s] = Catalog!Grouped(Catalog!Consumed(Catalog!Stamped(catSeries[s], j)))
        /\ catSeries' = [catSeries EXCEPT ![s] = catSeries'[s]]
    BY <1>0, <1>3, CommitWrites
  <2>2. /\ catIssue' \in [DOMAIN catIssue' -> Catalog!IssueRow]
        /\ DOMAIN catIssue' \subseteq DOMAIN catIssue \cup j.page
        /\ \A i \in DOMAIN catIssue' \cap DOMAIN catIssue : catIssue'[i].s = catIssue[i].s
        /\ \A i \in DOMAIN catIssue' \ DOMAIN catIssue : catIssue'[i].s = s
    BY <1>0, <1>3, CommitWrites
  <2>3. catSeries'[s] \in Catalog!SeriesRow
    BY <1>0, <2>1, Settles
  <2>4. j.page \subseteq Listed
    BY <2>1 DEF Working
  <2>5. UNCHANGED catCv
    BY <1>3 DEF Catalog!Commit, Catalog!Write
  <2> HIDE DEF j
  <2> QED
    BY <1>0, <2>1, <2>2, <2>3, <2>4, <2>5 DEF RowTypes
<1>4. ASSUME NEW v \in Catalog!Volumes, NEW ro \in BOOLEAN, NEW opt \in catRegime.adds,
             Catalog!AddSeries(v, ro, opt)
      PROVE  RowTypes'
  <2> DEFINE n == Catalog!NewId
  <2>1. /\ n \in Ids \ DOMAIN catSeries /\ UNCHANGED <<catCv, catIssue>>
        /\ catSeries' \in [DOMAIN catSeries \cup {n} -> Catalog!SeriesRow]
    BY <1>0, <1>4, AddsRow
  <2> HIDE DEF n
  <2> QED
    BY <1>0, <2>1 DEF RowTypes
<1>5. ASSUME NEW s \in Ids, Catalog!DeleteSeries(s) PROVE RowTypes'
  <2>1. /\ catSeries' = [x \in DOMAIN catSeries \ {s} |-> catSeries[x]]
        /\ catIssue' = [i \in DOMAIN catIssue \ {k \in DOMAIN catIssue : catIssue[k].s = s} |-> catIssue[i]]
        /\ UNCHANGED catCv
    BY <1>5 DEF Catalog!DeleteSeries, Catalog!Without, Catalog!Rowless, Catalog!Rows, Catalog!Of
  <2> QED
    BY <1>0, <2>1 DEF RowTypes
<1>6. ASSUME NEW s \in Ids, Edited(s) PROVE RowTypes'
  BY <1>0, <1>6 DEF RowTypes, Edited
<1>7. ASSUME NEW i \in Listed, NEW b \in BOOLEAN, Catalog!SetMonitored(i, b) PROVE RowTypes'
  <2>1. /\ UNCHANGED <<catCv, catSeries, catGroup>> /\ i \in DOMAIN catIssue
        /\ catIssue' \in [DOMAIN catIssue -> Catalog!IssueRow]
        /\ \A k \in DOMAIN catIssue \ {i} : catIssue'[k] = catIssue[k]
        /\ catIssue'[i].s = catIssue[i].s
    BY <1>0, <1>7, SetsMonitored
  <2> QED
    BY <1>0, <2>1 DEF RowTypes
<1>8. ASSUME NEW i \in Listed, NEW v \in Catalog!Volumes \cup {Nobody}, Catalog!News(i, v)
      PROVE  RowTypes'
  <2>1. /\ UNCHANGED <<catSeries, catIssue>>
        /\ catCv'.of = [catCv.of EXCEPT ![i] = v]
        /\ catCv'.date = [x \in Catalog!Volumes |->
                            catCv.date[x] + IF x \in {v, catCv.of[i]} THEN 1 ELSE 0]
    BY <1>8 DEF Catalog!News
  <2>2. \A x \in Catalog!Volumes : catCv.date[x] \in Nat
    BY <1>0 DEF RowTypes
  <2>3. catCv'.date \in [Catalog!Volumes -> Nat]
    BY <2>1, <2>2
  <2> QED
    BY <1>0, <2>1, <2>3 DEF RowTypes
<1> QED
  BY <1>0, <1>1, <1>2, <1>3, <1>4, <1>5, <1>6, <1>7, <1>8, StepKinds

\* A credited person is one ComicVine names; what the operator touched is kept.
LEMMA PeopleStep == ASSUME CatInv, [Catalog!Next]_catVars PROVE People'
<1> USE DEF CatInv
<1>0. Catalog!TypeOK /\ RowTypes /\ RowTypes' /\ JobTypes /\ People
  BY TypeFollows, RowTypesStep
<1>1. CASE UNCHANGED catCreator
  BY <1>0, <1>1 DEF People
<1>2. CASE Catalog!Unseed
  <2> DEFINE un(p) == [catCreator[p] EXCEPT !.followed = catCreator[p].followed /\ catCreator[p].touched]
  <2>1. \A p \in DOMAIN catCreator : un(p) \in Catalog!Person
    BY <1>0 DEF People, Catalog!Person
  <2>2. catCreator' = catCreator \/ catCreator' = [p \in DOMAIN catCreator |-> un(p)]
    BY <1>2 DEF Catalog!Unseed
  <2> HIDE DEF un
  <2> QED
    BY <1>0, <2>1, <2>2 DEF People
<1>3. ASSUME NEW p \in Catalog!People, NEW b \in BOOLEAN, Catalog!Follow(p, b) PROVE People'
  <2> DEFINE x == [followed |-> b, touched |-> TRUE]
  <2>1. x \in Catalog!Person
    BY DEF Catalog!Person
  <2>2. catCreator' = [catCreator EXCEPT ![p] = x]
    BY <1>3 DEF Catalog!Follow
  <2> HIDE DEF x
  <2> QED
    BY <1>0, <2>1, <2>2 DEF People
<1>4. ASSUME NEW w \in Workers, Catalog!Commit(w) PROVE People'
  <2> DEFINE kept == {x \in DOMAIN catCreator : Catalog!Kept(x)}
             row(p) == IF p \in DOMAIN catCreator THEN catCreator[p]
                       ELSE [followed |-> FALSE, touched |-> FALSE]
  <2>1. catCreator' = [p \in Catalog!CreditsOf(catIssue') \cup kept |-> row(p)]
    BY <1>4 DEF Catalog!Commit, Catalog!Write, Catalog!Creators
  <2>2. \A p : row(p) \in Catalog!Person
    BY <1>0 DEF People, Catalog!Person
  <2>3. Catalog!CreditsOf(catIssue') \subseteq Catalog!People
    BY <1>0 DEF Catalog!CreditsOf, Catalog!People, RowTypes
  <2> HIDE DEF row
  <2> QED
    BY <1>0, <2>1, <2>2, <2>3 DEF People
<1>5. CASE Catalog!Operator
  <2>1. \/ UNCHANGED catCreator
        \/ \E p \in Catalog!People, b \in BOOLEAN : Catalog!Follow(p, b)
    BY <1>5 DEF Catalog!Operator, Catalog!AddSeries, Catalog!ImportRefresh, Catalog!RefreshNow,
       Catalog!Unlock, Catalog!DeleteSeries, Catalog!EditMonitoring, Catalog!EditGroup,
       Catalog!SetMonitored
  <2> QED
    BY <1>1, <1>3, <2>1
<1>6. ASSUME NEW w \in Workers, Catalog!Work(w) PROVE People'
  <2>1. UNCHANGED catCreator \/ Catalog!Commit(w)
    BY <1>6 DEF Catalog!Work, Catalog!Refresh, Catalog!Scan, Catalog!Backfill, Catalog!ReadVolume,
       Catalog!Walk, Catalog!WalkFails, Catalog!CommitVoid, Catalog!Chain, Catalog!ScanRead,
       Catalog!ScanRegister, Catalog!ScanEnds, Catalog!BackfillRead, Catalog!BackfillNext,
       Catalog!BackfillMark, Catalog!Take
  <2> QED
    BY <1>1, <1>4, <2>1
<1>7. CASE \/ Catalog!AskBackfill \/ Catalog!World \/ Catalog!Crash \/ UNCHANGED catVars
           \/ \E s \in Ids : Catalog!Search(s)
  <2>1. UNCHANGED catCreator
    BY <1>7 DEF Catalog!AskBackfill, Catalog!World, Catalog!FileComes, Catalog!FileGoes,
       Catalog!News, Catalog!WeekPasses, Catalog!Crash, Catalog!Search, catVars
  <2> QED
    BY <1>1, <2>1
<1> QED
  BY <1>2, <1>5, <1>6, <1>7 DEF Catalog!Next, Catalog!Starting

(***************************************************************************)
(* The invariant: part by part.                                            *)
(***************************************************************************)
\* A group that loses a member goes if it was the last one.
LEMMA Prunes ==
  ASSUME NEW rows, NEW G, NEW old, Nobody \notin G,
         \A t \in DOMAIN rows : rows[t].group \in G \cup {Nobody},
         \A g \in G \ {old} : \E t \in DOMAIN rows : rows[t].group = g,
         NEW P, P = Catalog!Pruned(rows, G, old)
  PROVE  /\ P \subseteq G
         /\ \A t \in DOMAIN rows : rows[t].group \in P \cup {Nobody}
         /\ \A g \in P : \E t \in DOMAIN rows : rows[t].group = g
<1> DEFINE m == {t \in DOMAIN rows : rows[t].group = old}
<1>1. P = IF m = {} THEN G \ {old} ELSE G
  BY DEF Catalog!Pruned, Catalog!Members
<1>2. CASE m = {}
  BY <1>1, <1>2
<1>3. CASE m # {}
  BY <1>1, <1>3
<1> QED
  BY <1>2, <1>3

LEMMA FranchisedStep == ASSUME CatInv, [Catalog!Next]_catVars PROVE Franchised'
<1> USE DEF CatInv
<1>0. Catalog!TypeOK /\ RowTypes /\ RowTypes' /\ JobTypes /\ Franchised /\ Nobody \notin catGroup
  BY TypeFollows, RowTypesStep DEF Franchised
<1> HIDE DEF CatInv
<1>1. ASSUME UNCHANGED <<catSeries, catGroup>> PROVE Franchised'
  BY <1>0, <1>1 DEF Franchised
<1>2. ASSUME NEW w \in Workers, Catalog!Commit(w) PROVE Franchised'
  <2>0. PICK j, s : j = catJob[w] /\ s = j.cmd.s
    OBVIOUS
  <2> DEFINE old == catSeries[s].group
             more == IF catSeries'[s].group = Nobody THEN {} ELSE {catSeries'[s].group}
             G == catGroup \cup more
  <2>1. /\ Working(j) /\ s \in DOMAIN catSeries
        /\ DOMAIN catSeries' = DOMAIN catSeries
        /\ \A t \in DOMAIN catSeries \ {s} : catSeries'[t] = catSeries[t]
        /\ catSeries'[s] = Catalog!Grouped(Catalog!Consumed(Catalog!Stamped(catSeries[s], j)))
    BY <1>0, <1>2, <2>0, CommitWrites
  <2>2. /\ catSeries'[s].vol = catSeries[s].vol /\ catSeries[s] \in Catalog!SeriesRow
        /\ \/ catSeries'[s].group = catSeries[s].group
           \/ catSeries'[s].group = Key[catSeries'[s].vol]
    <3>1. catSeries[s] \in Catalog!SeriesRow
      BY <1>0, <2>1 DEF RowTypes
    <3> QED
      BY <1>0, <2>1, <3>1, Settles
  <2>3. catSeries'[s].group \in {Key[v] : v \in Catalog!Volumes} \cup {Nobody}
    BY <2>2 DEF Catalog!SeriesRow
  <2>4. catGroup' = Catalog!Pruned(catSeries', G, old)
    BY <1>2, <2>0 DEF Catalog!Commit, Catalog!Write, Catalog!GroupsWith, Catalog!Settled, Catalog!Target
  <2>5. \A t \in DOMAIN catSeries' : catSeries'[t].group \in G \cup {Nobody}
    BY <1>0, <2>1 DEF Franchised
  <2>6. \A g \in G \ {old} : \E t \in DOMAIN catSeries' : catSeries'[t].group = g
    <3> SUFFICES ASSUME NEW g \in G \ {old} PROVE \E t \in DOMAIN catSeries' : catSeries'[t].group = g
      OBVIOUS
    <3>1. CASE g = catSeries'[s].group
      BY <2>1, <3>1
    <3>2. CASE g # catSeries'[s].group
      <4>1. PICK t \in DOMAIN catSeries : catSeries[t].group = g
        BY <1>0, <3>2 DEF Franchised
      <4> QED
        BY <2>1, <4>1
    <3> QED
      BY <3>1, <3>2
  <2>7. Nobody \notin G /\ G \subseteq {Key[v] : v \in Catalog!Volumes} \ {Nobody}
    BY <1>0, <2>3 DEF Franchised
  <2> HIDE DEF G, old
  <2>8. /\ catGroup' \subseteq G
        /\ \A t \in DOMAIN catSeries' : catSeries'[t].group \in catGroup' \cup {Nobody}
        /\ \A g \in catGroup' : \E t \in DOMAIN catSeries' : catSeries'[t].group = g
    BY <2>4, <2>5, <2>6, <2>7, Prunes
  <2> QED
    BY <2>7, <2>8 DEF Franchised
<1>3. ASSUME NEW v \in Catalog!Volumes, NEW ro \in BOOLEAN, NEW opt \in catRegime.adds,
             Catalog!AddSeries(v, ro, opt)
      PROVE  Franchised'
  <2> DEFINE n == Catalog!NewId
  <2>1. /\ DOMAIN catSeries' = DOMAIN catSeries \cup {n}
        /\ \A s \in DOMAIN catSeries : catSeries'[s] = catSeries[s]
        /\ catSeries'[n].group = Key[v]
        /\ catGroup' = catGroup \cup ({Key[v]} \ {Nobody})
    <3>1. catSeries' \in [DOMAIN catSeries \cup {n} -> Catalog!SeriesRow]
      BY <1>0, <1>3, AddsRow
    <3>2. DOMAIN catSeries' = DOMAIN catSeries \cup {n}
      BY <3>1
    <3> QED
      BY <1>0, <1>3, <3>2, AddsRow
  <2> HIDE DEF n
  <2>2. \A s \in DOMAIN catSeries' : catSeries'[s].group \in catGroup' \cup {Nobody}
    BY <1>0, <2>1 DEF Franchised
  <2>3. \A g \in catGroup' : \E s \in DOMAIN catSeries' : catSeries'[s].group = g
    <3> SUFFICES ASSUME NEW g \in catGroup' PROVE \E s \in DOMAIN catSeries' : catSeries'[s].group = g
      OBVIOUS
    <3>1. CASE g = Key[v]
      BY <2>1, <3>1
    <3>2. CASE g \in catGroup
      <4>1. PICK t \in DOMAIN catSeries : catSeries[t].group = g
        BY <1>0, <3>2 DEF Franchised
      <4> QED
        BY <2>1, <4>1
    <3> QED
      BY <2>1, <3>1, <3>2
  <2> QED
    BY <1>0, <2>1, <2>2, <2>3 DEF Franchised
<1>4. ASSUME NEW s \in Ids, Catalog!DeleteSeries(s) PROVE Franchised'
  <2> DEFINE old == catSeries[s].group
  <2>1. /\ s \in DOMAIN catSeries
        /\ catSeries' = [x \in DOMAIN catSeries \ {s} |-> catSeries[x]]
        /\ catGroup' = Catalog!Pruned(catSeries', catGroup, old)
    BY <1>4 DEF Catalog!DeleteSeries, Catalog!Without, Catalog!Rows
  <2>2. \A t \in DOMAIN catSeries' : catSeries'[t].group \in catGroup \cup {Nobody}
    BY <1>0, <2>1 DEF Franchised
  <2>3. \A g \in catGroup \ {old} : \E t \in DOMAIN catSeries' : catSeries'[t].group = g
    BY <1>0, <2>1 DEF Franchised
  <2> HIDE DEF old
  <2>4. /\ catGroup' \subseteq catGroup
        /\ \A t \in DOMAIN catSeries' : catSeries'[t].group \in catGroup' \cup {Nobody}
        /\ \A g \in catGroup' : \E t \in DOMAIN catSeries' : catSeries'[t].group = g
    BY <1>0, <2>1, <2>2, <2>3, Prunes
  <2> QED
    BY <1>0, <2>4 DEF Franchised
<1>5. ASSUME NEW s \in Ids, Edited(s), UNCHANGED catGroup, catSeries'[s].group = catSeries[s].group
      PROVE  Franchised'
  <2>1. DOMAIN catSeries' = DOMAIN catSeries /\ \A t \in DOMAIN catSeries : catSeries'[t].group = catSeries[t].group
    BY <1>5 DEF Edited
  <2> QED
    BY <1>0, <1>5, <2>1 DEF Franchised
<1>6. ASSUME NEW s \in Ids, NEW g \in catGroup \cup {Nobody}, Catalog!EditGroup(s, g) PROVE Franchised'
  <2> DEFINE old == catSeries[s].group
             x == [catSeries[s] EXCEPT !.group = g, !.locked = TRUE]
  <2>1. /\ s \in DOMAIN catSeries /\ catSeries' = [catSeries EXCEPT ![s] = x]
        /\ catGroup' = IF old \in {Nobody, g} THEN catGroup
                       ELSE Catalog!Pruned(catSeries', catGroup, old)
    BY <1>6 DEF Catalog!EditGroup, Catalog!Rows
  <2>2. catSeries[s] \in Catalog!SeriesRow
    BY <1>0, <2>1 DEF RowTypes
  <2>3. x.group = g
    BY <2>2 DEF Catalog!SeriesRow
  <2> HIDE DEF x
  <2>4. /\ DOMAIN catSeries' = DOMAIN catSeries /\ catSeries'[s].group = g
        /\ \A t \in DOMAIN catSeries \ {s} : catSeries'[t] = catSeries[t]
    BY <2>1, <2>3
  <2>5. \A t \in DOMAIN catSeries' : catSeries'[t].group \in catGroup \cup {Nobody}
    BY <1>0, <2>4 DEF Franchised
  <2>6. \A k \in catGroup \ {old} : \E t \in DOMAIN catSeries' : catSeries'[t].group = k
    <3> SUFFICES ASSUME NEW k \in catGroup \ {old} PROVE \E t \in DOMAIN catSeries' : catSeries'[t].group = k
      OBVIOUS
    <3>1. PICK t \in DOMAIN catSeries : catSeries[t].group = k
      BY <1>0 DEF Franchised
    <3> QED
      BY <2>4, <3>1
  <2>7. CASE old \in {Nobody, g}
    <3>1. \A k \in catGroup : \E t \in DOMAIN catSeries' : catSeries'[t].group = k
      BY <1>0, <2>1, <2>4, <2>6, <2>7
    <3> QED
      BY <1>0, <2>1, <2>5, <2>7, <3>1 DEF Franchised
  <2>8. CASE old \notin {Nobody, g}
    <3>1. catGroup' = Catalog!Pruned(catSeries', catGroup, old)
      BY <2>1, <2>8
    <3> HIDE DEF old
    <3>2. /\ catGroup' \subseteq catGroup
          /\ \A t \in DOMAIN catSeries' : catSeries'[t].group \in catGroup' \cup {Nobody}
          /\ \A k \in catGroup' : \E t \in DOMAIN catSeries' : catSeries'[t].group = k
      BY <1>0, <2>5, <2>6, <3>1, Prunes
    <3> QED
      BY <1>0, <3>2 DEF Franchised
  <2> QED
    BY <2>7, <2>8
<1>7. ASSUME NEW i \in Listed, NEW b \in BOOLEAN, Catalog!SetMonitored(i, b) PROVE Franchised'
  BY <1>0, <1>1, <1>7, SetsMonitored
<1>8. CASE Refiled \/ (\E i \in Listed, v \in Catalog!Volumes \cup {Nobody} : Catalog!News(i, v))
  BY <1>1, <1>8 DEF Refiled, Catalog!News
<1> QED
  BY <1>0, <1>1, <1>2, <1>3, <1>4, <1>5, <1>6, <1>7, <1>8, StepKinds

LEMMA BrowsedStep == ASSUME CatInv, [Catalog!Next]_catVars PROVE Browsed'
<1> USE DEF CatInv
<1>0. Catalog!TypeOK /\ RowTypes /\ RowTypes' /\ JobTypes /\ Browsed
  BY TypeFollows, RowTypesStep
<1> HIDE DEF CatInv
<1>1. ASSUME UNCHANGED <<catSeries, catIssue>> PROVE Browsed'
  BY <1>0, <1>1 DEF Browsed
<1>2. CASE Refiled
  <2>1. /\ UNCHANGED catSeries /\ DOMAIN catIssue' = DOMAIN catIssue
        /\ \A i \in DOMAIN catIssue : catIssue'[i].s = catIssue[i].s /\ catIssue'[i].mon = catIssue[i].mon
    BY <1>2 DEF Refiled
  <2> QED
    BY <1>0, <2>1 DEF Browsed
<1>3. ASSUME NEW w \in Workers, Catalog!Commit(w) PROVE Browsed'
  <2> DEFINE j == catJob[w]
             s == j.cmd.s
             opt == catSeries[s].options
  <2>1. /\ Working(j) /\ s \in DOMAIN catSeries
        /\ DOMAIN catSeries' = DOMAIN catSeries
        /\ \A t \in DOMAIN catSeries \ {s} : catSeries'[t] = catSeries[t]
        /\ catSeries'[s] = Catalog!Grouped(Catalog!Consumed(Catalog!Stamped(catSeries[s], j)))
    BY <1>0, <1>3, CommitWrites
  <2>2. /\ catSeries'[s].ro = catSeries[s].ro
        /\ catSeries'[s].monitored = catSeries[s].monitored
        /\ catSeries'[s].auto = catSeries[s].auto
        /\ catSeries'[s].options.strategy = "none" /\ ~catSeries'[s].options.pending
    BY <1>0, <2>1, Settles
  <2>3. /\ \A i \in DOMAIN catIssue' \cap DOMAIN catIssue :
             /\ catIssue'[i].s = catIssue[i].s
             /\ catIssue[i].s # s \/ ~opt.pending => catIssue'[i].mon = catIssue[i].mon
        /\ \A i \in DOMAIN catIssue' \ DOMAIN catIssue :
             catIssue'[i].s = s /\ (~opt.pending => catIssue'[i].mon = catSeries[s].auto)
        /\ \A i \in DOMAIN catIssue' :
             catIssue'[i].s = s /\ opt.pending /\ opt.strategy = "none" => ~catIssue'[i].mon
    BY <1>0, <1>3, CommitWrites
  <2> HIDE DEF j
  <2>4. \A t \in DOMAIN catSeries' : catSeries'[t].ro =>
          /\ ~catSeries'[t].monitored /\ ~catSeries'[t].auto
          /\ catSeries'[t].options.strategy = "none"
    BY <1>0, <2>1, <2>2 DEF Browsed
  <2>5. \A i \in DOMAIN catIssue' : /\ catSeries'[catIssue'[i].s].ro => ~catIssue'[i].mon
                                    /\ ~catSeries'[catIssue'[i].s].options.pending
    <3> SUFFICES ASSUME NEW i \in DOMAIN catIssue'
                 PROVE  /\ catSeries'[catIssue'[i].s].ro => ~catIssue'[i].mon
                        /\ ~catSeries'[catIssue'[i].s].options.pending
      OBVIOUS
    <3>0. catSeries[s].ro => ~catSeries[s].auto /\ opt.strategy = "none"
      BY <1>0, <2>1 DEF Browsed
    <3>1. CASE i \in DOMAIN catIssue /\ catIssue[i].s # s
      <4>1. /\ catIssue[i].s \in DOMAIN catSeries
            /\ catSeries[catIssue[i].s].ro => ~catIssue[i].mon
            /\ ~catSeries[catIssue[i].s].options.pending
        BY <1>0, <3>1 DEF Browsed, RowTypes
      <4> QED
        BY <2>1, <2>3, <3>1, <4>1
    <3>2. CASE i \in DOMAIN catIssue /\ catIssue[i].s = s
      <4>1. (catSeries[s].ro => ~catIssue[i].mon) /\ ~opt.pending
        BY <1>0, <3>2 DEF Browsed
      <4> QED
        BY <2>2, <2>3, <3>2, <4>1
    <3>3. CASE i \notin DOMAIN catIssue
      BY <2>2, <2>3, <3>0, <3>3
    <3> QED
      BY <3>1, <3>2, <3>3
  <2> QED
    BY <2>4, <2>5 DEF Browsed
<1>4. ASSUME NEW v \in Catalog!Volumes, NEW ro \in BOOLEAN, NEW opt \in catRegime.adds,
             Catalog!AddSeries(v, ro, opt)
      PROVE  Browsed'
  <2> DEFINE n == Catalog!NewId
  <2>1. /\ n \notin DOMAIN catSeries /\ UNCHANGED catIssue
        /\ catSeries' \in [DOMAIN catSeries \cup {n} -> Catalog!SeriesRow]
        /\ \A s \in DOMAIN catSeries : catSeries'[s] = catSeries[s]
        /\ catSeries'[n].ro => /\ ~catSeries'[n].monitored /\ ~catSeries'[n].auto
                               /\ catSeries'[n].options.strategy = "none"
    BY <1>0, <1>4, AddsRow
  <2> HIDE DEF n
  <2> QED
    BY <1>0, <2>1 DEF Browsed, RowTypes
<1>5. ASSUME NEW s \in Ids, Catalog!DeleteSeries(s) PROVE Browsed'
  <2>1. /\ catSeries' = [x \in DOMAIN catSeries \ {s} |-> catSeries[x]]
        /\ catIssue' = [i \in DOMAIN catIssue \ {k \in DOMAIN catIssue : catIssue[k].s = s} |-> catIssue[i]]
    BY <1>5 DEF Catalog!DeleteSeries, Catalog!Without, Catalog!Rowless, Catalog!Rows, Catalog!Of
  <2> QED
    BY <1>0, <2>1 DEF Browsed, RowTypes
<1>6. ASSUME NEW s \in Ids, Edited(s) PROVE Browsed'
  <2>1. DOMAIN catSeries' = DOMAIN catSeries /\ UNCHANGED catIssue /\ s \in DOMAIN catSeries
    BY <1>6 DEF Edited
  <2>2. \A t \in DOMAIN catSeries : /\ catSeries'[t].ro = catSeries[t].ro
                                    /\ catSeries'[t].options = catSeries[t].options
    BY <1>6 DEF Edited
  <2>3. \A t \in DOMAIN catSeries : catSeries[t].ro => ~catSeries'[t].monitored /\ ~catSeries'[t].auto
    BY <1>0, <1>6 DEF Edited, Browsed
  <2> QED
    BY <1>0, <2>1, <2>2, <2>3 DEF Browsed, RowTypes
<1>7. ASSUME NEW i \in Listed, NEW b \in BOOLEAN, Catalog!SetMonitored(i, b) PROVE Browsed'
  <2>1. /\ UNCHANGED catSeries /\ i \in DOMAIN catIssue
        /\ catIssue' \in [DOMAIN catIssue -> Catalog!IssueRow]
        /\ \A k \in DOMAIN catIssue \ {i} : catIssue'[k] = catIssue[k]
        /\ catIssue'[i].s = catIssue[i].s /\ ~catSeries[catIssue[i].s].ro
    BY <1>0, <1>7, SetsMonitored
  <2> QED
    BY <1>0, <2>1 DEF Browsed
<1>8. CASE \E i \in Listed, v \in Catalog!Volumes \cup {Nobody} : Catalog!News(i, v)
  BY <1>1, <1>8 DEF Catalog!News
<1> QED
  BY <1>0, <1>1, <1>2, <1>3, <1>4, <1>5, <1>6, <1>7, <1>8, StepKinds

\* The date of a volume never falls, and it rises when ComicVine moves an issue
\* to the volume or away from it.
LEMMA DatesRise ==
  ASSUME RowTypes, Catalog!TypeOK, [Catalog!Next]_catVars, NEW v \in Catalog!Volumes
  PROVE  /\ catCv.date[v] \in Nat /\ catCv'.date[v] \in Nat /\ catCv.date[v] <= catCv'.date[v]
         /\ catCv'.date[v] = catCv.date[v] => \A S : Lists(v, S) => Lists(v, S)'
<1>1. catCv.date[v] \in Nat
  BY DEF RowTypes
<1>2. ASSUME UNCHANGED catCv
      PROVE  /\ catCv'.date[v] = catCv.date[v] /\ \A S : Lists(v, S) => Lists(v, S)'
  BY <1>2 DEF Lists
<1>3. ASSUME NEW i \in Listed, NEW n \in Catalog!Volumes \cup {Nobody}, Catalog!News(i, n)
      PROVE  /\ catCv'.date[v] \in {catCv.date[v], catCv.date[v] + 1}
             /\ catCv'.date[v] = catCv.date[v] => \A S : Lists(v, S) => Lists(v, S)'
  <2>1. /\ catCv'.of = [catCv.of EXCEPT ![i] = n]
        /\ catCv'.date[v] = catCv.date[v] + IF v \in {n, catCv.of[i]} THEN 1 ELSE 0
    BY <1>3 DEF Catalog!News
  <2>2. \A k \in Listed \ {i} : catCv'.of[k] = catCv.of[k]
    BY <2>1 DEF RowTypes
  <2>3. catCv'.of[i] = n
    BY <2>1 DEF RowTypes
  <2>4. CASE v \in {n, catCv.of[i]}
    BY <1>1, <2>1, <2>4
  <2>5. CASE v \notin {n, catCv.of[i]}
    BY <1>1, <2>1, <2>2, <2>3, <2>5 DEF Lists
  <2> QED
    BY <2>4, <2>5
<1>4. ASSUME NEW w \in Workers, Catalog!Commit(w) PROVE UNCHANGED catCv
  BY <1>4 DEF Catalog!Commit, Catalog!Write
<1>5. ASSUME NEW x \in Catalog!Volumes, NEW ro \in BOOLEAN, NEW opt \in catRegime.adds,
             Catalog!AddSeries(x, ro, opt)
      PROVE  UNCHANGED catCv
  BY <1>5 DEF Catalog!AddSeries
<1>6. ASSUME NEW s \in Ids, Edited(s) \/ Catalog!DeleteSeries(s) PROVE UNCHANGED catCv
  BY <1>6 DEF Edited, Catalog!DeleteSeries
<1>7. ASSUME NEW i \in Listed, NEW b \in BOOLEAN, Catalog!SetMonitored(i, b) PROVE UNCHANGED catCv
  BY <1>7 DEF Catalog!SetMonitored
<1>8. UNCHANGED catCv \/ \E i \in Listed, n \in Catalog!Volumes \cup {Nobody} : Catalog!News(i, n)
  BY <1>4, <1>5, <1>6, <1>7, StepKinds DEF Refiled
<1> QED
  BY <1>1, <1>2, <1>3, <1>8

\* A row keeps its volume, and the id of a new one is no refresh's.
LEMMA VolumesStay ==
  ASSUME RowTypes, JobTypes, Catalog!TypeOK, [Catalog!Next]_catVars, NEW s \in DOMAIN catSeries'
  PROVE  \/ s \in DOMAIN catSeries /\ catSeries'[s].vol = catSeries[s].vol
         \/ /\ s \notin DOMAIN catSeries /\ catSeries'[s].date = 0
            /\ UNCHANGED catJob /\ (catRegime.reuse \/ \A w \in Workers : catJob[w].cmd.s # s)
<1>1. CASE UNCHANGED catSeries
  BY <1>1
<1>2. ASSUME NEW w \in Workers, Catalog!Commit(w)
      PROVE  s \in DOMAIN catSeries /\ catSeries'[s].vol = catSeries[s].vol
  <2> DEFINE j == catJob[w]
             t == j.cmd.s
  <2>1. /\ Working(j) /\ t \in DOMAIN catSeries /\ DOMAIN catSeries' = DOMAIN catSeries
        /\ \A x \in DOMAIN catSeries \ {t} : catSeries'[x] = catSeries[x]
        /\ catSeries'[t] = Catalog!Grouped(Catalog!Consumed(Catalog!Stamped(catSeries[t], j)))
    BY <1>2, CommitWrites
  <2>2. catSeries'[t].vol = catSeries[t].vol
    BY <2>1, Settles
  <2> HIDE DEF j
  <2> QED
    BY <2>1, <2>2
<1>3. ASSUME NEW v \in Catalog!Volumes, NEW ro \in BOOLEAN, NEW opt \in catRegime.adds,
             Catalog!AddSeries(v, ro, opt), s \notin DOMAIN catSeries
      PROVE  /\ catSeries'[s].date = 0 /\ UNCHANGED catJob
             /\ catRegime.reuse \/ \A w \in Workers : catJob[w].cmd.s # s
  <2> DEFINE n == Catalog!NewId
  <2>1. /\ catSeries' \in [DOMAIN catSeries \cup {n} -> Catalog!SeriesRow]
        /\ catSeries'[n].date = 0 /\ UNCHANGED catJob
        /\ catRegime.reuse \/ \A w \in Workers : catJob[w].cmd.s # n
    BY <1>3, AddsRow
  <2> HIDE DEF n
  <2>2. s = n
    BY <1>3, <2>1
  <2> QED
    BY <2>1, <2>2
<1>4. ASSUME NEW v \in Catalog!Volumes, NEW ro \in BOOLEAN, NEW opt \in catRegime.adds,
             Catalog!AddSeries(v, ro, opt), s \in DOMAIN catSeries
      PROVE  catSeries'[s] = catSeries[s]
  BY <1>4, AddsRow
<1>5. ASSUME NEW t \in Ids, Edited(t) PROVE s \in DOMAIN catSeries /\ catSeries'[s].vol = catSeries[s].vol
  BY <1>5 DEF Edited
<1>6. ASSUME NEW t \in Ids, Catalog!DeleteSeries(t)
      PROVE  s \in DOMAIN catSeries /\ catSeries'[s] = catSeries[s]
  BY <1>6 DEF Catalog!DeleteSeries, Catalog!Without, Catalog!Rows
<1>7. CASE \/ Refiled \/ (\E i \in Listed, b \in BOOLEAN : Catalog!SetMonitored(i, b))
           \/ \E i \in Listed, v \in Catalog!Volumes \cup {Nobody} : Catalog!News(i, v)
  BY <1>1, <1>7 DEF Refiled, Catalog!SetMonitored, Catalog!News
<1> QED
  BY <1>1, <1>2, <1>3, <1>4, <1>5, <1>6, <1>7, StepKinds

LEMMA DatedStep == ASSUME CatInv, [Catalog!Next]_catVars PROVE Dated'
<1> USE DEF CatInv
<1>0. Catalog!TypeOK /\ RowTypes /\ RowTypes' /\ JobTypes /\ Dated /\ Walking
  BY TypeFollows, RowTypesStep
<1> HIDE DEF CatInv
<1> DEFINE Holds(s) == {i \in DOMAIN catIssue : catIssue[i].s = s}
\* a series that keeps its date and loses no issue
<1>1. ASSUME NEW s \in DOMAIN catSeries, s \in DOMAIN catSeries',
             catSeries'[s].vol = catSeries[s].vol, catSeries'[s].date = catSeries[s].date,
             Holds(s) \subseteq Holds(s)'
      PROVE  /\ catSeries'[s].date <= catCv'.date[catSeries'[s].vol]
             /\ catSeries'[s].date # 0 /\ catSeries'[s].date = catCv'.date[catSeries'[s].vol]
                  => Lists(catSeries[s].vol, Holds(s))'
  <2> DEFINE v == catSeries[s].vol
             d == catSeries[s].date
  <2>1. v \in Catalog!Volumes /\ d \in Nat
    BY <1>0 DEF RowTypes, Catalog!SeriesRow
  <2>2. d <= catCv.date[v] /\ (d # 0 /\ d = catCv.date[v] => Lists(v, Holds(s)))
    BY <1>0 DEF Dated, Catalog!Of
  <2>3. /\ catCv.date[v] \in Nat /\ catCv'.date[v] \in Nat /\ catCv.date[v] <= catCv'.date[v]
        /\ catCv'.date[v] = catCv.date[v] => (Lists(v, Holds(s)) => \A i \in Listed : catCv'.of[i] = v => i \in Holds(s))
    BY <1>0, <2>1, DatesRise DEF Lists
  <2> HIDE DEF v, d
  <2>4. d <= catCv'.date[v]
        /\ (d # 0 /\ d = catCv'.date[v] => \A i \in Listed : catCv'.of[i] = v => i \in Holds(s))
    BY <2>1, <2>2, <2>3
  <2> HIDE DEF Holds
  <2> QED
    BY <1>1, <2>4 DEF v, d, Lists
<1> USE DEF Dated, Catalog!Of, Lists
<1>2. ASSUME \A s \in DOMAIN catSeries' :
               /\ s \in DOMAIN catSeries
               /\ catSeries'[s].vol = catSeries[s].vol /\ catSeries'[s].date = catSeries[s].date
               /\ Holds(s) \subseteq Holds(s)'
      PROVE  Dated'
  BY <1>1, <1>2
<1>3. CASE UNCHANGED <<catSeries, catIssue>>
  BY <1>2, <1>3
<1>4. CASE Refiled
  <2>1. /\ UNCHANGED catSeries /\ DOMAIN catIssue' = DOMAIN catIssue
        /\ \A i \in DOMAIN catIssue : catIssue'[i].s = catIssue[i].s
    BY <1>4 DEF Refiled
  <2> QED
    BY <1>2, <2>1
<1>5. ASSUME NEW s \in Ids, Edited(s) PROVE Dated'
  <2>1. /\ DOMAIN catSeries' = DOMAIN catSeries /\ UNCHANGED catIssue
        /\ \A t \in DOMAIN catSeries :
             catSeries'[t].vol = catSeries[t].vol /\ catSeries'[t].date = catSeries[t].date
    BY <1>5 DEF Edited
  <2> QED
    BY <1>2, <2>1
<1>6. ASSUME NEW i \in Listed, NEW b \in BOOLEAN, Catalog!SetMonitored(i, b) PROVE Dated'
  <2>1. /\ UNCHANGED catSeries /\ i \in DOMAIN catIssue
        /\ catIssue' \in [DOMAIN catIssue -> Catalog!IssueRow]
        /\ \A k \in DOMAIN catIssue \ {i} : catIssue'[k] = catIssue[k]
        /\ catIssue'[i].s = catIssue[i].s
    BY <1>0, <1>6, SetsMonitored
  <2> QED
    BY <1>2, <2>1
<1>7. ASSUME NEW s \in Ids, Catalog!DeleteSeries(s) PROVE Dated'
  <2>1. /\ catSeries' = [x \in DOMAIN catSeries \ {s} |-> catSeries[x]]
        /\ catIssue' = [i \in DOMAIN catIssue \ {k \in DOMAIN catIssue : catIssue[k].s = s} |-> catIssue[i]]
    BY <1>7 DEF Catalog!DeleteSeries, Catalog!Without, Catalog!Rowless, Catalog!Rows
  <2> QED
    BY <1>2, <2>1
<1>8. ASSUME NEW v \in Catalog!Volumes, NEW ro \in BOOLEAN, NEW opt \in catRegime.adds,
             Catalog!AddSeries(v, ro, opt)
      PROVE  Dated'
  <2> DEFINE n == Catalog!NewId
  <2>1. /\ n \notin DOMAIN catSeries /\ UNCHANGED <<catCv, catIssue>>
        /\ catSeries' \in [DOMAIN catSeries \cup {n} -> Catalog!SeriesRow]
        /\ \A s \in DOMAIN catSeries : catSeries'[s] = catSeries[s]
        /\ catSeries'[n].date = 0 /\ catSeries'[n].vol = v
    BY <1>0, <1>8, AddsRow
  <2> HIDE DEF n
  <2>2. catCv.date[v] \in Nat
    BY <1>0 DEF RowTypes
  <2>3. \A s \in DOMAIN catSeries : Holds(s) \subseteq Holds(s)'
    BY <2>1
  <2>4. \A s \in DOMAIN catSeries' : s \in DOMAIN catSeries \/ s = n
    BY <2>1
  <2> HIDE DEF Holds
  <2> QED
    BY <1>1, <2>1, <2>2, <2>3, <2>4 DEF Holds
<1>9. ASSUME NEW w \in Workers, Catalog!Commit(w) PROVE Dated'
  <2>0. PICK j, s : j = catJob[w] /\ s = j.cmd.s
    OBVIOUS
  <2>1. /\ Working(j) /\ s \in DOMAIN catSeries /\ j.at = "commit"
        /\ DOMAIN catSeries' = DOMAIN catSeries
        /\ \A t \in DOMAIN catSeries \ {s} : catSeries'[t] = catSeries[t]
        /\ catSeries'[s] = Catalog!Grouped(Catalog!Consumed(Catalog!Stamped(catSeries[s], j)))
    BY <1>0, <1>9, <2>0, CommitWrites
  <2>2. /\ catSeries'[s].vol = catSeries[s].vol
        /\ catSeries'[s].date = IF j.short THEN catSeries[s].date ELSE IF j.whole THEN j.date ELSE 0
    BY <1>0, <2>1, Settles
  <2>3. /\ \A i \in DOMAIN catIssue' \cap DOMAIN catIssue : catIssue'[i].s = catIssue[i].s
        /\ \A i \in DOMAIN catIssue \ DOMAIN catIssue' : catIssue[i].s = s
        /\ ~j.short => \A i \in j.page : i \in DOMAIN catIssue' /\ catIssue'[i].s = s
        /\ j.short => DOMAIN catIssue' = DOMAIN catIssue
    BY <1>0, <1>9, <2>0, CommitWrites
  <2>4. UNCHANGED catCv
    BY <1>9 DEF Catalog!Commit, Catalog!Write
  <2>5. /\ catSeries[s].vol = j.vol /\ j.vol \in Catalog!Volumes /\ j.date <= catCv.date[j.vol]
        /\ (~j.short /\ j.whole /\ j.date = catCv.date[j.vol] => Lists(j.vol, j.page))
    BY <1>0, <2>0, <2>1 DEF Walking
  <2>6. catCv.date[j.vol] \in Nat /\ j.short \in BOOLEAN /\ j.whole \in BOOLEAN
    BY <1>0, <2>1, <2>5 DEF RowTypes, Working
  <2>7. \A t \in DOMAIN catSeries \ {s} : Holds(t) \subseteq Holds(t)'
    BY <2>3
  <2>8. /\ catSeries'[s].date <= catCv'.date[catSeries'[s].vol]
        /\ catSeries'[s].date # 0 /\ catSeries'[s].date = catCv'.date[catSeries'[s].vol]
             => Lists(catSeries[s].vol, Holds(s))'
    <3>1. CASE j.short
      <4>1. Holds(s) \subseteq Holds(s)'
        BY <2>3, <3>1
      <4> QED
        BY <1>1, <2>1, <2>2, <3>1, <4>1
    <3>2. CASE ~j.short /\ j.whole
      <4>1. \A i \in j.page : i \in Holds(s)'
        BY <2>3, <3>2
      <4> HIDE DEF Holds
      <4> QED
        BY <2>2, <2>4, <2>5, <3>2, <4>1
    <3>3. CASE ~j.short /\ ~j.whole
      BY <2>2, <2>4, <2>5, <2>6, <3>3
    <3> QED
      BY <2>6, <3>1, <3>2, <3>3
  <2> HIDE DEF Holds
  <2> QED
    BY <1>1, <2>1, <2>2, <2>7, <2>8 DEF Holds
<1>10. CASE \E i \in Listed, v \in Catalog!Volumes \cup {Nobody} : Catalog!News(i, v)
  BY <1>3, <1>10 DEF Catalog!News
<1> QED
  BY <1>0, <1>3, <1>4, <1>5, <1>6, <1>7, <1>8, <1>9, <1>10, StepKinds

LEMMA WalkingStep ==
  ASSUME CatInv, [Catalog!Next]_catVars, ~catRegime.reuse PROVE Walking'
<1> USE DEF CatInv
<1>0. Catalog!TypeOK /\ RowTypes /\ JobTypes /\ Walking
  BY TypeFollows
<1>1. \A w \in Workers :
        \/ catJob'[w] = catJob[w] \/ catJob'[w].at \notin {"walk", "commit"}
        \/ Catalog!ReadVolume(w)
        \/ \E page, fetched \in SUBSET Listed : Catalog!Walk(w, page, fetched)
  BY JobsStep
<1> HIDE DEF CatInv
<1> DEFINE Good(j) ==
      /\ j.vol \in Catalog!Volumes /\ j.date <= catCv'.date[j.vol]
      /\ j.cmd.s \in DOMAIN catSeries' => catSeries'[j.cmd.s].vol = j.vol
      /\ (j.at = "commit" /\ ~j.short /\ j.whole /\ j.date = catCv'.date[j.vol])
           => \A i \in Listed : catCv'.of[i] = j.vol => i \in j.page
<1>2. ASSUME NEW w \in Workers, NEW j, j = catJob[w], j.at \in {"walk", "commit"}, catJob'[w] = j
      PROVE  Good(j)
  <2>1. Working(j)
    BY <1>0, <1>2 DEF JobTypes
  <2>2. /\ j.vol \in Catalog!Volumes /\ j.date <= catCv.date[j.vol]
        /\ j.cmd.s \in DOMAIN catSeries => catSeries[j.cmd.s].vol = j.vol
        /\ (j.at = "commit" /\ ~j.short /\ j.whole /\ j.date = catCv.date[j.vol])
             => Lists(j.vol, j.page)
    BY <1>0, <1>2 DEF Walking
  <2>3. /\ catCv.date[j.vol] \in Nat /\ catCv'.date[j.vol] \in Nat
        /\ catCv.date[j.vol] <= catCv'.date[j.vol] /\ j.date \in Nat
        /\ catCv'.date[j.vol] = catCv.date[j.vol] /\ Lists(j.vol, j.page)
             => \A i \in Listed : catCv'.of[i] = j.vol => i \in j.page
    BY <1>0, <2>1, <2>2, DatesRise DEF Lists, Working
  <2>4. j.cmd.s \in DOMAIN catSeries' => catSeries'[j.cmd.s].vol = j.vol
    <3> SUFFICES ASSUME j.cmd.s \in DOMAIN catSeries' PROVE catSeries'[j.cmd.s].vol = j.vol
      OBVIOUS
    <3>1. \/ j.cmd.s \in DOMAIN catSeries /\ catSeries'[j.cmd.s].vol = catSeries[j.cmd.s].vol
          \/ \A v \in Workers : catJob[v].cmd.s # j.cmd.s
      BY <1>0, VolumesStay
    <3> QED
      BY <1>2, <2>2, <3>1
  <2> HIDE DEF Lists
  <2> QED
    BY <2>2, <2>3, <2>4
<1>3. ASSUME NEW w \in Workers, Catalog!ReadVolume(w), NEW k, k = catJob'[w], k.at \in {"walk", "commit"}
      PROVE  Good(k)
  <2>0. PICK j, s : j = catJob[w] /\ s = j.cmd.s
    OBVIOUS
  <2>1. Working(j)
    BY <1>0, <2>0 DEF JobTypes
  <2>2. UNCHANGED <<catCv, catSeries>> /\ catJob = [v \in Workers |-> catJob[v]]
    BY <1>0, <1>3 DEF Catalog!ReadVolume, JobTypes
  <2>3. CASE s \notin DOMAIN catSeries
    <3>1. catJob' = [catJob EXCEPT ![w] = Catalog!NoJob]
      BY <1>3, <2>0, <2>3 DEF Catalog!ReadVolume, Catalog!Target, Catalog!Rows, Catalog!Ends
    <3>2. k = Catalog!NoJob
      BY <1>3, <2>2, <3>1
    <3> QED
      BY <1>3, <3>2, NoJobWorks
  <2>4. CASE s \in DOMAIN catSeries
    <3>1. PICK row : row = catSeries[s]
      OBVIOUS
    <3>2. PICK x : /\ catJob' = [catJob EXCEPT ![w] = x] /\ x.cmd = j.cmd
                   /\ x.at = "walk" /\ x.vol = row.vol /\ x.date = catCv.date[row.vol]
      BY <1>0, <1>3, <2>0, <2>1, <2>4, <3>1, Reads
    <3>3. k = x
      BY <1>3, <2>2, <3>2
    <3>4. row.vol \in Catalog!Volumes /\ catCv.date[row.vol] \in Nat
      BY <1>0, <2>4, <3>1 DEF RowTypes, Catalog!SeriesRow
    <3> QED
      BY <2>0, <2>2, <3>1, <3>2, <3>3, <3>4
  <2> QED
    BY <2>3, <2>4
<1>4. ASSUME NEW w \in Workers, NEW page \in SUBSET Listed, NEW fetched \in SUBSET Listed,
             Catalog!Walk(w, page, fetched), NEW k, k = catJob'[w]
      PROVE  Good(k)
  <2>0. PICK j : j = catJob[w]
    OBVIOUS
  <2>1. Working(j)
    BY <1>0, <2>0 DEF JobTypes
  <2>2. UNCHANGED <<catCv, catSeries>> /\ catJob = [v \in Workers |-> catJob[v]]
    BY <1>0, <1>4 DEF Catalog!Walk, JobTypes
  <2>3. PICK x : /\ catJob' = [catJob EXCEPT ![w] = x] /\ x.cmd = j.cmd /\ j.at = "walk"
                 /\ x.vol = j.vol /\ x.date = j.date /\ x.page = page
                 /\ x.whole = (page = Catalog!ListedIn(j.vol))
    BY <1>0, <1>4, <2>0, <2>1, Walks
  <2>4. k = x
    BY <1>4, <2>2, <2>3
  <2>5. /\ j.vol \in Catalog!Volumes /\ j.date <= catCv.date[j.vol]
        /\ j.cmd.s \in DOMAIN catSeries => catSeries[j.cmd.s].vol = j.vol
    BY <1>0, <2>0, <2>3 DEF Walking
  <2>6. x.whole => \A i \in Listed : catCv.of[i] = j.vol => i \in page
    BY <2>3 DEF Catalog!ListedIn
  <2> QED
    BY <2>2, <2>3, <2>4, <2>5, <2>6
<1>5. ASSUME NEW w \in Workers, catJob'[w].at \in {"walk", "commit"} PROVE Good(catJob'[w])
  <2> HIDE DEF Good
  <2>1. CASE catJob'[w] = catJob[w]
    BY <1>2, <1>5, <2>1
  <2>2. CASE Catalog!ReadVolume(w)
    BY <1>3, <1>5, <2>2
  <2>3. CASE \E page, fetched \in SUBSET Listed : Catalog!Walk(w, page, fetched)
    BY <1>4, <1>5, <2>3
  <2> QED
    BY <1>1, <1>5, <2>1, <2>2, <2>3
<1> QED
  BY <1>5 DEF Walking, Lists

LEMMA CatInit == Catalog!Init => CatInv
<1> SUFFICES ASSUME Catalog!Init PROVE CatInv
  OBVIOUS
<1> DEFINE r == catRegime
<1>1. r \in CatalogueRegimes /\ catCv.of = r.of /\ catSeries = r.rows /\ catIssue = r.issues
  BY DEF Catalog!Init
<1>2. /\ catCv.date = [v \in Catalog!Volumes |-> 1] /\ catCreator = r.seeded /\ catQueue = {}
      /\ catGroup = {catSeries[s].group : s \in DOMAIN catSeries} \ {Nobody}
      /\ catJob = [w \in Workers |-> Catalog!NoJob]
  BY DEF Catalog!Init
<1>3. /\ r.of \in [Listed -> Catalog!Volumes \cup {Nobody}]
      /\ DOMAIN r.rows \subseteq Ids /\ r.rows \in [DOMAIN r.rows -> Catalog!SeriesRow]
      /\ DOMAIN r.issues \subseteq Listed /\ r.issues \in [DOMAIN r.issues -> Catalog!IssueRow]
      /\ DOMAIN r.seeded \subseteq Catalog!People
      /\ r.seeded \in [DOMAIN r.seeded -> Catalog!Person]
      /\ \A i \in DOMAIN r.issues :
           r.issues[i].s \in DOMAIN r.rows /\ (r.rows[r.issues[i].s].ro => ~r.issues[i].mon)
      /\ \A s \in DOMAIN r.rows :
           /\ r.rows[s].ro => ~r.rows[s].monitored /\ ~r.rows[s].auto
           /\ r.rows[s].options = Catalog!NoOptions /\ r.rows[s].date \in {0, 1}
           /\ r.rows[s].date = 1 => \A i \in Listed : r.of[i] = r.rows[s].vol =>
                i \in DOMAIN r.issues /\ r.issues[i].s = s
  BY <1>1, LibraryAssumption DEF Catalog!CatalogueAssumption
<1> HIDE DEF r
<1>4. catCv.date \in [Catalog!Volumes -> Nat] /\ \A v \in Catalog!Volumes : catCv.date[v] = 1
  BY <1>2
<1>5. \A s \in DOMAIN catSeries : /\ catSeries[s].vol \in Catalog!Volumes
                                  /\ catSeries[s].group \in {Key[v] : v \in Catalog!Volumes} \cup {Nobody}
  BY <1>1, <1>3 DEF Catalog!SeriesRow
<1>6. RowTypes
  BY <1>1, <1>3, <1>4 DEF RowTypes, r
<1>7. People
  BY <1>2, <1>3 DEF People
<1>8. \A w \in Workers : catJob[w] = Catalog!NoJob
  BY <1>2
<1>9. JobTypes
  BY <1>2, <1>8, NoJobWorks DEF JobTypes
<1>10. Queued
  BY <1>2 DEF Queued
<1>11. Franchised
  BY <1>2, <1>5 DEF Franchised
<1>12. ~Catalog!NoOptions.pending /\ Catalog!NoOptions.strategy = "none"
  BY DEF Catalog!NoOptions
<1>13. Browsed
  BY <1>1, <1>3, <1>12 DEF Browsed
<1>14. Dated
  BY <1>1, <1>3, <1>4, <1>5 DEF Dated, Lists, Catalog!Of
<1>15. Walking
  BY <1>8, NoJobWorks DEF Walking
<1> QED
  BY <1>6, <1>7, <1>9, <1>10, <1>11, <1>13, <1>14, <1>15 DEF CatInv

\* Every series has its franchise.
LEMMA ListsOnce == ASSUME CatInv PROVE Catalog!ListedOnce
<1> DEFINE alone == {x \in DOMAIN catSeries : catSeries[x].group = Nobody}
           with(g) == {t \in DOMAIN catSeries : catSeries[t].group = g}
<1>1. Catalog!Franchises = {with(g) : g \in catGroup} \cup {{s} : s \in alone}
  BY DEF Catalog!Franchises, Catalog!Members, Catalog!Rows
<1>2. /\ Nobody \notin catGroup
      /\ \A s \in DOMAIN catSeries : catSeries[s].group \in catGroup \cup {Nobody}
      /\ \A g \in catGroup : with(g) # {}
  BY DEF CatInv, Franchised
<1>3. {} \notin Catalog!Franchises
  BY <1>1, <1>2
<1>4. ASSUME NEW s \in DOMAIN catSeries
      PROVE  \E f \in Catalog!Franchises : s \in f /\ \A x \in Catalog!Franchises \ {f} : s \notin x
  <2>1. CASE catSeries[s].group = Nobody
    <3>1. {s} \in Catalog!Franchises
      BY <1>1, <2>1
    <3>2. \A g \in catGroup : s \notin with(g)
      BY <1>2, <2>1
    <3>3. \A x \in Catalog!Franchises \ {{s}} : s \notin x
      BY <1>1, <3>2
    <3> QED
      BY <3>1, <3>3
  <2>2. CASE catSeries[s].group # Nobody
    <3> DEFINE f == with(catSeries[s].group)
    <3>1. f \in Catalog!Franchises /\ s \in f
      BY <1>1, <1>2, <2>2
    <3>2. \A x \in Catalog!Franchises \ {f} : s \notin x
      BY <1>1, <2>2
    <3> HIDE DEF f
    <3> QED
      BY <3>1, <3>2
  <2> QED
    BY <2>1, <2>2
<1> QED
  BY <1>3, <1>4 DEF Catalog!ListedOnce, Catalog!Rows

\* An issue that leaves had no file, or its series left with it.
LEMMA OwnedStay ==
  ASSUME CatInv, [Catalog!Next]_catVars,
         NEW i \in DOMAIN catIssue, catIssue[i].file, i \notin DOMAIN catIssue'
  PROVE  catIssue[i].s \notin DOMAIN catSeries'
<1>0. Catalog!TypeOK /\ RowTypes /\ JobTypes
  BY TypeFollows DEF CatInv
<1>1. ASSUME NEW w \in Workers, Catalog!Commit(w) PROVE FALSE
  BY <1>0, <1>1, CommitWrites
<1>2. ASSUME NEW s \in Ids, Catalog!DeleteSeries(s) PROVE catIssue[i].s \notin DOMAIN catSeries'
  <2>1. /\ catSeries' = [x \in DOMAIN catSeries \ {s} |-> catSeries[x]]
        /\ catIssue' = [k \in DOMAIN catIssue \ {k \in DOMAIN catIssue : catIssue[k].s = s} |-> catIssue[k]]
    BY <1>2 DEF Catalog!DeleteSeries, Catalog!Without, Catalog!Rowless, Catalog!Rows, Catalog!Of
  <2> QED
    BY <2>1
<1>3. ASSUME NEW k \in Listed, NEW b \in BOOLEAN, Catalog!SetMonitored(k, b) PROVE FALSE
  <2>1. catIssue' \in [DOMAIN catIssue -> Catalog!IssueRow]
    BY <1>0, <1>3, SetsMonitored
  <2> QED
    BY <2>1
<1>4. CASE Refiled \/ UNCHANGED catIssue
  BY <1>4 DEF Refiled
<1>5. CASE \/ \E k \in Listed, v \in Catalog!Volumes \cup {Nobody} : Catalog!News(k, v)
           \/ \E v \in Catalog!Volumes, ro \in BOOLEAN, opt \in catRegime.adds :
                 Catalog!AddSeries(v, ro, opt)
           \/ \E s \in Ids : Edited(s)
  BY <1>4, <1>5 DEF Catalog!News, Catalog!AddSeries, Edited
<1> QED
  BY <1>0, <1>1, <1>2, <1>3, <1>4, <1>5, StepKinds

\* What the operator chose outlasts every other step.
LEMMA ChoicesOutlast ==
  ASSUME CatInv, [Catalog!Next]_catVars, ~Catalog!Operator PROVE Catalog!Stands
<1>0. Catalog!TypeOK /\ RowTypes /\ JobTypes /\ People /\ Browsed
  BY TypeFollows DEF CatInv
<1> USE DEF Catalog!Stands, Catalog!Rows
<1>1. CASE UNCHANGED <<catIssue, catSeries, catCreator>>
  BY <1>1
<1>2. ASSUME Refiled, UNCHANGED catCreator PROVE Catalog!Stands
  BY <1>2 DEF Refiled
<1>3. ASSUME NEW w \in Workers, Catalog!Commit(w) PROVE Catalog!Stands
  <2>0. PICK j, s : j = catJob[w] /\ s = j.cmd.s
    OBVIOUS
  <2>1. /\ Working(j) /\ s \in DOMAIN catSeries
        /\ \A t \in DOMAIN catSeries \ {s} : catSeries'[t] = catSeries[t]
        /\ catSeries'[s] = Catalog!Grouped(Catalog!Consumed(Catalog!Stamped(catSeries[s], j)))
    BY <1>0, <1>3, <2>0, CommitWrites
  <2>2. catSeries[s].locked => catSeries'[s].group = catSeries[s].group
    BY <1>0, <2>1, Settles
  <2>3. \A i \in DOMAIN catIssue \cap DOMAIN catIssue' :
          catIssue[i].s # s \/ ~catSeries[s].options.pending => catIssue'[i].mon = catIssue[i].mon
    BY <1>0, <1>3, <2>0, CommitWrites
  <2>4. \A i \in DOMAIN catIssue : catIssue[i].s = s => ~catSeries[s].options.pending
    BY <1>0 DEF Browsed
  <2>5. \A p \in DOMAIN catCreator : catCreator[p].touched =>
          p \in DOMAIN catCreator' /\ catCreator'[p] = catCreator[p]
    BY <1>3 DEF Catalog!Commit, Catalog!Write, Catalog!Creators, Catalog!Kept
  <2> QED
    BY <2>1, <2>2, <2>3, <2>4, <2>5
<1>4. ASSUME NEW w \in Workers, Catalog!Work(w) PROVE Catalog!Stands
  <2>1. CASE Catalog!ScanRegister(w)
    <3>1. UNCHANGED catCreator
      BY <2>1 DEF Catalog!ScanRegister
    <3> QED
      BY <1>0, <1>2, <2>1, <3>1, ScansRefile
  <2>2. Catalog!Commit(w) \/ Catalog!ScanRegister(w) \/ UNCHANGED <<catIssue, catSeries, catCreator>>
    BY <1>4 DEF Catalog!Work, Catalog!Refresh, Catalog!Scan, Catalog!Backfill, Catalog!ReadVolume,
       Catalog!Walk, Catalog!WalkFails, Catalog!CommitVoid, Catalog!Chain, Catalog!ScanRead,
       Catalog!ScanEnds, Catalog!BackfillRead, Catalog!BackfillNext, Catalog!BackfillMark,
       Catalog!Take
  <2> QED
    BY <1>1, <1>3, <2>1, <2>2
<1>5. CASE Catalog!World
  <2>1. ASSUME NEW i \in Listed, Catalog!FileComes(i) \/ Catalog!FileGoes(i) PROVE Catalog!Stands
    <3>1. UNCHANGED catCreator
      BY <2>1 DEF Catalog!FileComes, Catalog!FileGoes
    <3> QED
      BY <1>0, <1>2, <2>1, <3>1, FilesRefile
  <2>2. ASSUME NEW s \in Ids, Catalog!WeekPasses(s) PROVE Catalog!Stands
    <3> DEFINE x == [catSeries[s] EXCEPT !.fresh = FALSE]
    <3>1. /\ s \in DOMAIN catSeries /\ catSeries' = [catSeries EXCEPT ![s] = x]
          /\ UNCHANGED <<catIssue, catCreator>>
      BY <2>2 DEF Catalog!WeekPasses
    <3>2. x.group = catSeries[s].group
      BY <1>0, <3>1 DEF RowTypes, Catalog!SeriesRow
    <3> HIDE DEF x
    <3> QED
      BY <3>1, <3>2
  <2>3. ASSUME NEW i \in Listed, NEW v \in Catalog!Volumes \cup {Nobody}, Catalog!News(i, v)
        PROVE  Catalog!Stands
    BY <1>1, <2>3 DEF Catalog!News
  <2> QED
    BY <1>5, <2>1, <2>2, <2>3 DEF Catalog!World
<1>6. CASE Catalog!Unseed
  <2> DEFINE un(p) == [catCreator[p] EXCEPT !.followed = catCreator[p].followed /\ catCreator[p].touched]
  <2>1. \A p \in DOMAIN catCreator : catCreator[p].touched => un(p) = catCreator[p]
    BY <1>0 DEF People, Catalog!Person
  <2>2. /\ UNCHANGED <<catIssue, catSeries>>
        /\ catCreator' = catCreator \/ catCreator' = [p \in DOMAIN catCreator |-> un(p)]
    BY <1>6 DEF Catalog!Unseed
  <2> HIDE DEF un
  <2> QED
    BY <2>1, <2>2
<1>7. CASE Catalog!AskBackfill \/ Catalog!Crash \/ UNCHANGED catVars \/ \E s \in Ids : Catalog!Search(s)
  <2>1. UNCHANGED <<catIssue, catSeries, catCreator>>
    BY <1>7 DEF Catalog!AskBackfill, Catalog!Crash, Catalog!Search, catVars
  <2> QED
    BY <1>1, <2>1
<1> QED
  BY <1>4, <1>5, <1>6, <1>7 DEF Catalog!Next, Catalog!Starting

LEMMA CatStep ==
  ASSUME CatInv, [Catalog!Next]_catVars, \A r \in CatalogueRegimes : ~r.reuse PROVE CatInv'
<1>1. ~catRegime.reuse
  BY DEF CatInv, RowTypes
<1>2. JobTypes'
  BY JobsStep
<1> QED
  BY <1>1, <1>2, RowTypesStep, PeopleStep, QueueStep, FranchisedStep, BrowsedStep, DatedStep,
     WalkingStep DEF CatInv

\* As long as no refresh is under way for an id that SQLite gives out again, refreshes,
\* scans, edits, deletions, crashes and ComicVine's own changes, in every order, lose no
\* owned issue and no choice of the operator, keep no date that was not earned, make
\* nothing of a browse-only library wanted and leave each series in one franchise.
THEOREM RefreshesHarmNothing ==
  ASSUME \A r \in CatalogueRegimes : ~r.reuse
  PROVE  Spec => RefreshHarmless
<1>1. Init => CatInv
  BY CatInit DEF Init
<1>2. CatInv /\ [Next]_vars => CatInv'
  BY OneActs, CatStep
<1>3. CatInv => (focus = "catalogue" => /\ Catalog!TypeOK /\ Catalog!DateIsEarned
                                        /\ Catalog!BrowseOnly /\ Catalog!ListedOnce)
  <2> SUFFICES ASSUME CatInv
               PROVE  /\ Catalog!TypeOK /\ Catalog!DateIsEarned
                      /\ Catalog!BrowseOnly /\ Catalog!ListedOnce
    OBVIOUS
  <2>1. Catalog!DateIsEarned
    BY DEF CatInv, Dated, Lists, Catalog!DateIsEarned, Catalog!ListedIn, Catalog!Rows
  <2>2. Catalog!BrowseOnly
    BY DEF CatInv, Browsed, Catalog!BrowseOnly, Catalog!Rows, Catalog!Of
  <2> QED
    BY <2>1, <2>2, TypeFollows, ListsOnce
<1>4. CatInv /\ [Next]_vars
      => [\A i \in DOMAIN catIssue : Catalog!Owned(i) /\ i \notin DOMAIN catIssue' =>
            catIssue[i].s \notin DOMAIN catSeries']_(Catalog!vars)
  BY OneActs, OwnedStay DEF Catalog!Owned
<1>5. CatInv /\ [Next]_vars => [Catalog!Operator \/ Catalog!Stands]_(Catalog!vars)
  BY OneActs, ChoicesOutlast
<1> QED
  BY <1>1, <1>2, <1>3, <1>4, <1>5, PTL
     DEF Spec, RefreshHarmless, Catalog!OwnedStays, Catalog!ChoicesStand

(***************************************************************************)
(* The files of a series.                                                   *)
(***************************************************************************)
Fields == {"at", "todo", "moved", "cur", "pending", "whole", "alone"}
Cell(w) == DOMAIN w = Fields

Shaped == /\ DOMAIN shelfActor = Shelf!Actors
          /\ \A a \in Shelf!Actors : Cell(shelfActor[a])

Columns == {"path", "c", "issue"}

\* a table of rows: its ids are positive numbers, its index refuses a path twice
Table(rs) == /\ \E b \in Nat : DOMAIN rs \subseteq 1..b
             /\ \A r, s \in DOMAIN rs : rs[r].path = rs[s].path => r = s
             /\ \A r \in DOMAIN rs : DOMAIN rs[r] = Columns

\* What there is, is finite, and row ids are positive numbers.
Sized ==
  /\ shelfRegime \in FileRegimes
  /\ Shaped
  /\ IsFiniteSet(DOMAIN shelfDisk) /\ Table(shelfRows)
  /\ shelfActor["pp"].at = "importing" => Table(shelfActor["pp"].pending)
  /\ shelfActor["scan"].at = "scanned" => IsFiniteSet(shelfActor["scan"].todo)

LEMMA IdleIs ==
  /\ Cell(Shelf!Idle) /\ Shelf!Idle.at = "idle" /\ Shelf!Idle.todo = {} /\ Shelf!Idle.moved = {}
  /\ Shelf!Idle.cur = {} /\ Shelf!Idle.pending = <<>> /\ Shelf!Idle.whole = FALSE
  /\ Shelf!Idle.alone = TRUE
  BY DEF Shelf!Idle, Cell, Fields

LEMMA Goes ==
  ASSUME NEW a \in Shelf!Actors, NEW c, Shaped, Cell(c), Shelf!Goto(a, c)
  PROVE  /\ Shaped' /\ shelfActor'[a] = c
         /\ \A b \in Shelf!Actors \ {a} : shelfActor'[b] = shelfActor[b]
  BY DEF Shaped, Shelf!Goto

LEMMA Begins ==
  ASSUME NEW a \in Shelf!Actors, NEW c, Shaped, Cell(c), Shelf!Begin(a, c)
  PROVE  /\ Shaped' /\ shelfActor'[a] = [c EXCEPT !.alone = Shelf!Quiet]
         /\ Cell(shelfActor'[a]) /\ shelfActor'[a].alone = Shelf!Quiet
         /\ shelfActor'[a].at = c.at /\ shelfActor'[a].todo = c.todo /\ shelfActor'[a].moved = c.moved
         /\ shelfActor'[a].cur = c.cur /\ shelfActor'[a].pending = c.pending
         /\ shelfActor'[a].whole = c.whole
         /\ \A b \in Shelf!Actors \ {a} :
              /\ shelfActor'[b].at = shelfActor[b].at /\ shelfActor'[b].todo = shelfActor[b].todo
              /\ shelfActor'[b].moved = shelfActor[b].moved /\ shelfActor'[b].cur = shelfActor[b].cur
              /\ shelfActor'[b].pending = shelfActor[b].pending
              /\ shelfActor'[b].whole = shelfActor[b].whole /\ shelfActor'[b].alone = FALSE
<1>1. shelfActor' = [b \in Shelf!Actors |-> IF b = a THEN [c EXCEPT !.alone = Shelf!Quiet]
                                            ELSE [shelfActor[b] EXCEPT !.alone = FALSE]]
  BY DEF Shelf!Begin
<1>2. shelfActor'[a] = [c EXCEPT !.alone = Shelf!Quiet]
  BY <1>1
<1>3. \A b \in Shelf!Actors \ {a} : shelfActor'[b] = [shelfActor[b] EXCEPT !.alone = FALSE]
  BY <1>1
<1> QED
  BY <1>1, <1>2, <1>3 DEF Shaped, Cell, Fields

LEMMA BeginsHere ==
  ASSUME NEW a \in Shelf!Actors, NEW c, Shaped, Cell(c), Shelf!Begin(a, c)
  PROVE  /\ shelfActor'[a].at = c.at /\ shelfActor'[a].pending = c.pending
         /\ shelfActor'[a].alone = Shelf!Quiet
  BY Begins

LEMMA BeginsBeside ==
  ASSUME NEW a \in Shelf!Actors, NEW b \in Shelf!Actors \ {a}, NEW c, Shaped, Cell(c), Shelf!Begin(a, c)
  PROVE  shelfActor'[b].at = shelfActor[b].at /\ shelfActor'[b].alone = FALSE
  BY Begins

\* What the operations on files and rows do to a table.
LEMMA WithDomain == ASSUME NEW f, NEW k, NEW v PROVE DOMAIN Shelf!With(f, k, v) = DOMAIN f \cup {k}
  BY DEF Shelf!With

LEMMA WithValue ==
  ASSUME NEW f, NEW k, NEW v, NEW x \in DOMAIN f \cup {k}
  PROVE  Shelf!With(f, k, v)[x] = IF x = k THEN v ELSE f[x]
  BY DEF Shelf!With

LEMMA WithoutDomain == ASSUME NEW f, NEW ks PROVE DOMAIN Shelf!Without(f, ks) = DOMAIN f \ ks
  BY DEF Shelf!Without, Shelf!Restrict

LEMMA WithoutValue ==
  ASSUME NEW f, NEW ks, NEW x \in DOMAIN f \ ks PROVE Shelf!Without(f, ks)[x] = f[x]
  BY DEF Shelf!Without, Shelf!Restrict

LEMMA MovedDomain ==
  ASSUME NEW d, NEW from, NEW to
  PROVE  DOMAIN Shelf!Moved(d, from, to) = (DOMAIN d \ {from}) \cup {to}
  BY DEF Shelf!Moved, Shelf!With, Shelf!Without, Shelf!Restrict

LEMMA MovedValue ==
  ASSUME NEW d, NEW from, NEW to, NEW x \in (DOMAIN d \ {from}) \cup {to}
  PROVE  Shelf!Moved(d, from, to)[x] = IF x = to THEN d[from] ELSE d[x]
  BY DEF Shelf!Moved, Shelf!With, Shelf!Without, Shelf!Restrict

LEMMA RowIds ==
  ASSUME NEW rs, Table(rs)
  PROVE  /\ Shelf!LastId(rs) \in Nat /\ DOMAIN rs \subseteq 1..Shelf!LastId(rs)
         /\ Shelf!NewId(rs) \in Nat \ {0} /\ Shelf!NewId(rs) \notin DOMAIN rs
<1>1. PICK b \in Nat : DOMAIN rs \subseteq 1..b
  BY DEF Table
<1>2. DOMAIN rs \cup {0} \subseteq 0..b /\ DOMAIN rs \cup {0} # {}
  BY <1>1
<1> DEFINE S == DOMAIN rs \cup {0}
<1>3. Shelf!Max(S) \in S /\ \A y \in S : Shelf!Max(S) >= y
  BY <1>2, GreatestOne DEF Imports!Max, Shelf!Max
<1>4. Shelf!LastId(rs) = Shelf!Max(S)
  BY DEF Shelf!LastId
<1>5. S \subseteq 0..b /\ \A x \in DOMAIN rs : x \in S
  BY <1>2
<1> HIDE DEF S
<1>6. /\ Shelf!LastId(rs) \in 0..b /\ \A x \in DOMAIN rs : x <= Shelf!LastId(rs)
  BY <1>3, <1>4, <1>5
<1>7. Shelf!LastId(rs) \in Nat /\ DOMAIN rs \subseteq 1..Shelf!LastId(rs)
  BY <1>1, <1>6
<1> QED
  BY <1>7 DEF Shelf!NewId

LEMMA StaysTable ==
  ASSUME NEW rs, Table(rs), NEW v, NEW ks, NEW r, NEW x
  PROVE  /\ DOMAIN v = Columns /\ v.path \notin Shelf!PathsOf(rs) => Table(Shelf!With(rs, Shelf!NewId(rs), v))
         /\ Table(Shelf!Without(rs, ks))
         /\ x \notin Shelf!PathsOf(Shelf!Without(rs, {r})) => Table([rs EXCEPT ![r].path = x])
<1> DEFINE id == Shelf!NewId(rs)
           fewer == Shelf!Without(rs, ks)
           more == Shelf!With(rs, id, v)
           other == [rs EXCEPT ![r].path = x]
<1>1. PICK b \in Nat : DOMAIN rs \subseteq 1..b
  BY DEF Table
<1>2. /\ \A y, z \in DOMAIN rs : rs[y].path = rs[z].path => y = z
      /\ \A y \in DOMAIN rs : DOMAIN rs[y] = Columns
  BY DEF Table
<1>3. id \in Nat \ {0} /\ id \notin DOMAIN rs
  BY RowIds
<1>4. DOMAIN fewer = DOMAIN rs \ ks /\ \A y \in DOMAIN fewer : fewer[y] = rs[y]
  <2>1. DOMAIN fewer = DOMAIN rs \ ks
    BY WithoutDomain
  <2> QED
    BY <2>1, WithoutValue
<1>5. Table(fewer)
  <2> HIDE DEF fewer
  <2> QED
    BY <1>1, <1>2, <1>4 DEF Table
<1>6. ASSUME DOMAIN v = Columns, v.path \notin Shelf!PathsOf(rs) PROVE Table(more)
  <2>1. DOMAIN more = DOMAIN rs \cup {id}
    BY WithDomain
  <2>2. \A y \in DOMAIN more : more[y] = IF y = id THEN v ELSE rs[y]
    BY <2>1, WithValue
  <2> HIDE DEF id, more
  <2>3. DOMAIN more \subseteq 1..(b + id) /\ b + id \in Nat
    BY <1>1, <1>3, <2>1
  <2>4. \A y \in DOMAIN rs : rs[y].path # v.path
    BY <1>6 DEF Shelf!PathsOf
  <2>5. \A y, z \in DOMAIN more : more[y].path = more[z].path => y = z
    BY <1>2, <1>3, <2>1, <2>2, <2>4
  <2> QED
    BY <1>2, <1>6, <2>1, <2>2, <2>3, <2>5 DEF Table
<1>7. ASSUME x \notin Shelf!PathsOf(Shelf!Without(rs, {r})) PROVE Table(other)
  <2>1. DOMAIN other = DOMAIN rs
    OBVIOUS
  <2>2. \A y \in DOMAIN rs \ {r} : other[y] = rs[y] /\ rs[y].path # x
    <3>1. DOMAIN Shelf!Without(rs, {r}) = DOMAIN rs \ {r}
      BY WithoutDomain
    <3>2. \A y \in DOMAIN rs \ {r} : Shelf!Without(rs, {r})[y] = rs[y]
      BY WithoutValue
    <3> QED
      BY <1>7, <3>1, <3>2 DEF Shelf!PathsOf
  <2>3. r \in DOMAIN rs => other[r].path = x /\ DOMAIN other[r] = Columns
    BY <1>2 DEF Columns
  <2> HIDE DEF other
  <2>4. \A y, z \in DOMAIN other : other[y].path = other[z].path => y = z
    BY <1>2, <2>1, <2>2, <2>3
  <2> QED
    BY <1>1, <1>2, <2>1, <2>2, <2>3, <2>4 DEF Table
<1> QED
  BY <1>5, <1>6, <1>7

LEMMA DisksStayFinite ==
  ASSUME NEW d, NEW from \in DOMAIN d, NEW to, NEW c, NEW ks, IsFiniteSet(DOMAIN d)
  PROVE  /\ IsFiniteSet(DOMAIN Shelf!With(d, to, c)) /\ IsFiniteSet(DOMAIN Shelf!Without(d, ks))
         /\ IsFiniteSet(DOMAIN Shelf!Moved(d, from, to)) /\ IsFiniteSet(DOMAIN Shelf!Placed(d, from, to))
<1>1. /\ IsFiniteSet(DOMAIN d \cup {to}) /\ IsFiniteSet(DOMAIN d \ ks)
      /\ IsFiniteSet((DOMAIN d \ {from}) \cup {to})
  BY FS_AddElement, FS_Subset
<1>2. DOMAIN Shelf!With(d, to, c) = DOMAIN d \cup {to}
  BY WithDomain
<1>3. DOMAIN Shelf!Without(d, ks) = DOMAIN d \ ks
  BY WithoutDomain
<1>4. DOMAIN Shelf!Moved(d, from, to) = (DOMAIN d \ {from}) \cup {to}
  BY MovedDomain
<1>5. DOMAIN Shelf!With(d, to, d[from]) = DOMAIN d \cup {to}
  BY WithDomain
<1> QED
  BY <1>1, <1>2, <1>3, <1>4, <1>5 DEF Shelf!Placed

LEMMA RelocatedFinite ==
  ASSUME NEW from, NEW to, IsFiniteSet(DOMAIN shelfDisk)
  PROVE  IsFiniteSet(DOMAIN Shelf!Relocated(from, to))
<1> DEFINE f(q) == IF q[1] = from THEN Shelf!InDir(q, to) ELSE q
           T == {f(q) : q \in DOMAIN shelfDisk}
<1>1. DOMAIN Shelf!Relocated(from, to) = T
  BY DEF Shelf!Relocated
<1>2. IsFiniteSet(T)
  <2> DEFINE g == [q \in DOMAIN shelfDisk |-> f(q)]
  <2>1. g \in Surjection(DOMAIN shelfDisk, T)
    BY DEF Surjection
  <2> HIDE DEF g, T
  <2> QED
    BY <2>1, FS_Surjection
<1> QED
  BY <1>1, <1>2

LEMMA ExecutedSized ==
  ASSUME NEW p \in DOMAIN shelfDisk, NEW rs, IsFiniteSet(DOMAIN shelfDisk), Table(rs)
  PROVE  IsFiniteSet(DOMAIN Shelf!Executed(p, rs).disk) /\ Table(Shelf!Executed(p, rs).rows)
<1> DEFINE i == Denotes[p[2]]
           e == Shelf!Existing(rs, i)
           dest == Shelf!Path(shelfHome, Canon[i], p[3])
           old == IF e = 0 THEN {} ELSE {rs[e].path} \cap DOMAIN shelfDisk
           loser == old \ {p}
           space == Shelf!Without(shelfDisk, loser \cap {dest})
           placed == Shelf!Placed(space, p, dest)
           kept == IF old # {} \/ (e # 0 /\ rs[e].path = dest) THEN Shelf!Without(rs, {e}) ELSE rs
           row == [path |-> dest, c |-> shelfDisk[p], issue |-> i]
<1>0. p \notin loser
  OBVIOUS
<1> HIDE DEF loser
<1>1. IsFiniteSet(DOMAIN space) /\ p \in DOMAIN space
  <2>1. DOMAIN space = DOMAIN shelfDisk \ (loser \cap {dest})
    BY WithoutDomain
  <2> QED
    BY <1>0, <2>1, FS_Subset
<1> HIDE DEF space
<1>2. IsFiniteSet(DOMAIN placed)
  BY <1>1, DisksStayFinite
<1> HIDE DEF placed
<1>3. IsFiniteSet(DOMAIN Shelf!Without(placed, loser \ {dest}))
  <2>1. DOMAIN Shelf!Without(placed, loser \ {dest}) = DOMAIN placed \ (loser \ {dest})
    BY WithoutDomain
  <2> QED
    BY <1>2, <2>1, FS_Subset
<1>4. Table(kept)
  BY StaysTable
<1> HIDE DEF kept
<1>5. DOMAIN row = Columns /\ row.path = dest
  BY DEF Columns
<1>7. dest \notin Shelf!PathsOf(kept) => Table(Shelf!With(kept, Shelf!NewId(kept), row))
  BY <1>4, <1>5, StaysTable
<1>6. \/ Shelf!Executed(p, rs).disk = space /\ Shelf!Executed(p, rs).rows = rs
      \/ /\ Shelf!Executed(p, rs).disk = Shelf!Without(placed, loser \ {dest})
         /\ \/ Shelf!Executed(p, rs).rows = rs
            \/ /\ dest \notin Shelf!PathsOf(kept)
               /\ Shelf!Executed(p, rs).rows = Shelf!With(kept, Shelf!NewId(kept), row)
  BY Zenon DEF Shelf!Executed, loser, space, placed, kept
<1> HIDE DEF row, dest
<1> QED
  BY <1>1, <1>3, <1>7, <1>6

LEMMA SizedFollows ==
  ASSUME Sized, Shaped', shelfRegime' = shelfRegime,
         IsFiniteSet(DOMAIN shelfDisk'), Table(shelfRows'),
         \/ shelfActor'["pp"].at # "importing" \/ Table(shelfActor'["pp"].pending)
         \/ /\ shelfActor'["pp"].at = shelfActor["pp"].at
            /\ shelfActor'["pp"].pending = shelfActor["pp"].pending,
         \/ shelfActor'["scan"].at # "scanned" \/ IsFiniteSet(shelfActor'["scan"].todo)
         \/ /\ shelfActor'["scan"].at = shelfActor["scan"].at
            /\ shelfActor'["scan"].todo = shelfActor["scan"].todo
  PROVE  Sized'
  BY DEF Sized

LEMMA SizedInit == ASSUME Shelf!Init PROVE Sized
<1>1. \A a \in Shelf!Actors : Cell(shelfActor[a]) /\ shelfActor[a].at = "idle"
  BY IdleIs DEF Shelf!Init
<1>2. shelfRegime \in FileRegimes /\ IsFiniteSet(DOMAIN shelfRegime.disk)
      /\ IsFiniteSet(DOMAIN shelfRegime.rows)
      /\ DOMAIN shelfRegime.rows = 1 .. Cardinality(DOMAIN shelfRegime.rows)
  BY LibraryAssumption DEF Shelf!Init, Shelf!RegimesAssumption, Shelf!IsFiniteSet, IsFiniteSet,
     Shelf!Cardinality, Cardinality
<1>3. PICK b \in Nat : b = Cardinality(DOMAIN shelfRegime.rows)
  BY <1>2, FS_CardinalityType
<1>4. Table(shelfRegime.rows)
  <2>1. DOMAIN shelfRegime.rows \subseteq 1..b
    BY <1>2, <1>3
  <2>2. /\ \A r, s \in DOMAIN shelfRegime.rows :
                shelfRegime.rows[r].path = shelfRegime.rows[s].path => r = s
        /\ \A r \in DOMAIN shelfRegime.rows : DOMAIN shelfRegime.rows[r] = Columns
    <3> DEFINE rs == shelfRegime.rows
    <3>1. \A n \in DOMAIN rs :
            /\ rs[n] = [path |-> rs[n].path, c |-> shelfRegime.disk[rs[n].path], issue |-> rs[n].issue]
            /\ \A m \in DOMAIN rs : rs[m].path = rs[n].path => m = n
      BY <1>2, LibraryAssumption DEF Shelf!RegimesAssumption
    <3>2. \A n \in DOMAIN rs : DOMAIN rs[n] = Columns
      <4> TAKE n \in DOMAIN rs
      <4>1. rs[n] = [path |-> rs[n].path, c |-> shelfRegime.disk[rs[n].path], issue |-> rs[n].issue]
        BY <3>1
      <4> QED
        BY <4>1 DEF Columns
    <3> QED
      BY <3>1, <3>2
  <2> QED
    BY <2>1, <2>2 DEF Table
<1>5. "pp" \in Shelf!Actors /\ "scan" \in Shelf!Actors
  BY DEF Shelf!Actors
<1>6. Shaped
  BY <1>1 DEF Shaped, Shelf!Init
<1> QED
  BY <1>1, <1>2, <1>4, <1>5, <1>6 DEF Sized, Shelf!Init

\* A scan adds the files it read, each with an id that no row has.
LEMMA ScanAdds ==
  ASSUME Sized, Shelf!ScanWrite
  PROVE  /\ DOMAIN shelfRows \subseteq DOMAIN shelfRows'
         /\ \A r \in DOMAIN shelfRows : shelfRows'[r] = shelfRows[r]
         /\ Table(shelfRows')
         /\ \A r \in DOMAIN shelfRows' \ DOMAIN shelfRows : \E p \in shelfActor["scan"].todo :
              /\ shelfRows'[r] = [path |-> p, c |-> shelfActor["scan"].pending[p],
                                  issue |-> Denotes[p[2]]]
              /\ p \notin Shelf!PathsOf(shelfRows)
              /\ \A s \in DOMAIN shelfRows' \ {r} : shelfRows'[s].path # p
<1> DEFINE s == shelfActor["scan"]
           new == {p \in s.todo : shelfHome # Shelf!NoHome}
           n == Cardinality(new)
           order == CHOOSE f \in Shelf!Injection(1..n, new) : TRUE
           last == Shelf!LastId(shelfRows)
           row(p) == [path |-> p, c |-> s.pending[p], issue |-> Denotes[p[2]]]
<1>1. IsFiniteSet(new)
  <2>1. IsFiniteSet(s.todo) /\ new \subseteq s.todo
    BY DEF Sized, Shelf!ScanWrite, Shelf!At
  <2> QED
    BY <2>1, FS_Subset
<1> HIDE DEF new
<1>2. n \in Nat /\ \E f : f \in Bijection(1..n, new)
  BY <1>1, FS_CardinalityType DEF ExistsBijection
<1>3. Shelf!Cardinality(new) = n
  BY DEF Shelf!Cardinality, Cardinality
<1>4. Bijection(1..n, new) \subseteq Shelf!Injection(1..n, new)
  BY DEF Bijection, Injection, IsInjective, Shelf!Injection, Shelf!IsInjective
<1>5. order \in Shelf!Injection(1..n, new)
  BY <1>2, <1>4
<1>6. /\ order \in [1..n -> new] /\ DOMAIN order = 1..n
      /\ \A j, k \in 1..n : order[j] = order[k] => j = k
  BY <1>5 DEF Shelf!Injection, Shelf!IsInjective
<1>7. last \in Nat /\ DOMAIN shelfRows \subseteq 1..last
  BY RowIds DEF Sized
<1>8. shelfRows' = IF new \cap Shelf!PathsOf(shelfRows) # {} THEN shelfRows
                   ELSE [r \in DOMAIN shelfRows \cup {last + k : k \in DOMAIN order} |->
                            IF r \in DOMAIN shelfRows THEN shelfRows[r] ELSE row(order[r - last])]
  BY <1>3 DEF Shelf!ScanWrite, new
<1> HIDE DEF order, n, last
<1>9. CASE new \cap Shelf!PathsOf(shelfRows) # {}
  <2>1. shelfRows' = shelfRows
    BY <1>8, <1>9
  <2> QED
    BY <2>1 DEF Sized
<1>10. CASE new \cap Shelf!PathsOf(shelfRows) = {}
  <2>1. /\ DOMAIN shelfRows' = DOMAIN shelfRows \cup {last + k : k \in 1..n}
        /\ \A r \in DOMAIN shelfRows : shelfRows'[r] = shelfRows[r]
        /\ \A k \in 1..n : last + k \notin DOMAIN shelfRows /\ shelfRows'[last + k] = row(order[k])
    BY <1>2, <1>6, <1>7, <1>8, <1>10
  <2>3. ASSUME NEW r \in DOMAIN shelfRows' \ DOMAIN shelfRows
        PROVE  \E p \in shelfActor["scan"].todo :
              /\ shelfRows'[r] = row(p)
              /\ p \notin Shelf!PathsOf(shelfRows)
              /\ \A z \in DOMAIN shelfRows' \ {r} : shelfRows'[z].path # p
    <3>1. PICK k \in 1..n : r = last + k
      BY <2>1
    <3>2. order[k] \in new /\ shelfRows'[r] = row(order[k])
      BY <1>6, <2>1, <3>1
    <3>3. order[k] \in s.todo /\ order[k] \notin Shelf!PathsOf(shelfRows)
      BY <1>10, <3>2 DEF new
    <3>4. ASSUME NEW z \in DOMAIN shelfRows' \ {r}, shelfRows'[z].path = order[k] PROVE FALSE
      <4>1. z \notin DOMAIN shelfRows
        BY <2>1, <3>3, <3>4 DEF Shelf!PathsOf
      <4>2. PICK j \in 1..n : z = last + j
        BY <2>1, <4>1
      <4>3. shelfRows'[z] = row(order[j])
        BY <2>1, <4>2
      <4>4. order[j] = order[k]
        BY <3>4, <4>3
      <4> QED
        BY <1>6, <3>1, <3>4, <4>2, <4>4
    <3> QED
      BY <3>2, <3>3, <3>4
  <2>2. Table(shelfRows')
    <3>1. DOMAIN shelfRows' \subseteq 1..(last + n) /\ last + n \in Nat
      BY <1>2, <1>7, <2>1
    <3>2. \A r \in DOMAIN shelfRows' : DOMAIN shelfRows'[r] = Columns
      <4>1. \A p : DOMAIN row(p) = Columns
        BY DEF Columns
      <4>2. \A r \in DOMAIN shelfRows : DOMAIN shelfRows[r] = Columns
        BY DEF Sized, Table
      <4> HIDE DEF row
      <4> QED
        BY <2>1, <2>3, <4>1, <4>2
    <3>3. \A r \in DOMAIN shelfRows' \ DOMAIN shelfRows : \A z \in DOMAIN shelfRows' \ {r} :
              shelfRows'[z].path # shelfRows'[r].path
      BY <2>3
    <3>4. \A r, z \in DOMAIN shelfRows : shelfRows'[r].path = shelfRows'[z].path => r = z
      BY <2>1 DEF Sized, Table
    <3>5. \A r, z \in DOMAIN shelfRows' : shelfRows'[r].path = shelfRows'[z].path => r = z
      BY <3>3, <3>4
    <3> QED
      BY <3>1, <3>2, <3>5 DEF Table
  <2> QED
    BY <2>1, <2>2, <2>3
<1> QED
  BY <1>9, <1>10

LEMMA Three == "pp" \in Shelf!Actors /\ "scan" \in Shelf!Actors /\ "api" \in Shelf!Actors
  BY DEF Shelf!Actors

Grown == /\ shelfRegime' = shelfRegime /\ IsFiniteSet(DOMAIN shelfDisk') /\ Table(shelfRows')

Measured(a, c) == /\ a = "pp" => c.at # "importing" \/ Table(c.pending)
                  /\ a = "scan" => c.at # "scanned" \/ IsFiniteSet(c.todo)

LEMMA SizedGoes ==
  ASSUME NEW a \in Shelf!Actors, NEW c, Sized, Cell(c), Shelf!Goto(a, c), Grown, Measured(a, c)
  PROVE  Sized'
<1>1. Shaped' /\ shelfActor'[a] = c /\ \A b \in Shelf!Actors \ {a} : shelfActor'[b] = shelfActor[b]
  BY Goes DEF Sized
<1>2. Measured(a, shelfActor'[a])
  BY <1>1
<1> QED
  BY <1>1, <1>2, SizedFollows, Three DEF Grown, Measured

LEMMA SizedBegins ==
  ASSUME NEW a \in Shelf!Actors, NEW c, Sized, Cell(c), Shelf!Begin(a, c), Grown, Measured(a, c)
  PROVE  Sized'
<1>1. /\ Shaped' /\ shelfActor'[a].at = c.at /\ shelfActor'[a].pending = c.pending
      /\ shelfActor'[a].todo = c.todo
      /\ \A b \in Shelf!Actors \ {a} : /\ shelfActor'[b].at = shelfActor[b].at
                                       /\ shelfActor'[b].pending = shelfActor[b].pending
                                       /\ shelfActor'[b].todo = shelfActor[b].todo
  BY Begins DEF Sized
<1>2. Measured(a, shelfActor'[a])
  BY <1>1 DEF Measured
<1> QED
  BY <1>1, <1>2, SizedFollows, Three DEF Grown, Measured

\* What the owner does, and a removal that keeps the files, disturbs every flow.
Disturbs == shelfActor' = [a \in Shelf!Actors |-> [shelfActor[a] EXCEPT !.alone = FALSE]]

LEMMA Disturbed ==
  ASSUME Shaped, Disturbs
  PROVE  /\ Shaped'
         /\ \A a \in Shelf!Actors :
              /\ shelfActor'[a].at = shelfActor[a].at /\ shelfActor'[a].todo = shelfActor[a].todo
              /\ shelfActor'[a].moved = shelfActor[a].moved /\ shelfActor'[a].cur = shelfActor[a].cur
              /\ shelfActor'[a].pending = shelfActor[a].pending
              /\ shelfActor'[a].whole = shelfActor[a].whole /\ shelfActor'[a].alone = FALSE
  BY DEF Shaped, Disturbs, Cell, Fields

LEMMA SizedDisturbed == ASSUME Sized, Disturbs, Grown PROVE Sized'
  BY Disturbed, SizedFollows, Three DEF Grown, Sized

LEMMA ScanSized == ASSUME Sized, Shelf!Scan PROVE Sized'
<1>1. CASE Shelf!ScanBegin
  <2> DEFINE todo == Shelf!Walk(shelfHome, Shelf!PathsOf(shelfRows))
             c == [Shelf!Idle EXCEPT !.at = "scanned", !.todo = todo, !.pending = shelfDisk]
  <2>1. IsFiniteSet(todo)
    <3>1. todo \subseteq DOMAIN shelfDisk
      BY DEF Shelf!Walk
    <3> QED
      BY <3>1, FS_Subset DEF Sized
  <2> HIDE DEF todo
  <2>2. Shelf!Begin("scan", c)
    BY <1>1 DEF Shelf!ScanBegin, todo
  <2>3. Cell(c) /\ c.at = "scanned" /\ c.todo = todo
    BY IdleIs DEF Cell, Fields
  <2>4. Grown
    BY <1>1 DEF Shelf!ScanBegin, Grown, Sized
  <2>5. Measured("scan", c)
    BY <2>1, <2>3 DEF Measured
  <2> QED
    BY <2>2, <2>3, <2>4, <2>5, SizedBegins, Three
<1>2. CASE Shelf!ScanWrite
  <2>1. Shelf!Goto("scan", Shelf!Idle)
    BY <1>2 DEF Shelf!ScanWrite
  <2>2. Grown
    BY <1>2, ScanAdds DEF Shelf!ScanWrite, Grown, Sized
  <2> QED
    BY <2>1, <2>2, SizedGoes, IdleIs, Three DEF Measured
<1> QED
  BY <1>1, <1>2 DEF Shelf!Scan

LEMMA RescanSized == ASSUME Sized, Shelf!Rescan PROVE Sized'
<1> DEFINE w == shelfActor["pp"]
<1>0. Cell(w)
  BY Three DEF Sized, Shaped
<1>1. CASE Shelf!RescanBegin
  <2> DEFINE c == [Shelf!Idle EXCEPT !.at = "rescan", !.pending = shelfRows]
  <2>1. Shelf!Begin("pp", c) /\ Cell(c) /\ c.at = "rescan"
    BY <1>1, IdleIs DEF Shelf!RescanBegin, Cell, Fields
  <2>2. Grown
    BY <1>1 DEF Shelf!RescanBegin, Grown, Sized
  <2> QED
    BY <2>1, <2>2, SizedBegins, Three DEF Measured
<1>2. ASSUME NEW moved, Shelf!Goto("pp", [w EXCEPT !.at = "walk", !.pending = <<>>, !.moved = moved]),
             UNCHANGED <<shelfDisk, shelfRows, shelfRegime>>
      PROVE  Sized'
  <2> DEFINE c == [w EXCEPT !.at = "walk", !.pending = <<>>, !.moved = moved]
  <2>1. Cell(c) /\ c.at = "walk"
    BY <1>0 DEF Cell, Fields
  <2>2. Grown
    BY <1>2 DEF Grown, Sized
  <2> QED
    BY <1>2, <2>1, <2>2, SizedGoes, Three DEF Measured
<1>3. CASE Shelf!RescanWalk
  <2> DEFINE c == [w EXCEPT !.at = "walked",
               !.todo = IF shelfHome = Shelf!NoHome THEN {}
                        ELSE Shelf!Walk(shelfHome, Shelf!PathsOf(shelfRows))]
  <2>1. Shelf!Goto("pp", c) /\ Cell(c) /\ c.at = "walked"
    BY <1>0, <1>3 DEF Shelf!RescanWalk, Cell, Fields
  <2>2. Grown
    BY <1>3 DEF Shelf!RescanWalk, Grown, Sized
  <2> QED
    BY <2>1, <2>2, SizedGoes, Three DEF Measured
<1>4. CASE Shelf!RescanPrune
  <2> DEFINE rs == Shelf!Without(shelfRows, w.moved)
             c == [w EXCEPT !.at = "importing", !.pending = rs]
  <2>1. Table(rs)
    BY StaysTable DEF Sized
  <2> HIDE DEF rs
  <2>2. Shelf!Goto("pp", c) /\ Cell(c) /\ c.pending = rs
    BY <1>0, <1>4 DEF Shelf!RescanPrune, Cell, Fields, rs
  <2>3. Grown
    BY <1>4 DEF Shelf!RescanPrune, Grown, Sized
  <2> QED
    BY <2>1, <2>2, <2>3, SizedGoes, Three DEF Measured
<1>5. ASSUME NEW p \in w.todo, Shelf!ImportOne(p) PROVE Sized'
  <2> DEFINE x == Shelf!Executed(p, w.pending)
             c(rs) == [w EXCEPT !.todo = @ \ {p}, !.pending = rs]
  <2>0. Table(w.pending)
    BY <1>5 DEF Shelf!ImportOne, Shelf!At, Sized
  <2>1. \A rs : Cell(c(rs)) /\ c(rs).pending = rs
    BY <1>0 DEF Cell, Fields
  <2>2. \/ /\ p \in DOMAIN shelfDisk /\ shelfDisk' = x.disk
           /\ Shelf!Goto("pp", c(x.rows))
        \/ shelfDisk' = shelfDisk /\ Shelf!Goto("pp", c(w.pending))
    BY <1>5 DEF Shelf!ImportOne
  <2>3. p \in DOMAIN shelfDisk => IsFiniteSet(DOMAIN x.disk) /\ Table(x.rows)
    BY <2>0, ExecutedSized DEF Sized
  <2> HIDE DEF x, c
  <2>4. PICK rs : Table(rs) /\ Shelf!Goto("pp", c(rs))
    BY <2>0, <2>2, <2>3
  <2>5. Grown
    BY <1>5, <2>2, <2>3 DEF Shelf!ImportOne, Grown, Sized
  <2> QED
    BY <2>1, <2>4, <2>5, SizedGoes, Three DEF Measured
<1>6. ASSUME NEW p \in w.todo, Shelf!ImportFails(p) PROVE Sized'
  <2> DEFINE c == [w EXCEPT !.todo = @ \ {p}, !.alone = FALSE]
  <2>0. Table(w.pending)
    BY <1>6 DEF Shelf!ImportFails, Shelf!At, Sized
  <2>1. Shelf!Goto("pp", c) /\ Cell(c) /\ c.pending = w.pending
    BY <1>0, <1>6 DEF Shelf!ImportFails, Cell, Fields
  <2>2. Grown
    BY <1>6 DEF Shelf!ImportFails, Grown, Sized
  <2> QED
    BY <2>0, <2>1, <2>2, SizedGoes, Three DEF Measured
<1>7. CASE Shelf!RescanCommit \/ Shelf!RescanCommitFails
  <2>1. Shelf!Goto("pp", Shelf!Idle)
    BY <1>7 DEF Shelf!RescanCommit, Shelf!RescanCommitFails
  <2>2. Grown
    BY <1>7 DEF Shelf!RescanCommit, Shelf!RescanCommitFails, Shelf!At, Grown, Sized
  <2> QED
    BY <2>1, <2>2, SizedGoes, IdleIs, Three DEF Measured
<1>8. CASE Shelf!RescanLook
  BY <1>2, <1>8 DEF Shelf!RescanLook
<1> QED
  BY <1>1, <1>3, <1>4, <1>5, <1>6, <1>7, <1>8 DEF Shelf!Rescan

Healings == {"rescan", "walk", "walked", "importing"}

\* a takes a step of its own, which is neither of a rescan nor of a scan
Acts(a) == \E c : /\ Cell(c) /\ c.at \notin Healings
                  /\ \/ Shelf!Begin(a, c)
                     \/ Shelf!Goto(a, c) /\ shelfActor[a].at # "idle"
Elsewhere == Grown /\ (Acts("pp") \/ Acts("api"))

LEMMA Aside ==
  ASSUME NEW a \in {"pp", "api"}, NEW c, Cell(c), c.at \notin Healings, Grown,
         Shelf!Begin(a, c) \/ (Shelf!Goto(a, c) /\ shelfActor[a].at # "idle")
  PROVE  Elsewhere
  BY DEF Acts, Elsewhere

LEMMA IdleAside == Shelf!Idle.at \notin Healings
  BY IdleIs DEF Healings

LEMMA SizedElsewhere == ASSUME Sized, Elsewhere PROVE Sized'
<1>1. PICK a \in {"pp", "api"} : Acts(a)
  BY DEF Elsewhere
<1>2. PICK c : /\ Cell(c) /\ c.at \notin Healings
               /\ Shelf!Begin(a, c) \/ Shelf!Goto(a, c)
  BY <1>1 DEF Acts
<1> QED
  BY <1>2, SizedGoes, SizedBegins, Three DEF Measured, Healings, Elsewhere

LEMMA RenameAside == ASSUME Sized, Shelf!Rename PROVE Elsewhere
<1> DEFINE w == shelfActor["pp"]
<1>0. Cell(w)
  BY Three DEF Sized, Shaped
<1>9. \A m : Shelf!RenameMove(m) \/ Shelf!RenameCommit(m) \/ Shelf!RenameUndo(m)
            \/ Shelf!RenamePromote
        => shelfActor["pp"].at # "idle"
  BY DEF Shelf!At, Shelf!RenameMove, Shelf!RenameCommit, Shelf!RenameUndo,
     Shelf!RenamePromote
<1>1. CASE Shelf!RenameBegin
  <2>1. PICK todo : Shelf!Begin("pp", [Shelf!Idle EXCEPT !.at = "rename", !.todo = todo])
    BY <1>1 DEF Shelf!RenameBegin
  <2> DEFINE c == [Shelf!Idle EXCEPT !.at = "rename", !.todo = todo]
  <2>3. Cell(c) /\ c.at \notin Healings
    BY IdleIs DEF Cell, Fields, Healings
  <2>2. Grown
    BY <1>1 DEF Shelf!RenameBegin, Grown, Sized
  <2> QED
    BY <1>9, <1>1, <2>1, <2>2, <2>3, Aside
<1>2. CASE Shelf!RenamePromote
  <2>1. PICK c : Shelf!Goto("pp", c) /\ (c = Shelf!Idle \/ c = [w EXCEPT !.todo = w.moved, !.moved = {}])
    BY <1>2 DEF Shelf!RenamePromote
  <2>2. Grown /\ w.at = "rename"
    BY <1>2 DEF Shelf!RenamePromote, Shelf!At, Grown, Sized
  <2>3. Cell(c) /\ c.at \notin Healings
    BY <1>0, <2>1, <2>2, IdleIs DEF Cell, Fields, Healings
  <2> QED
    BY <1>9, <1>2, <2>1, <2>2, <2>3, Aside
<1>3. ASSUME NEW m, Shelf!RenameMove(m) PROVE Elsewhere
  <2> DEFINE t == [w EXCEPT !.todo = @ \ {m}]
  <2>1. PICK c : Shelf!Goto("pp", c) /\ (c = t \/ c = [t EXCEPT !.at = "renamed", !.cur = {m}])
    BY <1>3 DEF Shelf!RenameMove
  <2>2. w.at = "rename"
    BY <1>3 DEF Shelf!RenameMove, Shelf!At
  <2>3. \/ m.from \in DOMAIN shelfDisk /\ shelfDisk' = Shelf!Moved(shelfDisk, m.from, m.to)
        \/ shelfDisk' = shelfDisk
    BY <1>3 DEF Shelf!RenameMove
  <2>4. IsFiniteSet(DOMAIN shelfDisk')
    BY <2>3, DisksStayFinite DEF Sized
  <2>5. Grown
    BY <1>3, <2>4 DEF Shelf!RenameMove, Grown, Sized
  <2>6. Cell(c) /\ c.at \notin Healings
    BY <1>0, <2>1, <2>2 DEF Cell, Fields, Healings
  <2> QED
    BY <1>9, <1>3, <2>1, <2>5, <2>6, Aside
<1>4. ASSUME NEW m, Shelf!RenameCommit(m) PROVE Elsewhere
  <2>1. PICK moved : Shelf!Goto("pp", [w EXCEPT !.at = "rename", !.cur = {}, !.moved = moved])
    BY <1>4 DEF Shelf!RenameCommit
  <2> DEFINE c == [w EXCEPT !.at = "rename", !.cur = {}, !.moved = moved]
  <2>4. Cell(c) /\ c.at \notin Healings
    BY <1>0 DEF Cell, Fields, Healings
  <2>2. Table(shelfRows')
    BY <1>4, StaysTable DEF Shelf!RenameCommit, Sized
  <2>3. Grown
    BY <1>4, <2>2 DEF Shelf!RenameCommit, Grown, Sized
  <2> QED
    BY <1>9, <1>4, <2>1, <2>3, <2>4, Aside
<1>5. ASSUME NEW m, Shelf!RenameUndo(m) PROVE Elsewhere
  <2> DEFINE c == [w EXCEPT !.at = "rename", !.cur = {}]
  <2>1. Shelf!Goto("pp", c)
    BY <1>5 DEF Shelf!RenameUndo
  <2>6. Cell(c) /\ c.at \notin Healings
    BY <1>0 DEF Cell, Fields, Healings
  <2>3. \/ m.to \in DOMAIN shelfDisk /\ shelfDisk' = Shelf!Moved(shelfDisk, m.to, m.from)
        \/ shelfDisk' = shelfDisk
    BY <1>5 DEF Shelf!RenameUndo
  <2>4. IsFiniteSet(DOMAIN shelfDisk')
    BY <2>3, DisksStayFinite DEF Sized
  <2>5. Grown
    BY <1>5, <2>4 DEF Shelf!RenameUndo, Grown, Sized
  <2> QED
    BY <1>9, <1>5, <2>1, <2>5, <2>6, Aside
<1> QED
  BY <1>1, <1>2, <1>3, <1>4, <1>5 DEF Shelf!Rename

LEMMA ConvertAside == ASSUME Sized, Shelf!Convert PROVE Elsewhere
<1> DEFINE w == shelfActor["pp"]
<1>0. Cell(w)
  BY Three DEF Sized, Shaped
<1>9. \A m : Shelf!ConvertOne(m) \/ Shelf!ConvertCommit(m)
            \/ Shelf!ConvertCommitFails(m) \/ Shelf!ConvertCleanUp(m)
            \/ Shelf!ConvertEnd
        => shelfActor["pp"].at # "idle"
  BY DEF Shelf!At, Shelf!ConvertOne, Shelf!ConvertCommit, Shelf!ConvertCommitFails,
     Shelf!ConvertCleanUp, Shelf!ConvertEnd
<1>1. CASE Shelf!ConvertBegin
  <2>1. PICK todo : Shelf!Begin("pp", [Shelf!Idle EXCEPT !.at = "convert", !.todo = todo])
    BY <1>1 DEF Shelf!ConvertBegin
  <2> DEFINE c == [Shelf!Idle EXCEPT !.at = "convert", !.todo = todo]
  <2>3. Cell(c) /\ c.at \notin Healings
    BY IdleIs DEF Cell, Fields, Healings
  <2>2. Grown
    BY <1>1 DEF Shelf!ConvertBegin, Grown, Sized
  <2> QED
    BY <1>9, <1>1, <2>1, <2>2, <2>3, Aside
<1>2. CASE Shelf!ConvertEnd
  <2>1. Shelf!Goto("pp", Shelf!Idle) /\ Grown
    BY <1>2 DEF Shelf!ConvertEnd, Grown, Sized
  <2> QED
    BY <1>9, <1>2, <2>1, Aside, IdleIs, IdleAside
<1>3. ASSUME NEW m, Shelf!ConvertOne(m) PROVE Elsewhere
  <2> DEFINE t == [w EXCEPT !.todo = @ \ {m}]
  <2>1. PICK c : Shelf!Goto("pp", c) /\ (c = t \/ c = [t EXCEPT !.at = "promoted", !.cur = {m}])
    BY <1>3 DEF Shelf!ConvertOne
  <2>2. w.at = "convert"
    BY <1>3 DEF Shelf!ConvertOne, Shelf!At
  <2>3. \/ /\ m.from \in DOMAIN shelfDisk
           /\ shelfDisk' = Shelf!With(shelfDisk, Shelf!Cbz(m.from), shelfDisk[m.from])
        \/ shelfDisk' = shelfDisk
    BY <1>3 DEF Shelf!ConvertOne, Shelf!Convertible
  <2>4. IsFiniteSet(DOMAIN shelfDisk')
    BY <2>3, DisksStayFinite DEF Sized
  <2>5. Grown
    BY <1>3, <2>4 DEF Shelf!ConvertOne, Grown, Sized
  <2>6. Cell(c) /\ c.at \notin Healings
    BY <1>0, <2>1, <2>2 DEF Cell, Fields, Healings
  <2> QED
    BY <1>9, <1>3, <2>1, <2>5, <2>6, Aside
<1>4. ASSUME NEW m, Shelf!ConvertCommit(m) PROVE Elsewhere
  <2> DEFINE c == [w EXCEPT !.at = "converted"]
  <2>4. Cell(c) /\ c.at \notin Healings
    BY <1>0 DEF Cell, Fields, Healings
  <2>1. Shelf!Goto("pp", c)
    BY <1>4 DEF Shelf!ConvertCommit
  <2>2. Table(shelfRows')
    BY <1>4, StaysTable DEF Shelf!ConvertCommit, Sized
  <2>3. Grown
    BY <1>4, <2>2 DEF Shelf!ConvertCommit, Grown, Sized
  <2> QED
    BY <1>9, <1>4, <2>1, <2>3, <2>4, Aside
<1>5. ASSUME NEW m, Shelf!ConvertCommitFails(m) PROVE Elsewhere
  <2>1. Shelf!Goto("pp", Shelf!Idle) /\ Grown
    BY <1>5 DEF Shelf!ConvertCommitFails, Grown, Sized
  <2> QED
    BY <1>9, <1>5, <2>1, Aside, IdleIs, IdleAside
<1>6. ASSUME NEW m, Shelf!ConvertCleanUp(m) PROVE Elsewhere
  <2> DEFINE c == [w EXCEPT !.at = "convert", !.cur = {}]
  <2>4. Cell(c) /\ c.at \notin Healings
    BY <1>0 DEF Cell, Fields, Healings
  <2>1. Shelf!Goto("pp", c)
    BY <1>6 DEF Shelf!ConvertCleanUp
  <2>2. DOMAIN shelfDisk' = DOMAIN shelfDisk \ {m.from}
    BY <1>6, WithoutDomain DEF Shelf!ConvertCleanUp
  <2>3. Grown
    BY <1>6, <2>2, FS_Subset DEF Shelf!ConvertCleanUp, Grown, Sized
  <2> QED
    BY <1>9, <1>6, <2>1, <2>3, <2>4, Aside
<1> QED
  BY <1>1, <1>2, <1>3, <1>4, <1>5, <1>6 DEF Shelf!Convert

LEMMA DeleteAside == ASSUME Sized, Shelf!Delete PROVE Elsewhere
<1>0. PICK a \in {"pp", "api"} :
    \/ Shelf!DeleteBegin(a, DOMAIN shelfRows) \/ \E r \in DOMAIN shelfRows : Shelf!DeleteBegin(a, {r})
    \/ Shelf!RecycleFails(a) \/ Shelf!DeleteCommit(a) \/ Shelf!DeleteFails(a) \/ Shelf!UndoEnds(a)
    \/ Shelf!Forget(a) \/ Shelf!ForgetFails(a) \/ Shelf!UnlinkEnds(a)
    \/ \E m \in shelfActor[a].todo : Shelf!Recycle(a, m) \/ Shelf!Unlink(a, m)
    \/ \E m \in shelfActor[a].moved : Shelf!Restore(a, m) \/ Shelf!RestoreFails(a, m)
  BY DEF Shelf!Delete
<1> DEFINE w == shelfActor[a]
<1>1. Cell(w)
  BY Three DEF Sized, Shaped
<1>9. \A m : Shelf!RecycleFails(a) \/ Shelf!DeleteCommit(a) \/ Shelf!DeleteFails(a)
            \/ Shelf!UndoEnds(a) \/ Shelf!Forget(a) \/ Shelf!ForgetFails(a)
            \/ Shelf!UnlinkEnds(a) \/ Shelf!Recycle(a, m) \/ Shelf!Unlink(a, m)
            \/ Shelf!Restore(a, m) \/ Shelf!RestoreFails(a, m)
        => shelfActor[a].at # "idle"
  BY DEF Shelf!At, Shelf!RecycleFails, Shelf!DeleteCommit, Shelf!DeleteFails,
     Shelf!UndoEnds, Shelf!Forget, Shelf!ForgetFails, Shelf!UnlinkEnds,
     Shelf!Recycle, Shelf!Unlink, Shelf!Restore, Shelf!RestoreFails
<1>2. ASSUME NEW rs, Shelf!DeleteBegin(a, rs) PROVE Elsewhere
  <2> DEFINE at == IF shelfRegime.bin THEN "delete" ELSE "forget"
             whole == (a = "pp")
             todo == {[row |-> r, from |-> shelfRows[r].path, c |-> shelfRows[r].c] : r \in rs}
  <2>1. /\ at \in {"delete", "forget"}
        /\ Shelf!Begin(a, [Shelf!Idle EXCEPT !.at = at, !.whole = whole, !.todo = todo])
    BY <1>2 DEF Shelf!DeleteBegin
  <2> HIDE DEF at, whole, todo
  <2> DEFINE c == [Shelf!Idle EXCEPT !.at = at, !.whole = whole, !.todo = todo]
  <2>3. Cell(c) /\ c.at \notin Healings
    BY <2>1, IdleIs DEF Cell, Fields, Healings
  <2>2. Grown
    BY <1>2 DEF Shelf!DeleteBegin, Grown, Sized
  <2> QED
    BY <1>9, <1>2, <2>1, <2>2, <2>3, Aside
<1>3. CASE Shelf!RecycleFails(a) \/ Shelf!DeleteFails(a)
  <2> DEFINE c == [w EXCEPT !.at = "undo"]
  <2>1. Shelf!Goto(a, c) /\ Grown
    BY <1>3 DEF Shelf!RecycleFails, Shelf!DeleteFails, Grown, Sized
  <2>2. Cell(c) /\ c.at \notin Healings
    BY <1>1 DEF Cell, Fields, Healings
  <2> QED
    BY <1>9, <1>3, <2>1, <2>2, Aside
<1>4. CASE Shelf!UndoEnds(a) \/ Shelf!ForgetFails(a) \/ Shelf!UnlinkEnds(a)
  <2>1. Shelf!Goto(a, Shelf!Idle) /\ Grown
    BY <1>4 DEF Shelf!UndoEnds, Shelf!ForgetFails, Shelf!UnlinkEnds, Grown, Sized
  <2> QED
    BY <1>9, <1>4, <2>1, Aside, IdleIs, IdleAside
<1>5. CASE Shelf!DeleteCommit(a) \/ Shelf!Forget(a)
  <2>1. PICK ks : shelfRows' = Shelf!Without(shelfRows, ks)
    BY <1>5 DEF Shelf!DeleteCommit, Shelf!Forget
  <2>2. Table(shelfRows')
    BY <2>1, StaysTable DEF Sized
  <2>3. Grown
    BY <1>5, <2>2 DEF Shelf!DeleteCommit, Shelf!Forget, Grown, Sized
  <2>4. PICK c : Shelf!Goto(a, c) /\ (c = Shelf!Idle \/ c = [w EXCEPT !.at = "unlink"])
    BY <1>5 DEF Shelf!DeleteCommit, Shelf!Forget
  <2>5. Cell(c) /\ c.at \notin Healings
    BY <1>1, <2>4, IdleIs DEF Cell, Fields, Healings
  <2> QED
    BY <1>9, <1>5, <2>3, <2>4, <2>5, Aside
<1>6. ASSUME NEW m, Shelf!Recycle(a, m) PROVE Elsewhere
  <2> DEFINE t == [w EXCEPT !.todo = @ \ {m}, !.pending = Shelf!With(@, m.row, m)]
  <2>1. PICK c : /\ Shelf!Goto(a, c)
                 /\ \/ c = t
                    \/ c = [t EXCEPT !.moved = @ \cup {[path |-> m.from, c |-> shelfDisk[m.from]]}]
    BY <1>6 DEF Shelf!Recycle
  <2>2. w.at = "delete"
    BY <1>6 DEF Shelf!Recycle, Shelf!At
  <2>3. shelfDisk' = Shelf!Without(shelfDisk, {m.from}) \/ shelfDisk' = shelfDisk
    BY <1>6 DEF Shelf!Recycle
  <2>6. DOMAIN Shelf!Without(shelfDisk, {m.from}) = DOMAIN shelfDisk \ {m.from}
    BY WithoutDomain
  <2>4. DOMAIN shelfDisk' \subseteq DOMAIN shelfDisk
    BY <2>3, <2>6
  <2>7. Cell(c) /\ c.at \notin Healings
    BY <1>1, <2>1, <2>2 DEF Cell, Fields, Healings
  <2>5. Grown
    BY <1>6, <2>4, FS_Subset DEF Shelf!Recycle, Grown, Sized
  <2> QED
    BY <1>9, <1>6, <2>1, <2>5, <2>7, Aside
<1>7. ASSUME NEW m, Shelf!Unlink(a, m) PROVE Elsewhere
  <2> DEFINE c == [w EXCEPT !.todo = @ \ {m}]
  <2>1. Shelf!Goto(a, c) /\ w.at = "unlink"
    BY <1>7 DEF Shelf!Unlink, Shelf!At
  <2>4. Cell(c) /\ c.at \notin Healings
    BY <1>1, <2>1 DEF Cell, Fields, Healings
  <2>5. DOMAIN Shelf!Without(shelfDisk, {m.from}) = DOMAIN shelfDisk \ {m.from}
    BY WithoutDomain
  <2>2. DOMAIN shelfDisk' \subseteq DOMAIN shelfDisk
    BY <1>7, <2>5 DEF Shelf!Unlink
  <2>3. Grown
    BY <1>7, <2>2, FS_Subset DEF Shelf!Unlink, Grown, Sized
  <2> QED
    BY <1>9, <1>7, <2>1, <2>3, <2>4, Aside
<1>8. ASSUME NEW m, Shelf!Restore(a, m) \/ Shelf!RestoreFails(a, m) PROVE Elsewhere
  <2> DEFINE c == [w EXCEPT !.moved = @ \ {m}]
  <2>1. Shelf!Goto(a, c) /\ w.at = "undo"
    BY <1>8 DEF Shelf!Restore, Shelf!RestoreFails, Shelf!At
  <2>7. Cell(c) /\ c.at \notin Healings
    BY <1>1, <2>1 DEF Cell, Fields, Healings
  <2>2. shelfDisk' = shelfDisk \/ shelfDisk' = Shelf!With(shelfDisk, m.path, m.c)
    BY <1>8 DEF Shelf!Restore, Shelf!RestoreFails
  <2>3. IsFiniteSet(DOMAIN shelfDisk \cup {m.path}) /\ IsFiniteSet(DOMAIN shelfDisk)
    BY FS_AddElement DEF Sized
  <2>4. DOMAIN shelfDisk' = DOMAIN shelfDisk \/ DOMAIN shelfDisk' = DOMAIN shelfDisk \cup {m.path}
    BY <2>2, WithDomain
  <2>5. IsFiniteSet(DOMAIN shelfDisk')
    BY <2>3, <2>4
  <2>6. Grown
    BY <1>8, <2>5 DEF Shelf!Restore, Shelf!RestoreFails, Grown, Sized
  <2> QED
    BY <1>9, <1>8, <2>1, <2>6, <2>7, Aside
<1> QED
  BY <1>0, <1>2, <1>3, <1>4, <1>5, <1>6, <1>7, <1>8

\* Every step is one of a rescan, of a scan, of another flow, or one that
\* disturbs the flows or ends them.
Stepped == \/ Shelf!Rescan \/ Shelf!Scan \/ Elsewhere
           \/ Grown /\ Disturbs
           \/ Shelf!Crash
           \/ UNCHANGED shelfVars

LEMMA StepForms == ASSUME Sized, [Shelf!Next]_shelfVars PROVE Stepped
<1>1. CASE Shelf!Edit
  <2>1. ASSUME NEW to, Shelf!EditMove(to) PROVE Elsewhere
    <3> DEFINE c == [Shelf!Idle EXCEPT !.at = "relocated", !.cur = {[to |-> to]}]
    <3>1. Shelf!Begin("api", c)
      BY <2>1 DEF Shelf!EditMove
    <3>3. Cell(c) /\ c.at \notin Healings
      BY IdleIs DEF Cell, Fields, Healings
    <3>2. Grown
      BY <2>1, RelocatedFinite DEF Shelf!EditMove, Grown, Sized
    <3> QED
      BY <3>1, <3>2, <3>3, Aside
  <2>2. CASE Shelf!EditCommit \/ Shelf!EditCommitFails
    <3>1. Shelf!Goto("api", Shelf!Idle) /\ Grown /\ shelfActor["api"].at # "idle"
      BY <2>2 DEF Shelf!EditCommit, Shelf!EditCommitFails, Shelf!At, Grown, Sized
    <3> QED
      BY <3>1, Aside, IdleIs, IdleAside DEF Stepped
  <2>3. CASE Shelf!RemoveSeries
    <3>1. Table(shelfRows')
      <4>1. DOMAIN shelfRows' = {}
        BY <2>3 DEF Shelf!RemoveSeries
      <4> QED
        BY <4>1 DEF Table
    <3>2. Grown /\ Disturbs
      BY <2>3, <3>1 DEF Shelf!RemoveSeries, Grown, Sized, Disturbs
    <3> QED
      BY <3>2 DEF Stepped
  <2> QED
    BY <1>1, <2>1, <2>2, <2>3 DEF Shelf!Edit, Stepped
<1>2. CASE Shelf!Owner
  <2>1. PICK p : Shelf!OwnerAdds(p) \/ Shelf!OwnerRemoves(p)
    BY <1>2 DEF Shelf!Owner
  <2>2. \/ shelfDisk' = Shelf!With(shelfDisk, p, shelfRegime.arrivals[p])
        \/ shelfDisk' = Shelf!Without(shelfDisk, {p})
    BY <2>1 DEF Shelf!OwnerAdds, Shelf!OwnerRemoves
  <2>3. IsFiniteSet(DOMAIN shelfDisk \cup {p}) /\ IsFiniteSet(DOMAIN shelfDisk \ {p})
    BY FS_AddElement, FS_Subset DEF Sized
  <2>7. DOMAIN Shelf!With(shelfDisk, p, shelfRegime.arrivals[p]) = DOMAIN shelfDisk \cup {p}
    BY WithDomain
  <2>8. DOMAIN Shelf!Without(shelfDisk, {p}) = DOMAIN shelfDisk \ {p}
    BY WithoutDomain
  <2>4. \/ DOMAIN shelfDisk' = DOMAIN shelfDisk \cup {p}
        \/ DOMAIN shelfDisk' = DOMAIN shelfDisk \ {p}
    BY <2>2, <2>7, <2>8
  <2>5. IsFiniteSet(DOMAIN shelfDisk')
    BY <2>3, <2>4
  <2>6. Grown /\ Disturbs
    BY <2>1, <2>5 DEF Shelf!OwnerAdds, Shelf!OwnerRemoves, Grown, Sized, Disturbs
  <2> QED
    BY <2>6 DEF Stepped
<1> QED
  BY <1>1, <1>2, RenameAside, ConvertAside, DeleteAside DEF Shelf!Next, Stepped

LEMMA Crashed ==
  ASSUME Sized, Shelf!Crash
  PROVE  /\ Shaped' /\ UNCHANGED <<shelfDisk, shelfRows, shelfRegime>>
         /\ \A a \in Shelf!Actors : shelfActor'[a] = Shelf!Idle
<1>1. \A a \in Shelf!Actors : Cell(shelfActor'[a]) /\ shelfActor'[a] = Shelf!Idle
  BY IdleIs DEF Shelf!Crash
<1> QED
  BY <1>1 DEF Shelf!Crash, Shaped

LEMMA SizedStep == ASSUME Sized, [Shelf!Next]_shelfVars PROVE Sized'
<1>1. CASE Shelf!Crash
  BY <1>1, Crashed, IdleIs, SizedFollows, Three DEF Sized
<1>2. CASE UNCHANGED shelfVars
  BY <1>2 DEF shelfVars, Sized, Shaped, Table
<1> QED
  BY <1>1, <1>2, StepForms, ScanSized, RescanSized, SizedElsewhere, SizedDisturbed DEF Stepped

(***************************************************************************)
(* A rescan heals.  The template renders for an issue a name that is taken *)
(* for that issue.                                                         *)
(***************************************************************************)
ReadsBack == \A s \in DOMAIN Denotes : /\ Canon[Denotes[s]] \in DOMAIN Denotes
                                       /\ Denotes[Canon[Denotes[s]]] = Denotes[s]

\* An issue has one row, and a row's file is not named for another issue.
Labelled(rs) == /\ \A r, s \in DOMAIN rs : rs[r].issue = rs[s].issue => r = s
             /\ \A r \in DOMAIN rs : rs[r].path[2] \in DOMAIN Denotes =>
                                        Denotes[rs[r].path[2]] = rs[r].issue
Readable == \A p \in DOMAIN shelfDisk : Shelf!Hidden(p) \/ p[2] \in DOMAIN Denotes
Tidy == shelfActor["pp"].at = "rescan" => Labelled(shelfRows) /\ Readable

\* rows rs of the files d, where todo are the files still to be looked at
Mends(d, todo, rs) ==
  /\ \A r \in DOMAIN rs : rs[r].path \in DOMAIN d
  /\ \A p \in todo : p[2] \in DOMAIN Denotes
  /\ \A p \in DOMAIN d : p[1] = shelfHome /\ ~Shelf!Hidden(p) =>
        p \in todo \/ \E r \in DOMAIN rs : rs[r].path = p \/ rs[r].issue = Denotes[p[2]]

Missing == {r \in DOMAIN shelfRows : shelfRows[r].path \notin DOMAIN shelfDisk}

Healing ==
  LET w == shelfActor["pp"] IN
  w.at \in Healings /\ w.alone =>
    /\ shelfActor["scan"].at = "idle" /\ shelfActor["api"].at = "idle"
    /\ shelfHome # Shelf!NoHome
    /\ w.at = "rescan" => w.pending = shelfRows
    /\ w.at \in {"walk", "walked"} => Labelled(shelfRows) /\ Readable /\ w.moved = Missing
    /\ w.at = "walked" => w.todo = Shelf!Walk(shelfHome, Shelf!PathsOf(shelfRows))
    /\ w.at = "importing" => Labelled(w.pending) /\ Mends(shelfDisk, w.todo, w.pending)

LEMMA ExistingRow ==
  ASSUME NEW rs, NEW i, Table(rs)
  PROVE  LET e == Shelf!Existing(rs, i) IN
         \/ e = 0 /\ \A r \in DOMAIN rs : rs[r].issue # i
         \/ e \in DOMAIN rs /\ e # 0 /\ rs[e].issue = i
<1> DEFINE own == {r \in DOMAIN rs : rs[r].issue = i}
<1>1. PICK b \in Nat : DOMAIN rs \subseteq 1..b
  BY DEF Table
<1>2. CASE own = {}
  BY <1>2 DEF Shelf!Existing
<1>3. CASE own # {}
  <2>1. own \subseteq Nat
    BY <1>1
  <2> HIDE DEF own
  <2>2. Shelf!Min(own) \in own
    BY <1>3, <2>1, LeastOne DEF Imports!Min, Shelf!Min
  <2>3. Shelf!Existing(rs, i) = Shelf!Min(own)
    BY <1>3 DEF Shelf!Existing, own
  <2>4. \A r \in own : r \in DOMAIN rs /\ rs[r].issue = i /\ r # 0
    BY <1>1 DEF own
  <2> QED
    BY <2>2, <2>3, <2>4
<1> QED
  BY <1>2, <1>3

LEMMA ImportMends ==
  ASSUME NEW p, NEW todo, NEW rs, Mode # "hardlink", ReadsBack,
         Table(rs), Labelled(rs), Mends(shelfDisk, todo, rs), p \in todo, p \in DOMAIN shelfDisk
  PROVE  LET x == Shelf!Executed(p, rs) IN Labelled(x.rows) /\ Mends(x.disk, todo \ {p}, x.rows)
<1> DEFINE i == Denotes[p[2]]
           e == Shelf!Existing(rs, i)
           dest == Shelf!Path(shelfHome, Canon[i], p[3])
           old == IF e = 0 THEN {} ELSE {rs[e].path} \cap DOMAIN shelfDisk
           loser == old \ {p}
           space == Shelf!Without(shelfDisk, loser \cap {dest})
           placed == Shelf!Placed(space, p, dest)
           kept == IF old # {} \/ (e # 0 /\ rs[e].path = dest) THEN Shelf!Without(rs, {e}) ELSE rs
           row == [path |-> dest, c |-> shelfDisk[p], issue |-> i]
           id == Shelf!NewId(kept)
           x == Shelf!Executed(p, rs)
<1>1. p[2] \in DOMAIN Denotes /\ Canon[i] \in DOMAIN Denotes /\ Denotes[Canon[i]] = i
  BY DEF ReadsBack, Mends
<1>2. dest[2] = Canon[i]
  BY DEF Shelf!Path
<1>3. \/ e = 0 /\ \A r \in DOMAIN rs : rs[r].issue # i
      \/ e \in DOMAIN rs /\ e # 0 /\ rs[e].issue = i
  BY ExistingRow
<1>4. row.path = dest /\ row.issue = i
  OBVIOUS
<1> HIDE DEF e, i, dest, row
<1>5. \A r \in DOMAIN rs \ {e} : /\ rs[r].issue # i /\ rs[r].path # p /\ rs[r].path # dest
                                 /\ e # 0 => rs[r].path # rs[e].path
  <2> TAKE r \in DOMAIN rs \ {e}
  <2>1. rs[r].issue # i
    BY <1>3 DEF Labelled
  <2>2. rs[r].path # p
    BY <1>1, <2>1 DEF Labelled, i
  <2>3. rs[r].path # dest
    BY <1>1, <1>2, <2>1 DEF Labelled
  <2> QED
    BY <1>3, <2>1, <2>2, <2>3 DEF Table
<1>6. old = (IF e = 0 THEN {} ELSE {rs[e].path})
  BY <1>3 DEF Mends
<1>7. kept = IF e = 0 THEN rs ELSE Shelf!Without(rs, {e})
  BY <1>6
<1>8. /\ DOMAIN kept = DOMAIN rs \ {e} /\ \A r \in DOMAIN kept : kept[r] = rs[r]
      /\ Table(kept)
  <2>1. DOMAIN Shelf!Without(rs, {e}) = DOMAIN rs \ {e}
    BY WithoutDomain
  <2>2. \A r \in DOMAIN rs \ {e} : Shelf!Without(rs, {e})[r] = rs[r]
    BY WithoutValue
  <2>3. Table(Shelf!Without(rs, {e}))
    BY StaysTable
  <2>4. e = 0 => e \notin DOMAIN rs
    BY DEF Table
  <2> HIDE DEF kept
  <2> QED
    BY <1>7, <2>1, <2>2, <2>3, <2>4
<1>9. id \notin DOMAIN kept
  BY <1>8, RowIds
<1>10. dest \notin Shelf!PathsOf(kept)
  BY <1>5, <1>8 DEF Shelf!PathsOf
<1> HIDE DEF old
<1>11. /\ x.disk = Shelf!Without(placed, loser \ {dest})
       /\ x.rows = Shelf!With(kept, id, row)
  <2>1. ~Shelf!Blocked(space, p, dest)
    BY DEF Shelf!Blocked
  <2> HIDE DEF space, placed, loser, kept, id
  <2>2. /\ Shelf!Executed(p, rs) = [disk |-> Shelf!Without(placed, loser \ {dest}),
             lost |-> {shelfDisk[y] : y \in loser}, rows |-> Shelf!With(kept, id, row)]
    BY <1>10, <2>1 DEF Shelf!Executed, i, e, dest, old, loser, space, placed, kept, id, row
  <2> QED
    BY <2>2
<1>12. /\ DOMAIN x.rows = DOMAIN kept \cup {id}
       /\ \A r \in DOMAIN kept \cup {id} : x.rows[r] = IF r = id THEN row ELSE kept[r]
  <2> HIDE DEF x, id, kept
  <2>1. DOMAIN x.rows = DOMAIN kept \cup {id}
    BY <1>11, WithDomain
  <2>2. \A r \in DOMAIN kept \cup {id} : Shelf!With(kept, id, row)[r] = IF r = id THEN row ELSE kept[r]
    BY WithValue
  <2> QED
    BY <1>11, <2>1, <2>2
<1>13. /\ DOMAIN x.disk = DOMAIN placed \ (loser \ {dest})
       /\ DOMAIN space = DOMAIN shelfDisk \ (loser \cap {dest})
       /\ DOMAIN placed \in {(DOMAIN space \ {p}) \cup {dest}, DOMAIN space \cup {dest}}
  <2> HIDE DEF space, placed, loser
  <2>1. DOMAIN Shelf!Without(placed, loser \ {dest}) = DOMAIN placed \ (loser \ {dest})
    BY WithoutDomain
  <2>2. DOMAIN Shelf!Without(shelfDisk, loser \cap {dest}) = DOMAIN shelfDisk \ (loser \cap {dest})
    BY WithoutDomain
  <2>3. DOMAIN Shelf!Moved(space, p, dest) = (DOMAIN space \ {p}) \cup {dest}
    BY MovedDomain
  <2>4. DOMAIN Shelf!With(space, dest, space[p]) = DOMAIN space \cup {dest}
    BY WithDomain
  <2> QED
    BY <1>11, <2>1, <2>2, <2>3, <2>4 DEF space, placed, Shelf!Placed
<1> HIDE DEF x, id, kept, placed, space
<1>14. loser = (IF e = 0 THEN {} ELSE {rs[e].path} \ {p})
  BY <1>6
<1> HIDE DEF loser
<1>15. Labelled(x.rows)
  <2>1. \A r \in DOMAIN x.rows : \/ r = id /\ x.rows[r] = row
                                 \/ r \in DOMAIN rs \ {e} /\ r # id /\ x.rows[r] = rs[r]
    BY <1>8, <1>9, <1>12
  <2>2. \A r, s \in DOMAIN x.rows : x.rows[r].issue = x.rows[s].issue => r = s
    BY <1>4, <1>5, <2>1 DEF Labelled
  <2>3. \A r \in DOMAIN x.rows : x.rows[r].path[2] \in DOMAIN Denotes =>
                                    Denotes[x.rows[r].path[2]] = x.rows[r].issue
    BY <1>1, <1>2, <1>4, <2>1 DEF Labelled
  <2> QED
    BY <2>2, <2>3 DEF Labelled
<1>16. Mends(x.disk, todo \ {p}, x.rows)
  <2>1. ASSUME NEW r \in DOMAIN x.rows PROVE x.rows[r].path \in DOMAIN x.disk
    <3>1. CASE r = id
      BY <1>4, <1>12, <1>13, <3>1
    <3>2. CASE r # id
      <4>1. r \in DOMAIN rs \ {e} /\ x.rows[r] = rs[r]
        BY <1>8, <1>12, <2>1, <3>2
      <4>2. rs[r].path \in DOMAIN shelfDisk
        BY <4>1 DEF Mends
      <4>3. rs[r].path # p /\ rs[r].path # dest /\ rs[r].path \notin loser
        BY <1>5, <1>14, <4>1
      <4> QED
        BY <1>13, <4>1, <4>2, <4>3
    <3> QED
      BY <3>1, <3>2
  <2>2. \A q \in todo \ {p} : q[2] \in DOMAIN Denotes
    BY DEF Mends
  <2>3. ASSUME NEW q \in DOMAIN x.disk, q[1] = shelfHome, ~Shelf!Hidden(q)
        PROVE  q \in todo \ {p} \/ \E r \in DOMAIN x.rows : x.rows[r].path = q
                                                            \/ x.rows[r].issue = Denotes[q[2]]
    <3>1. id \in DOMAIN x.rows /\ x.rows[id].path = dest /\ x.rows[id].issue = i
      BY <1>4, <1>12
    <3>2. CASE q = dest
      BY <3>1, <3>2
    <3>3. CASE q = p
      BY <3>1, <3>3 DEF i
    <3>4. CASE q # dest /\ q # p
      <4>1. q \in DOMAIN shelfDisk /\ q \notin loser
        BY <1>13, <2>3, <3>4
      <4>2. q \in todo \/ \E r \in DOMAIN rs : rs[r].path = q \/ rs[r].issue = Denotes[q[2]]
        BY <2>3, <4>1 DEF Mends
      <4>3. ASSUME NEW r \in DOMAIN rs, rs[r].path = q \/ rs[r].issue = Denotes[q[2]]
            PROVE  \E s \in DOMAIN x.rows : x.rows[s].path = q \/ x.rows[s].issue = Denotes[q[2]]
        <5>1. CASE r = e
          <6>1. e # 0 /\ rs[e].path # q
            BY <1>3, <1>14, <3>4, <4>1, <4>3, <5>1 DEF Table
          <6>2. i = Denotes[q[2]]
            BY <1>3, <4>3, <5>1, <6>1
          <6> QED
            BY <3>1, <6>2
        <5>2. CASE r # e
          <6>1. r \in DOMAIN x.rows /\ x.rows[r] = rs[r]
            BY <1>8, <1>9, <1>12, <5>2
          <6> QED
            BY <4>3, <6>1
        <5> QED
          BY <5>1, <5>2
      <4> QED
        BY <3>4, <4>2, <4>3
    <3> QED
      BY <3>2, <3>3, <3>4
  <2> QED
    BY <2>1, <2>2, <2>3 DEF Mends
<1> QED
  BY <1>15, <1>16 DEF x

\* The pass, step by step.
LEMMA RescanHealing ==
  ASSUME Mode # "hardlink", ReadsBack, Sized, Healing, Tidy, Shelf!Rescan
  PROVE  Healing'
<1> DEFINE w == shelfActor["pp"]
           v == shelfActor'["pp"]
<1>0. Cell(w) /\ "pp" \in Shelf!Actors /\ Shaped /\ Table(shelfRows)
  BY Three DEF Sized, Shaped
<1>1. CASE Shelf!RescanBegin
  <2> DEFINE c == [Shelf!Idle EXCEPT !.at = "rescan", !.pending = shelfRows]
  <2>1. Shelf!Begin("pp", c) /\ Cell(c) /\ c.at = "rescan" /\ c.pending = shelfRows
    BY <1>1, IdleIs DEF Shelf!RescanBegin, Cell, Fields
  <2>2. /\ v.at = "rescan" /\ v.pending = shelfRows /\ v.alone = Shelf!Quiet
        /\ shelfActor'["scan"].at = shelfActor["scan"].at /\ shelfActor'["api"].at = shelfActor["api"].at
    <3>1. "scan" \in Shelf!Actors \ {"pp"} /\ "api" \in Shelf!Actors \ {"pp"}
      BY Three
    <3> HIDE DEF c
    <3> QED
      BY <1>0, <2>1, <3>1, BeginsHere, BeginsBeside
  <2>3. shelfHome' = shelfHome /\ shelfHome # Shelf!NoHome /\ shelfRows' = shelfRows
    BY <1>1 DEF Shelf!RescanBegin
  <2> QED
    BY <2>2, <2>3, Three DEF Healing, Shelf!Quiet, Shelf!At
<1>2. ASSUME NEW c, Cell(c), Shelf!Goto("pp", c), c.alone => w.alone, w.at \in Healings,
             UNCHANGED shelfHome
      PROVE  /\ v = c
             /\ v.alone => /\ shelfActor'["scan"].at = "idle" /\ shelfActor'["api"].at = "idle"
                           /\ shelfHome' # Shelf!NoHome
  <2>1. v = c /\ \A b \in Shelf!Actors \ {"pp"} : shelfActor'[b] = shelfActor[b]
    BY <1>0, <1>2, Goes
  <2> QED
    BY <1>2, <2>1, Three DEF Healing
<1>3. CASE Shelf!RescanLook
  <2> DEFINE c == [w EXCEPT !.at = "walk", !.pending = <<>>,
           !.moved = {r \in DOMAIN w.pending : w.pending[r].path \notin DOMAIN shelfDisk}]
  <2>1. /\ Cell(c) /\ c.at = "walk" /\ c.alone = w.alone
        /\ c.moved = {r \in DOMAIN w.pending : w.pending[r].path \notin DOMAIN shelfDisk}
    BY <1>0 DEF Cell, Fields
  <2>2. /\ w.at = "rescan" /\ Shelf!Goto("pp", c) /\ UNCHANGED <<shelfHome, shelfDisk, shelfRows>>
    BY <1>3 DEF Shelf!RescanLook, Shelf!At
  <2> HIDE DEF c
  <2>3. /\ v = c
        /\ v.alone => /\ shelfActor'["scan"].at = "idle" /\ shelfActor'["api"].at = "idle"
                      /\ shelfHome' # Shelf!NoHome
    BY <1>2, <2>1, <2>2 DEF Healings
  <2>4. v.alone => w.pending = shelfRows /\ Labelled(shelfRows) /\ Readable
    BY <2>1, <2>2, <2>3 DEF Healing, Healings, Tidy
  <2>5. v.alone => v.moved = Missing
    BY <2>1, <2>3, <2>4 DEF Missing
  <2> QED
    BY <2>1, <2>2, <2>3, <2>4, <2>5 DEF Healing, Readable, Missing
<1>4. CASE Shelf!RescanWalk
  <2> DEFINE todo == IF shelfHome = Shelf!NoHome THEN {}
                     ELSE Shelf!Walk(shelfHome, Shelf!PathsOf(shelfRows))
             c == [w EXCEPT !.at = "walked", !.todo = todo]
  <2>1. Cell(c) /\ c.at = "walked" /\ c.alone = w.alone /\ c.moved = w.moved /\ c.todo = todo
    BY <1>0 DEF Cell, Fields
  <2>2. /\ w.at = "walk" /\ Shelf!Goto("pp", c) /\ UNCHANGED <<shelfHome, shelfDisk, shelfRows>>
    BY <1>4 DEF Shelf!RescanWalk, Shelf!At
  <2> HIDE DEF c
  <2>3. /\ v = c
        /\ v.alone => /\ shelfActor'["scan"].at = "idle" /\ shelfActor'["api"].at = "idle"
                      /\ shelfHome' # Shelf!NoHome
    BY <1>2, <2>1, <2>2 DEF Healings
  <2>4. v.alone => Labelled(shelfRows) /\ Readable /\ w.moved = Missing
    BY <2>1, <2>2, <2>3 DEF Healing, Healings
  <2> QED
    BY <2>1, <2>2, <2>3, <2>4 DEF Healing, Readable, Missing, Shelf!Walk
<1>5. CASE Shelf!RescanPrune
  <2> DEFINE rs == Shelf!Without(shelfRows, w.moved)
             c == [w EXCEPT !.at = "importing", !.pending = rs]
  <2>1. Cell(c) /\ c.at = "importing" /\ c.alone = w.alone /\ c.todo = w.todo /\ c.pending = rs
    BY <1>0 DEF Cell, Fields
  <2>2. /\ w.at = "walked" /\ Shelf!Goto("pp", c) /\ UNCHANGED <<shelfHome, shelfDisk, shelfRows>>
    BY <1>5 DEF Shelf!RescanPrune, Shelf!At
  <2> HIDE DEF c
  <2>3. /\ v = c
        /\ v.alone => /\ shelfActor'["scan"].at = "idle" /\ shelfActor'["api"].at = "idle"
                      /\ shelfHome' # Shelf!NoHome
    BY <1>2, <2>1, <2>2 DEF Healings
  <2>4. v.alone => /\ Labelled(shelfRows) /\ Readable /\ w.moved = Missing
                   /\ w.todo = Shelf!Walk(shelfHome, Shelf!PathsOf(shelfRows))
    BY <2>1, <2>2, <2>3 DEF Healing, Healings
  <2>5. DOMAIN rs = DOMAIN shelfRows \ w.moved /\ \A r \in DOMAIN rs : rs[r] = shelfRows[r]
    <3>1. DOMAIN rs = DOMAIN shelfRows \ w.moved
      BY WithoutDomain
    <3> QED
      BY <3>1, WithoutValue
  <2> HIDE DEF rs
  <2>6. v.alone => Labelled(rs)
    BY <2>4, <2>5 DEF Labelled
  <2>7. ASSUME v.alone PROVE Mends(shelfDisk, w.todo, rs)
    <3>1. \A r \in DOMAIN rs : rs[r].path \in DOMAIN shelfDisk
      BY <2>4, <2>5, <2>7 DEF Missing
    <3>2. \A p \in w.todo : p[2] \in DOMAIN Denotes
      BY <2>4, <2>7 DEF Shelf!Walk, Readable
    <3>3. ASSUME NEW p \in DOMAIN shelfDisk, p[1] = shelfHome, ~Shelf!Hidden(p), p \notin w.todo
          PROVE  \E r \in DOMAIN rs : rs[r].path = p
      <4>1. p \in Shelf!PathsOf(shelfRows)
        BY <2>4, <2>7, <3>3 DEF Shelf!Walk
      <4>2. PICK r \in DOMAIN shelfRows : shelfRows[r].path = p
        BY <4>1 DEF Shelf!PathsOf
      <4>3. r \notin Missing
        BY <4>2, <3>3 DEF Missing
      <4> QED
        BY <2>4, <2>5, <2>7, <4>2, <4>3
    <3> QED
      BY <3>1, <3>2, <3>3 DEF Mends
  <2> QED
    BY <2>1, <2>2, <2>3, <2>6, <2>7 DEF Healing, Mends
<1>6. ASSUME NEW p \in w.todo, Shelf!ImportOne(p) PROVE Healing'
  <2> DEFINE x == Shelf!Executed(p, w.pending)
             c(rs) == [w EXCEPT !.todo = @ \ {p}, !.pending = rs]
  <2>1. \A rs : /\ Cell(c(rs)) /\ c(rs).at = w.at /\ c(rs).alone = w.alone
                /\ c(rs).todo = w.todo \ {p} /\ c(rs).pending = rs
    BY <1>0 DEF Cell, Fields
  <2>2. w.at = "importing" /\ UNCHANGED <<shelfHome, shelfRows>>
    BY <1>6 DEF Shelf!ImportOne, Shelf!At
  <2>3. \/ /\ p \in DOMAIN shelfDisk /\ shelfDisk' = x.disk
           /\ Shelf!Goto("pp", c(x.rows))
        \/ /\ shelfDisk' = shelfDisk /\ Shelf!Goto("pp", c(w.pending))
           /\ ~(shelfHome # Shelf!NoHome /\ p \in DOMAIN shelfDisk /\ Shelf!Approved(w.pending, p))
    BY <1>6 DEF Shelf!ImportOne
  <2>4. Table(w.pending)
    BY <2>2 DEF Sized
  <2>5. w.alone => shelfHome # Shelf!NoHome /\ Labelled(w.pending) /\ Mends(shelfDisk, w.todo, w.pending)
    BY <2>2 DEF Healing, Healings
  <2>6. ASSUME w.alone, p \in DOMAIN shelfDisk
        PROVE  Labelled(x.rows) /\ Mends(x.disk, w.todo \ {p}, x.rows)
    BY <2>4, <2>5, <2>6, ImportMends
  <2>7. ASSUME w.alone, p \notin DOMAIN shelfDisk \/ ~Shelf!Approved(w.pending, p)
        PROVE  Mends(shelfDisk, w.todo \ {p}, w.pending)
    <3> DEFINE rs == w.pending
               i == Denotes[p[2]]
    <3>1. p \in DOMAIN shelfDisk => \E r \in DOMAIN rs : rs[r].issue = i
      <4>1. p \in DOMAIN shelfDisk => Shelf!Existing(rs, i) # 0
        BY <2>7 DEF Shelf!Approved
      <4> QED
        BY <2>4, <4>1, ExistingRow
    <3> HIDE DEF rs
    <3> QED
      BY <2>5, <2>7, <3>1 DEF Mends, rs
  <2> HIDE DEF x, c
  <2>8. PICK rs : /\ Shelf!Goto("pp", c(rs))
                  /\ w.alone => Labelled(rs) /\ Mends(shelfDisk', w.todo \ {p}, rs)
    BY <2>3, <2>5, <2>6, <2>7
  <2>9. /\ v = c(rs)
        /\ v.alone => /\ shelfActor'["scan"].at = "idle" /\ shelfActor'["api"].at = "idle"
                      /\ shelfHome' # Shelf!NoHome
    BY <1>2, <2>1, <2>2, <2>8 DEF Healings
  <2> QED
    BY <2>1, <2>2, <2>8, <2>9 DEF Healing, Mends
<1>7. ASSUME NEW p \in w.todo, Shelf!ImportFails(p) PROVE Healing'
  <2> DEFINE c == [w EXCEPT !.todo = @ \ {p}, !.alone = FALSE]
  <2>1. Shelf!Goto("pp", c) /\ Cell(c) /\ ~c.alone
    BY <1>0, <1>7 DEF Shelf!ImportFails, Cell, Fields
  <2>2. v = c
    BY <1>0, <2>1, Goes
  <2> QED
    BY <2>1, <2>2 DEF Healing
<1>8. CASE Shelf!RescanCommit \/ Shelf!RescanCommitFails
  <2>1. Shelf!Goto("pp", Shelf!Idle)
    BY <1>8 DEF Shelf!RescanCommit, Shelf!RescanCommitFails
  <2>2. v = Shelf!Idle
    BY <1>0, <2>1, Goes, IdleIs
  <2> QED
    BY <2>2, IdleIs DEF Healing, Healings
<1> QED
  BY <1>1, <1>3, <1>4, <1>5, <1>6, <1>7, <1>8 DEF Shelf!Rescan

LEMMA HealingStep ==
  ASSUME Mode # "hardlink", ReadsBack, Sized, Healing, Tidy, [Shelf!Next]_shelfVars
  PROVE  Healing'
<1>0. Shaped /\ Healing
  BY DEF Sized
<1>1. CASE Shelf!Scan
  <2>1. ASSUME NEW c, Shelf!Begin("scan", c), Cell(c) PROVE Healing'
    <3>1. "pp" \in Shelf!Actors \ {"scan"}
      BY Three
    <3>2. shelfActor'["pp"].alone = FALSE
      BY <1>0, <2>1, <3>1, BeginsBeside, Three
    <3> QED
      BY <3>2 DEF Healing
  <2>2. CASE Shelf!ScanBegin
    <3> DEFINE todo == Shelf!Walk(shelfHome, Shelf!PathsOf(shelfRows))
               c == [Shelf!Idle EXCEPT !.at = "scanned", !.todo = todo, !.pending = shelfDisk]
    <3>1. Shelf!Begin("scan", c) /\ Cell(c)
      BY <2>2, IdleIs DEF Shelf!ScanBegin, Cell, Fields
    <3> QED
      BY <2>1, <3>1
  <2>3. CASE Shelf!ScanWrite
    <3>1. Shelf!Goto("scan", Shelf!Idle) /\ shelfActor["scan"].at = "scanned"
      BY <2>3 DEF Shelf!ScanWrite, Shelf!At
    <3>2. shelfActor'["pp"] = shelfActor["pp"]
      BY <1>0, <3>1, Goes, IdleIs, Three
    <3> QED
      BY <3>1, <3>2 DEF Healing
  <2> QED
    BY <1>1, <2>2, <2>3 DEF Shelf!Scan
<1>2. CASE Elsewhere
  <2>1. CASE Acts("pp")
    <3>1. PICK c : Cell(c) /\ c.at \notin Healings /\ (Shelf!Begin("pp", c) \/ Shelf!Goto("pp", c))
      BY <2>1 DEF Acts
    <3>2. shelfActor'["pp"].at = c.at
      <4>1. Shelf!Begin("pp", c) => shelfActor'["pp"].at = c.at
        BY <1>0, <3>1, BeginsHere, Three
      <4>2. Shelf!Goto("pp", c) => shelfActor'["pp"] = c
        BY <1>0, <3>1, Goes, Three
      <4> QED
        BY <3>1, <4>1, <4>2
    <3> QED
      BY <3>1, <3>2 DEF Healing
  <2>2. CASE Acts("api")
    <3>1. PICK c : /\ Cell(c)
                   /\ Shelf!Begin("api", c) \/ (Shelf!Goto("api", c) /\ shelfActor["api"].at # "idle")
      BY <2>2 DEF Acts
    <3>2. CASE Shelf!Begin("api", c)
      <4>1. "pp" \in Shelf!Actors \ {"api"}
        BY Three
      <4>2. shelfActor'["pp"].alone = FALSE
        BY <1>0, <3>1, <3>2, <4>1, BeginsBeside, Three
      <4> QED
        BY <4>2 DEF Healing
    <3>3. CASE Shelf!Goto("api", c) /\ shelfActor["api"].at # "idle"
      <4>1. shelfActor'["pp"] = shelfActor["pp"]
        BY <1>0, <3>1, <3>3, Goes, Three
      <4> QED
        BY <3>3, <4>1 DEF Healing
    <3> QED
      BY <3>1, <3>2, <3>3
  <2> QED
    BY <1>2, <2>1, <2>2 DEF Elsewhere
<1>3. CASE Grown /\ Disturbs
  <2>1. shelfActor'["pp"].alone = FALSE
    BY <1>0, <1>3, Disturbed, Three
  <2> QED
    BY <2>1 DEF Healing
<1>4. CASE Shelf!Crash
  <2>1. shelfActor'["pp"] = Shelf!Idle
    BY <1>4, Crashed, Three
  <2> QED
    BY <2>1, IdleIs DEF Healing, Healings
<1>5. CASE UNCHANGED shelfVars
  BY <1>5 DEF shelfVars, Healing, Labelled, Readable, Mends, Missing, Shelf!Walk, Shelf!PathsOf, Shelf!Hidden
<1> QED
  BY <1>1, <1>2, <1>3, <1>4, <1>5, RescanHealing, StepForms DEF Stepped

LEMMA HealingInit == ASSUME Shelf!Init PROVE Healing
<1>1. shelfActor["pp"].at = "idle"
  BY IdleIs, Three DEF Shelf!Init
<1> QED
  BY <1>1 DEF Healing, Healings

\* A rescan that nothing disturbs heals the series (rescan_series): when it
\* commits, every row names a file, and every file of the directory is
\* registered or its issue has another one.  That holds when the pass finds one
\* row for an issue and no row named for another issue, the template's names are
\* read back, and files are moved or copied: a hard link to itself is refused.
THEOREM RescansHeal ==
  ASSUME Mode # "hardlink", ReadsBack
  PROVE  Spec => ([]Tidy => RescanHeals)
<1> DEFINE A == (Shelf!At("pp", "importing") /\ Shelf!RescanCommit /\ shelfActor["pp"].alone
                   /\ shelfHome # Shelf!NoHome) =>
          /\ \A r \in DOMAIN shelfRows' : shelfRows'[r].path \in DOMAIN shelfDisk'
          /\ \A p \in DOMAIN shelfDisk' : (p[1] = shelfHome' /\ ~Shelf!Hidden(p)) =>
                \E r \in DOMAIN shelfRows' : shelfRows'[r].path = p \/ shelfRows'[r].issue = Denotes[p[2]]
<1>1. Init => Sized /\ Healing
  BY SizedInit, HealingInit DEF Init
<1>2. ASSUME Sized, Healing PROVE A
  <2> SUFFICES ASSUME Shelf!At("pp", "importing"), Shelf!RescanCommit, shelfActor["pp"].alone,
                      shelfHome # Shelf!NoHome
               PROVE  /\ \A r \in DOMAIN shelfRows' : shelfRows'[r].path \in DOMAIN shelfDisk'
                      /\ \A p \in DOMAIN shelfDisk' : (p[1] = shelfHome' /\ ~Shelf!Hidden(p)) =>
                           \E r \in DOMAIN shelfRows' : shelfRows'[r].path = p
                                                          \/ shelfRows'[r].issue = Denotes[p[2]]
    OBVIOUS
  <2>1. /\ shelfActor["pp"].todo = {} /\ shelfRows' = shelfActor["pp"].pending
        /\ UNCHANGED <<shelfDisk, shelfHome>>
    BY DEF Shelf!RescanCommit
  <2>2. Mends(shelfDisk, {}, shelfActor["pp"].pending)
    <3>1. shelfActor["pp"].at = "importing" /\ shelfActor["pp"].at \in Healings
      BY DEF Shelf!At, Healings
    <3> QED
      BY <1>2, <2>1, <3>1 DEF Healing
  <2> QED
    BY <2>1, <2>2 DEF Mends
<1>3. Sized /\ Healing /\ Tidy /\ [Next]_vars => Sized' /\ Healing' /\ [A]_(Shelf!vars)
  BY <1>2, OneActs, SizedStep, HealingStep
<1> QED
  BY <1>1, <1>3, PTL DEF Spec, RescanHeals, Shelf!RescanHeals

(***************************************************************************)
(* No comic is lost.  What the names promise: the template's names are     *)
(* read back, a staging name is one row's and is read for no issue; and no *)
(* file is better than itself.                                             *)
(***************************************************************************)
NamesHold ==
  /\ ReadsBack
  /\ Shelf!Range(TempStem) \cap DOMAIN Denotes = {}
  /\ \A n \in Nat \ {0} : TempStem[n] \in Shelf!Range(TempStem)
  /\ \A m, n \in Nat \ {0} : TempStem[m] = TempStem[n] => m = n
  /\ \A c \in Contents : <<c, c>> \notin Better

\* what lies in the directories at the start, or is dropped in later
Offered(reg, p, c) == \/ p \in DOMAIN reg.disk /\ c = reg.disk[p]
                      \/ p \in DOMAIN reg.arrivals /\ c = reg.arrivals[p]
Comic(reg, i, c) == \E p \in DOMAIN reg.disk \cup DOMAIN reg.arrivals :
                       Offered(reg, p, c) /\ Denotes[p[2]] = i

\* One flow at a time, one comic to an issue, and rows for what their files are named.
Calm(reg) ==
  /\ ~reg.crowd
  /\ \A p, q \in DOMAIN reg.disk \cup DOMAIN reg.arrivals : \A c, d \in Contents :
        Denotes[p[2]] = Denotes[q[2]] /\ Offered(reg, p, c) /\ Offered(reg, q, d) => c = d
  /\ \A n \in DOMAIN reg.rows : Denotes[reg.rows[n].path[2]] = reg.rows[n].issue

\* A rename finds its names free.
Clear == shelfActor["pp"].at = "rename" =>
  \A m \in shelfActor["pp"].todo : m.from \in DOMAIN shelfDisk =>
     /\ m.to \in DOMAIN shelfDisk => m.to = m.from
     /\ \A p \in DOMAIN shelfDisk : Shelf!Hidden(m.to) /\ p[2] = m.to[2] => p = m.from

Triple(p) == p = Shelf!Path(p[1], p[2], p[3])

\* A file that is no leftover of a rename holds the comic its name denotes.
FileTold(reg, p, c) ==
  /\ Triple(p) /\ c \in Contents
  /\ ~Shelf!Hidden(p) => p[2] \in DOMAIN Denotes /\ Comic(reg, Denotes[p[2]], c)
DiskTold(reg, d) == \A p \in DOMAIN d : FileTold(reg, p, d[p])

\* A row holds the comic of its issue, under a name of that issue or its own staging name.
RowTold(reg, r, row) ==
  /\ Triple(row.path) /\ row.c \in Contents /\ Comic(reg, row.issue, row.c)
  /\ Shelf!Hidden(row.path) => row.path[2] = TempStem[r]
  /\ ~Shelf!Hidden(row.path) => row.path[2] \in DOMAIN Denotes /\ Denotes[row.path[2]] = row.issue
RowsTold(reg, rs) == \A r \in DOMAIN rs : RowTold(reg, r, rs[r])

\* What lies under a row's staging name is its comic.
Tied(d, rs) == \A r \in DOMAIN rs : \A p \in DOMAIN d :
                  Shelf!Hidden(p) /\ p[2] = rs[r].path[2] => d[p] = rs[r].c

\* the row's file is on its way
InFlight(w, rs, r) ==
  \/ w.at = "importing"
  \/ w.at = "renamed" /\ \E m \in w.cur : m.row = r
  \/ w.at \in {"delete", "undo"} /\ \E m \in w.moved : m.path = rs[r].path
Steady(w, d, rs, exc) ==
  ~exc => \A r \in DOMAIN rs : rs[r].path \in DOMAIN d \/ InFlight(w, rs, r)

BinFiled(w, b, f, l) == l.crashes = 0 /\ l.faults <= 1 =>
  \A c \in b : c \in f \/ (w.at \in {"delete", "undo"} /\ \E m \in w.moved : m.c = c)

(* Where the flow w stands, and what it carries. *)
Scanning(w, d) == w.at = "scanned" =>
  \A p \in w.todo : p \in DOMAIN d /\ ~Shelf!Hidden(p) /\ w.pending[p] = d[p]

Rescanning(w, reg, d, rs, h) ==
  /\ w.at \in Healings => h # Shelf!NoHome
  /\ w.at = "rescan" => w.pending = rs
  /\ w.at \in {"walk", "walked"} => w.moved = {r \in DOMAIN rs : rs[r].path \notin DOMAIN d}
  /\ w.at \in {"walked", "importing"} => \A p \in w.todo : ~Shelf!Hidden(p)
  /\ w.at = "importing" => /\ RowsTold(reg, w.pending) /\ Tied(d, w.pending)
                           /\ \A r \in DOMAIN w.pending : w.pending[r].path \in DOMAIN d

\* a move of a row's file, to its staging name or to its final one
Move(m, rs) == /\ m.row \in DOMAIN rs /\ m.from = rs[m.row].path
               /\ Triple(m.to) /\ Triple(m.final)
               /\ m.final[2] = Canon[rs[m.row].issue]
               /\ m.to = m.final \/ m.to[2] = TempStem[m.row]
OnePerRow(ms) == \A m, n \in ms : m.row = n.row => m = n
MovedTo(m, d, rs, exc) ==
  /\ m.to \in DOMAIN d /\ d[m.to] = rs[m.row].c
  /\ m.from \in DOMAIN d => m.from = m.to
  /\ Shelf!Hidden(m.to) => \A p \in DOMAIN d : p[2] = m.to[2] => d[p] = rs[m.row].c
  /\ ~exc => \A s \in DOMAIN rs \ {m.row} : rs[s].path # m.to
Renaming(w, d, rs, exc) ==
  /\ w.at \in {"rename", "renamed"} =>
        /\ OnePerRow(w.todo \cup w.moved) /\ w.todo \cap w.moved = {}
        /\ \A m \in w.moved : m.to = m.final
        /\ \A m \in w.todo \cup w.moved : Move(m, rs)
  /\ w.at = "renamed" => \A m \in w.cur :
        /\ w.cur = {m} /\ Move(m, rs) /\ MovedTo(m, d, rs, exc)
        /\ \A n \in w.todo \cup w.moved : n.row # m.row

Converting(w, d, rs) ==
  /\ w.at \in {"convert", "promoted", "converted"} =>
        /\ OnePerRow(w.todo)
        /\ \A m \in w.todo : m.row \in DOMAIN rs /\ m.from = rs[m.row].path
  /\ w.at \in {"promoted", "converted"} => \A m \in w.cur :
        /\ w.cur = {m} /\ m.row \in DOMAIN rs /\ \A n \in w.todo : n.row # m.row
        /\ Triple(m.from) /\ m.from[3] = "cbr"
        /\ m.from \in DOMAIN d /\ Shelf!Cbz(m.from) \in DOMAIN d
        /\ d[Shelf!Cbz(m.from)] = d[m.from]
        /\ rs[m.row].path = (IF w.at = "promoted" THEN m.from ELSE Shelf!Cbz(m.from))
        /\ w.at = "converted" => \A s \in DOMAIN rs : rs[s].path # m.from

Entry(m, rs) == m.row \in DOMAIN rs /\ m.from = rs[m.row].path /\ m.c = rs[m.row].c
Removing(w, reg, d, rs, h, lost, faults) ==
  /\ w.at \in {"delete", "undo", "forget"} => \A m \in w.todo : Entry(m, rs)
  /\ w.at \in {"delete", "undo"} => \A m \in w.moved :
        /\ FileTold(reg, m.path, m.c)
        /\ \E r \in DOMAIN w.pending : r \in DOMAIN rs /\ rs[r].path = m.path /\ rs[r].c = m.c
  /\ w.at \in {"delete", "forget"} /\ w.whole => h # Shelf!NoHome
  /\ w.at = "undo" => faults >= 1
  /\ w.at = "unlink" => \A m \in w.todo :
        /\ m.from \in DOMAIN d => d[m.from] \in lost
        /\ \A r \in DOMAIN rs : rs[r].path # m.from

Relocating(w, reg, exc) ==
  w.at = "relocated" => exc /\ w.cur # {} /\ \A e \in w.cur : e.to \in reg.dirs

Flow(w, reg, d, rs, h, exc, lost, faults) ==
  /\ Scanning(w, d) /\ Rescanning(w, reg, d, rs, h) /\ Renaming(w, d, rs, exc)
  /\ Converting(w, d, rs) /\ Removing(w, reg, d, rs, h, lost, faults)
  /\ Relocating(w, reg, exc)

\* Of what the library has, nothing is lost, and it is what its names tell.
Counts(l) == /\ DOMAIN l = {"acts", "faults", "crashes"}
             /\ l.faults \in Nat /\ l.crashes \in Nat
Stands ==
  /\ shelfHome \in shelfRegime.dirs \cup {Shelf!NoHome}
  /\ shelfBin \cup shelfFiled \cup shelfGone \cup shelfSeen \subseteq Contents
  /\ shelfExcused \in BOOLEAN /\ Counts(shelfLimits)
  /\ DiskTold(shelfRegime, shelfDisk) /\ RowsTold(shelfRegime, shelfRows)
  /\ Tied(shelfDisk, shelfRows)
  /\ Shelf!ContentKept

\* a is the one whose flow is under way, if any is
Under(a) ==
  /\ \A b \in Shelf!Actors \ {a} : shelfActor[b].at = "idle"
  /\ Flow(shelfActor[a], shelfRegime, shelfDisk, shelfRows, shelfHome, shelfExcused, shelfGone,
          shelfLimits.faults)
  /\ Steady(shelfActor[a], shelfDisk, shelfRows, shelfExcused)
  /\ BinFiled(shelfActor[a], shelfBin, shelfFiled, shelfLimits)

Sane == Stands /\ \E a \in Shelf!Actors : Under(a)
ShelfInv == Sized /\ (Calm(shelfRegime) => Sane)

LEMMA OfferedFacts ==
  ASSUME NEW reg \in FileRegimes, NEW p \in DOMAIN reg.disk \cup DOMAIN reg.arrivals
  PROVE  /\ Triple(p) /\ p[2] \in DOMAIN Denotes /\ ~Shelf!Hidden(p)
         /\ \A c : Offered(reg, p, c) => c \in Contents
<1>1. p = <<p[1], p[2], p[3]>> /\ p[2] \in DOMAIN Denotes \ Shelf!Range(TempStem)
  BY LibraryAssumption DEF Shelf!RegimesAssumption
<1>2. Shelf!Range(reg.disk) \cup Shelf!Range(reg.arrivals) \subseteq Contents
  BY LibraryAssumption DEF Shelf!RegimesAssumption
<1>3. \A c : Offered(reg, p, c) => c \in Contents
  BY <1>2 DEF Offered, Shelf!Range
<1> QED
  BY <1>1, <1>3 DEF Triple, Shelf!Path, Shelf!Hidden

\* The name the template renders for an issue is read as that issue.
LEMMA CanonReads ==
  ASSUME NEW reg \in FileRegimes, NEW i, NEW c, NamesHold, Comic(reg, i, c)
  PROVE  /\ Canon[i] \in DOMAIN Denotes /\ Denotes[Canon[i]] = i
         /\ Canon[i] \notin Shelf!Range(TempStem)
<1>1. PICK p \in DOMAIN reg.disk \cup DOMAIN reg.arrivals : Denotes[p[2]] = i
  BY DEF Comic
<1>2. p[2] \in DOMAIN Denotes
  BY OfferedFacts
<1> QED
  BY <1>1, <1>2 DEF NamesHold, ReadsBack

LEMMA OneComic ==
  ASSUME NEW reg, NEW i, NEW c \in Contents, NEW e \in Contents, Calm(reg),
         Comic(reg, i, c), Comic(reg, i, e)
  PROVE  c = e
<1>1. PICK p \in DOMAIN reg.disk \cup DOMAIN reg.arrivals : Offered(reg, p, c) /\ Denotes[p[2]] = i
  BY DEF Comic
<1>2. PICK q \in DOMAIN reg.disk \cup DOMAIN reg.arrivals : Offered(reg, q, e) /\ Denotes[q[2]] = i
  BY DEF Comic
<1> QED
  BY <1>1, <1>2 DEF Calm

\* Files of one name hold one comic, unless the name is a staging one.
LEMMA StemTells ==
  ASSUME NEW reg, NEW p, NEW q, NEW c, NEW e, Calm(reg), FileTold(reg, p, c), FileTold(reg, q, e),
         ~Shelf!Hidden(p), p[2] = q[2]
  PROVE  c = e
<1>1. ~Shelf!Hidden(q)
  BY DEF Shelf!Hidden
<1> QED
  BY <1>1, OneComic DEF FileTold

\* What lies at a row's path is its comic.
LEMMA RowsFile ==
  ASSUME NEW reg, NEW d, NEW rs, NEW r \in DOMAIN rs, NEW p \in DOMAIN d, Calm(reg), DiskTold(reg, d),
         RowTold(reg, r, rs[r]), Tied(d, rs), p[2] = rs[r].path[2]
  PROVE  d[p] = rs[r].c
<1>1. CASE Shelf!Hidden(p)
  BY <1>1 DEF Tied
<1>2. CASE ~Shelf!Hidden(p)
  <2>1. ~Shelf!Hidden(rs[r].path)
    BY <1>2 DEF Shelf!Hidden
  <2>2. FileTold(reg, p, d[p])
    BY DEF DiskTold
  <2>3. Comic(reg, Denotes[p[2]], d[p]) /\ d[p] \in Contents
    BY <1>2, <2>2 DEF FileTold
  <2>4. Comic(reg, Denotes[p[2]], rs[r].c) /\ rs[r].c \in Contents
    BY <2>1 DEF RowTold
  <2> QED
    BY <2>3, <2>4, OneComic
<1> QED
  BY <1>1, <1>2

\* A row's file, under another name, is what that name tells.
LEMMA RowsName ==
  ASSUME NEW reg \in FileRegimes, NEW r, NEW row, NEW p, NamesHold, RowTold(reg, r, row), Triple(p),
         DOMAIN row = Columns,
         p[2] = Canon[row.issue] \/ p[2] = row.path[2] \/ (r \in Nat \ {0} /\ p[2] = TempStem[r])
  PROVE  FileTold(reg, p, row.c) /\ RowTold(reg, r, [row EXCEPT !.path = p])
<1> DEFINE new == [row EXCEPT !.path = p]
<1>1. row.c \in Contents /\ Comic(reg, row.issue, row.c)
  BY DEF RowTold
<1>2. new.path = p /\ new.c = row.c /\ new.issue = row.issue
  BY DEF Columns
<1> HIDE DEF new
<1>3. /\ Shelf!Hidden(p) => p[2] = TempStem[r]
      /\ ~Shelf!Hidden(p) => p[2] \in DOMAIN Denotes /\ Denotes[p[2]] = row.issue
  <2>1. CASE p[2] = Canon[row.issue]
    BY <1>1, <2>1, CanonReads DEF Shelf!Hidden
  <2>2. CASE p[2] = row.path[2]
    BY <2>2 DEF RowTold, Shelf!Hidden
  <2>3. CASE r \in Nat \ {0} /\ p[2] = TempStem[r]
    BY <2>3 DEF NamesHold, Shelf!Hidden
  <2> QED
    BY <2>1, <2>2, <2>3
<1> QED
  BY <1>1, <1>2, <1>3 DEF FileTold, RowTold, new

(* Where a flow stands says all that there is to say of it. *)
LEMMA FlowHere ==
  ASSUME NEW w, NEW reg, NEW d, NEW rs, NEW h, NEW exc, NEW lost, NEW faults,
         \/ w.at = "idle"
         \/ w.at = "scanned" /\ Scanning(w, d)
         \/ w.at \in Healings /\ Rescanning(w, reg, d, rs, h)
         \/ w.at \in {"rename", "renamed"} /\ Renaming(w, d, rs, exc)
         \/ w.at \in {"convert", "promoted", "converted"} /\ Converting(w, d, rs)
         \/ w.at \in {"delete", "undo", "forget", "unlink"} /\ Removing(w, reg, d, rs, h, lost, faults)
         \/ w.at = "relocated" /\ Relocating(w, reg, exc)
  PROVE  Flow(w, reg, d, rs, h, exc, lost, faults)
  BY DEF Flow, Scanning, Rescanning, Renaming, Converting, Removing, Relocating, Healings

\* Nothing of it depends on whether the flow is alone.
LEMMA SameFlow ==
  ASSUME NEW w, NEW v, NEW reg, NEW d, NEW rs, NEW h, NEW exc, NEW lost, NEW faults,
         NEW b, NEW f, NEW l,
         v.at = w.at, v.todo = w.todo, v.moved = w.moved, v.cur = w.cur, v.pending = w.pending,
         v.whole = w.whole
  PROVE  /\ Flow(w, reg, d, rs, h, exc, lost, faults) => Flow(v, reg, d, rs, h, exc, lost, faults)
         /\ Steady(w, d, rs, exc) => Steady(v, d, rs, exc)
         /\ BinFiled(w, b, f, l) => BinFiled(v, b, f, l)
<1>1. Scanning(w, d) => Scanning(v, d)
  BY DEF Scanning
<1>2. Rescanning(w, reg, d, rs, h) => Rescanning(v, reg, d, rs, h)
  BY DEF Rescanning
<1>3. Renaming(w, d, rs, exc) => Renaming(v, d, rs, exc)
  BY DEF Renaming
<1>4. Converting(w, d, rs) => Converting(v, d, rs)
  BY DEF Converting
<1>5. Removing(w, reg, d, rs, h, lost, faults) => Removing(v, reg, d, rs, h, lost, faults)
  BY DEF Removing
<1>6. Relocating(w, reg, exc) => Relocating(v, reg, exc)
  BY DEF Relocating
<1>7. Steady(w, d, rs, exc) => Steady(v, d, rs, exc)
  BY DEF Steady, InFlight
<1>8. BinFiled(w, b, f, l) => BinFiled(v, b, f, l)
  BY DEF BinFiled
<1> QED
  BY <1>1, <1>2, <1>3, <1>4, <1>5, <1>6, <1>7, <1>8 DEF Flow

\* A flow that carries no file leaves the rows as steady as none does.
LEMMA Carefree ==
  ASSUME NEW w, NEW d, NEW rs, NEW exc, NEW b, NEW f, NEW l
  PROVE  /\ Steady(Shelf!Idle, d, rs, exc) => Steady(w, d, rs, exc)
         /\ BinFiled(Shelf!Idle, b, f, l) => BinFiled(w, b, f, l)
         /\ w.at \notin {"importing", "renamed", "delete", "undo"} =>
              (Steady(w, d, rs, exc) => Steady(Shelf!Idle, d, rs, exc))
         /\ w.at \notin {"delete", "undo"} => (BinFiled(w, b, f, l) => BinFiled(Shelf!Idle, b, f, l))
  BY IdleIs DEF Steady, InFlight, BinFiled

\* Who acts was at it before, or nobody was.
LEMMA Before ==
  ASSUME Calm(shelfRegime), Sane, NEW a \in Shelf!Actors
  PROVE  /\ shelfActor[a].at # "idle" => Under(a)
         /\ Shelf!MayBegin(a) =>
              /\ \A b \in Shelf!Actors : shelfActor[b].at = "idle"
              /\ Steady(Shelf!Idle, shelfDisk, shelfRows, shelfExcused)
              /\ BinFiled(Shelf!Idle, shelfBin, shelfFiled, shelfLimits)
<1>1. PICK b \in Shelf!Actors : Under(b)
  BY DEF Sane
<1>2. shelfActor[a].at # "idle" => a = b
  BY <1>1 DEF Under
<1>3. ASSUME Shelf!MayBegin(a) PROVE \A e \in Shelf!Actors : shelfActor[e].at = "idle"
  BY <1>3 DEF Shelf!MayBegin, Calm, Shelf!Quiet, Shelf!At
<1>4. shelfActor[b].at = "idle" =>
         /\ Steady(Shelf!Idle, shelfDisk, shelfRows, shelfExcused)
         /\ BinFiled(Shelf!Idle, shelfBin, shelfFiled, shelfLimits)
  BY <1>1, Carefree DEF Under
<1> QED
  BY <1>1, <1>2, <1>3, <1>4

Moves(a, c) == Cell(c) /\ (Shelf!Begin(a, c) \/ (Shelf!Goto(a, c) /\ shelfActor[a].at # "idle"))

\* What the flow c of a carries and leaves is all there is to see after its step.
LEMMA Landing ==
  ASSUME Sized, Calm(shelfRegime), Sane, NEW a \in Shelf!Actors, NEW c, Moves(a, c),
         shelfRegime' = shelfRegime, Stands',
         Flow(c, shelfRegime, shelfDisk', shelfRows', shelfHome', shelfExcused', shelfGone',
              shelfLimits'.faults),
         Steady(c, shelfDisk', shelfRows', shelfExcused'),
         BinFiled(c, shelfBin', shelfFiled', shelfLimits')
  PROVE  Sane'
<1> DEFINE v == shelfActor'[a]
<1>1. /\ v.at = c.at /\ v.todo = c.todo /\ v.moved = c.moved /\ v.cur = c.cur
      /\ v.pending = c.pending /\ v.whole = c.whole
      /\ \A b \in Shelf!Actors \ {a} : shelfActor'[b].at = "idle"
  <2>1. CASE Shelf!Begin(a, c)
    <3>1. \A b \in Shelf!Actors : shelfActor[b].at = "idle"
      BY <2>1, Before DEF Shelf!Begin
    <3>2. Shaped /\ Cell(c)
      BY DEF Sized, Moves
    <3>3. /\ v.at = c.at /\ v.todo = c.todo /\ v.moved = c.moved /\ v.cur = c.cur
          /\ v.pending = c.pending /\ v.whole = c.whole
      BY <2>1, <3>2, Begins
    <3>4. ASSUME NEW b \in Shelf!Actors \ {a} PROVE shelfActor'[b].at = "idle"
      BY <2>1, <3>1, <3>2, BeginsBeside
    <3> QED
      BY <3>3, <3>4
  <2>2. CASE Shelf!Goto(a, c) /\ shelfActor[a].at # "idle"
    <3>1. Under(a)
      BY <2>2, Before
    <3>2. v = c /\ \A b \in Shelf!Actors \ {a} : shelfActor'[b] = shelfActor[b]
      BY <2>2, Goes DEF Sized, Moves
    <3> QED
      BY <3>1, <3>2 DEF Under
  <2> QED
    BY <2>1, <2>2 DEF Moves
<1> HIDE DEF v
<1>2. /\ Flow(v, shelfRegime, shelfDisk', shelfRows', shelfHome', shelfExcused', shelfGone',
              shelfLimits'.faults)
      /\ Steady(v, shelfDisk', shelfRows', shelfExcused')
      /\ BinFiled(v, shelfBin', shelfFiled', shelfLimits')
  BY <1>1, SameFlow
<1>3. Under(a)'
  BY <1>1, <1>2 DEF Under, v
<1> QED
  BY <1>3 DEF Sane

\* What a step counts, and what it excuses.
Charged == /\ Counts(shelfLimits') /\ shelfLimits'.crashes = shelfLimits.crashes
           /\ \/ shelfLimits'.faults = shelfLimits.faults /\ shelfExcused' = shelfExcused
              \/ /\ shelfLimits'.faults = shelfLimits.faults + 1
                 /\ shelfExcused' = (shelfExcused \/ shelfLimits.faults >= 1)

LEMMA Charges ==
  ASSUME Counts(shelfLimits), shelfExcused \in BOOLEAN
  PROVE  /\ Shelf!Fault => Charged /\ shelfLimits'.faults = shelfLimits.faults + 1
                           /\ shelfExcused' = (shelfExcused \/ shelfLimits.faults >= 1)
         /\ Shelf!NoFault => Charged
         /\ UNCHANGED <<shelfLimits, shelfExcused>> => Charged
         /\ \A a, c : Shelf!Begin(a, c) /\ shelfExcused' = shelfExcused => Charged
         /\ shelfLimits' = [shelfLimits EXCEPT !.acts = @ + 1] =>
              /\ Counts(shelfLimits') /\ shelfLimits'.crashes = shelfLimits.crashes
              /\ shelfLimits'.faults = shelfLimits.faults
<1>1. shelfLimits' = [shelfLimits EXCEPT !.acts = @ + 1] =>
         /\ Counts(shelfLimits') /\ shelfLimits'.crashes = shelfLimits.crashes
         /\ shelfLimits'.faults = shelfLimits.faults
  BY DEF Counts
<1>2. shelfLimits' = [shelfLimits EXCEPT !.faults = @ + 1] =>
         /\ Counts(shelfLimits') /\ shelfLimits'.crashes = shelfLimits.crashes
         /\ shelfLimits'.faults = shelfLimits.faults + 1
  BY DEF Counts
<1>3. \A a, c : Shelf!Begin(a, c) => shelfLimits' = [shelfLimits EXCEPT !.acts = @ + 1]
  BY DEF Shelf!Begin
<1> QED
  BY <1>1, <1>2, <1>3 DEF Shelf!Fault, Shelf!NoFault, Charged

\* Nothing is claimed of what a failure excuses.
LEMMA Excuses ==
  ASSUME Counts(shelfLimits), shelfExcused \in BOOLEAN, Charged, NEW w, NEW d, NEW rs, NEW b, NEW f
  PROVE  /\ shelfExcused' \in BOOLEAN /\ (shelfExcused => shelfExcused')
         /\ shelfLimits'.faults >= shelfLimits.faults
         /\ Steady(w, d, rs, shelfExcused) => Steady(w, d, rs, shelfExcused')
         /\ BinFiled(w, b, f, shelfLimits) => BinFiled(w, b, f, shelfLimits')
         /\ Renaming(w, d, rs, shelfExcused) => Renaming(w, d, rs, shelfExcused')
<1>1. shelfExcused' \in BOOLEAN /\ (shelfExcused => shelfExcused')
  <2>1. CASE shelfExcused' = shelfExcused
    BY <2>1
  <2>2. CASE shelfExcused' = (shelfExcused \/ shelfLimits.faults >= 1)
    <3> DEFINE again == shelfLimits.faults >= 1
    <3> HIDE DEF again
    <3>1. shelfExcused' = (shelfExcused \/ again)
      BY <2>2 DEF again
    <3> QED
      BY <3>1, Zenon
  <2> QED
    BY <2>1, <2>2 DEF Charged
<1>2. shelfLimits'.faults >= shelfLimits.faults /\ shelfLimits'.crashes = shelfLimits.crashes
  BY DEF Charged, Counts
<1>3. Steady(w, d, rs, shelfExcused) => Steady(w, d, rs, shelfExcused')
  BY <1>1 DEF Steady
<1>4. BinFiled(w, b, f, shelfLimits) => BinFiled(w, b, f, shelfLimits')
  BY <1>2 DEF BinFiled, Counts, Charged
<1>5. Renaming(w, d, rs, shelfExcused) => Renaming(w, d, rs, shelfExcused')
  BY <1>1 DEF Renaming, MovedTo
<1> QED
  BY <1>1, <1>2, <1>3, <1>4, <1>5

\* A step that touches neither files nor rows.
Untouched == UNCHANGED <<shelfDisk, shelfRows, shelfHome, shelfBin, shelfFiled, shelfGone, shelfSeen,
                         shelfRegime>>

LEMMA StandsStill == ASSUME Stands, Untouched, Charged PROVE Stands'
<1>1. shelfExcused' \in BOOLEAN /\ Counts(shelfLimits')
  BY Excuses DEF Stands, Charged
<1> QED
  BY <1>1 DEF Stands, Untouched, Shelf!ContentKept, Shelf!OnDisk, DiskTold, RowsTold, Tied

LEMMA Passes ==
  ASSUME Sized, Calm(shelfRegime), Sane, NEW a \in Shelf!Actors, NEW c, Moves(a, c), Untouched, Charged,
         Flow(c, shelfRegime, shelfDisk, shelfRows, shelfHome, shelfExcused', shelfGone,
              shelfLimits'.faults),
         Steady(c, shelfDisk, shelfRows, shelfExcused),
         BinFiled(c, shelfBin, shelfFiled, shelfLimits)
  PROVE  Sane'
<1>1. Stands'
  BY StandsStill DEF Sane
<1>2. Counts(shelfLimits) /\ shelfExcused \in BOOLEAN
  BY DEF Sane, Stands
<1>3. Steady(c, shelfDisk, shelfRows, shelfExcused') /\ BinFiled(c, shelfBin, shelfFiled, shelfLimits')
  BY <1>2, Excuses
<1>4. /\ shelfDisk' = shelfDisk /\ shelfRows' = shelfRows /\ shelfHome' = shelfHome
      /\ shelfBin' = shelfBin /\ shelfFiled' = shelfFiled /\ shelfGone' = shelfGone
      /\ shelfRegime' = shelfRegime
  BY DEF Untouched
<1> QED
  BY <1>1, <1>3, <1>4, Landing

LEMMA ScanKeeps == ASSUME NamesHold, Sized, Calm(shelfRegime), Sane, Shelf!Scan PROVE Sane'
<1>0. Counts(shelfLimits) /\ shelfExcused \in BOOLEAN /\ Stands
  BY DEF Sane, Stands
<1>1. CASE Shelf!ScanBegin
  <2> DEFINE todo == Shelf!Walk(shelfHome, Shelf!PathsOf(shelfRows))
             c == [Shelf!Idle EXCEPT !.at = "scanned", !.todo = todo, !.pending = shelfDisk]
  <2>1. Shelf!Begin("scan", c) /\ Cell(c) /\ c.at = "scanned" /\ c.todo = todo /\ c.pending = shelfDisk
    BY <1>1, IdleIs DEF Shelf!ScanBegin, Cell, Fields
  <2>2. \A p \in todo : p \in DOMAIN shelfDisk /\ ~Shelf!Hidden(p)
    BY DEF Shelf!Walk
  <2> HIDE DEF c, todo
  <2>3. Scanning(c, shelfDisk)
    BY <2>1, <2>2 DEF Scanning
  <2>4. Flow(c, shelfRegime, shelfDisk, shelfRows, shelfHome, shelfExcused', shelfGone,
             shelfLimits'.faults)
    BY <2>1, <2>3, FlowHere
  <2>5. /\ Steady(Shelf!Idle, shelfDisk, shelfRows, shelfExcused)
        /\ BinFiled(Shelf!Idle, shelfBin, shelfFiled, shelfLimits)
    BY <2>1, Before, Three DEF Shelf!Begin
  <2>6. Untouched /\ shelfExcused' = shelfExcused
    BY <1>1 DEF Shelf!ScanBegin, Untouched
  <2>7. Charged /\ Moves("scan", c)
    BY <1>0, <2>1, <2>6, Charges DEF Moves
  <2> QED
    BY <2>4, <2>5, <2>6, <2>7, Carefree, Passes, Three
<1>2. CASE Shelf!ScanWrite
  <2> DEFINE w == shelfActor["scan"]
             d == shelfDisk
  <2>1. /\ w.at = "scanned" /\ Shelf!Goto("scan", Shelf!Idle)
        /\ UNCHANGED <<shelfDisk, shelfHome, shelfBin, shelfFiled, shelfGone, shelfSeen, shelfExcused,
                       shelfRegime, shelfLimits>>
    BY <1>2 DEF Shelf!ScanWrite, Shelf!At
  <2>2. Under("scan")
    BY <2>1, Before, Three
  <2>3. \A p \in w.todo : p \in DOMAIN d /\ ~Shelf!Hidden(p) /\ w.pending[p] = d[p]
    BY <2>1, <2>2 DEF Under, Flow, Scanning
  <2>4. /\ DOMAIN shelfRows \subseteq DOMAIN shelfRows'
        /\ \A r \in DOMAIN shelfRows : shelfRows'[r] = shelfRows[r]
        /\ \A r \in DOMAIN shelfRows' \ DOMAIN shelfRows : \E p \in DOMAIN d :
             /\ shelfRows'[r] = [path |-> p, c |-> d[p], issue |-> Denotes[p[2]]]
             /\ ~Shelf!Hidden(p)
    BY <1>2, <2>3, ScanAdds
  <2>5. RowsTold(shelfRegime, shelfRows')
    <3>1. ASSUME NEW r \in DOMAIN shelfRows' \ DOMAIN shelfRows
          PROVE  RowTold(shelfRegime, r, shelfRows'[r])
      <4>1. PICK p \in DOMAIN d : /\ shelfRows'[r] = [path |-> p, c |-> d[p], issue |-> Denotes[p[2]]]
                                  /\ ~Shelf!Hidden(p)
        BY <2>4
      <4>2. FileTold(shelfRegime, p, d[p])
        BY <1>0 DEF Stands, DiskTold
      <4> QED
        BY <4>1, <4>2 DEF FileTold, RowTold
    <3>2. \A r \in DOMAIN shelfRows : RowTold(shelfRegime, r, shelfRows'[r])
      BY <1>0, <2>4 DEF Stands, RowsTold
    <3> QED
      BY <3>1, <3>2 DEF RowsTold
  <2>6. Tied(d, shelfRows')
    <3>1. \A r \in DOMAIN shelfRows' \ DOMAIN shelfRows : shelfRows'[r].path[2] \notin Shelf!Range(TempStem)
      BY <2>4 DEF Shelf!Hidden
    <3> QED
      BY <1>0, <2>4, <3>1 DEF Stands, Tied, Shelf!Hidden
  <2>7. Steady(Shelf!Idle, d, shelfRows, shelfExcused)
        /\ BinFiled(Shelf!Idle, shelfBin, shelfFiled, shelfLimits)
    BY <2>1, <2>2, Carefree DEF Under
  <2>8. Steady(Shelf!Idle, d, shelfRows', shelfExcused)
    <3>1. \A r \in DOMAIN shelfRows' \ DOMAIN shelfRows : shelfRows'[r].path \in DOMAIN d
      BY <2>4
    <3> QED
      BY <2>4, <2>7, <3>1, IdleIs DEF Steady, InFlight
  <2>9. Stands'
    BY <1>0, <2>1, <2>5, <2>6 DEF Stands, Shelf!ContentKept, Shelf!OnDisk, DiskTold, Counts
  <2>10. Moves("scan", Shelf!Idle)
    BY <2>1, IdleIs DEF Moves
  <2>11. Flow(Shelf!Idle, shelfRegime, shelfDisk', shelfRows', shelfHome', shelfExcused', shelfGone',
              shelfLimits'.faults)
    BY FlowHere, IdleIs
  <2> QED
    BY <2>1, <2>7, <2>8, <2>9, <2>10, <2>11, Landing, Three
<1> QED
  BY <1>1, <1>2 DEF Shelf!Scan

LEMMA Starts ==
  ASSUME Sized, Calm(shelfRegime), Sane, NEW a \in Shelf!Actors, NEW c, Cell(c), Shelf!Begin(a, c),
         Untouched, shelfExcused' = shelfExcused,
         Flow(c, shelfRegime, shelfDisk, shelfRows, shelfHome, shelfExcused, shelfGone,
              shelfLimits.faults)
  PROVE  Sane'
<1>1. Counts(shelfLimits) /\ shelfExcused \in BOOLEAN
  BY DEF Sane, Stands
<1>2. shelfLimits'.faults = shelfLimits.faults
  BY <1>1, Charges DEF Shelf!Begin
<1>3. Charged /\ Moves(a, c)
  BY <1>1, Charges DEF Moves
<1>4. Steady(c, shelfDisk, shelfRows, shelfExcused) /\ BinFiled(c, shelfBin, shelfFiled, shelfLimits)
  BY Before, Carefree DEF Shelf!Begin
<1> QED
  BY <1>2, <1>3, <1>4, Passes

\* A file that is imported, beside rows rs none of which is its issue's.
LEMMA ImportTells ==
  ASSUME NamesHold, Sized, Calm(shelfRegime), Stands, NEW p \in DOMAIN shelfDisk, NEW rs, Table(rs),
         ~Shelf!Hidden(p), RowsTold(shelfRegime, rs), Tied(shelfDisk, rs),
         \A r \in DOMAIN rs : rs[r].path \in DOMAIN shelfDisk,
         Shelf!Approved(rs, p)
  PROVE  LET x == Shelf!Executed(p, rs) IN
         /\ DiskTold(shelfRegime, x.disk) /\ Tied(x.disk, shelfRows)
         /\ RowsTold(shelfRegime, x.rows) /\ Tied(x.disk, x.rows)
         /\ \A r \in DOMAIN x.rows : x.rows[r].path \in DOMAIN x.disk
         /\ Shelf!Range(shelfDisk) \subseteq Shelf!Range(x.disk)
         /\ x.lost = {}
<1> DEFINE d == shelfDisk
           i == Denotes[p[2]]
           e == Shelf!Existing(rs, i)
           dest == Shelf!Path(shelfHome, Canon[i], p[3])
           space == Shelf!Without(d, {})
           placed == Shelf!Placed(space, p, dest)
           row == [path |-> dest, c |-> d[p], issue |-> i]
           id == Shelf!NewId(rs)
           x == Shelf!Executed(p, rs)
           moved == ~Shelf!Blocked(space, p, dest)
<1>1. /\ FileTold(shelfRegime, p, d[p]) /\ p[2] \in DOMAIN Denotes
      /\ Comic(shelfRegime, i, d[p]) /\ d[p] \in Contents
  BY DEF Stands, DiskTold, FileTold
<1>2. /\ Canon[i] \in DOMAIN Denotes /\ Denotes[Canon[i]] = i /\ ~Shelf!Hidden(dest)
      /\ Triple(dest) /\ dest[2] = Canon[i]
  BY <1>1, CanonReads DEF Sized, Shelf!Hidden, Shelf!Path, Triple
<1>3. \A r \in DOMAIN rs : rs[r].issue # i
  <2>1. e # 0 => e \in DOMAIN rs /\ rs[e].issue = i
    BY ExistingRow
  <2>2. e # 0 => rs[e].c = d[p]
    <3>1. e # 0 => rs[e].c \in Contents /\ Comic(shelfRegime, i, rs[e].c)
      BY <2>1 DEF RowsTold, RowTold
    <3> QED
      BY <1>1, <3>1, OneComic
  <2>3. e = 0
    BY <1>1, <2>2 DEF Shelf!Approved, NamesHold
  <2> QED
    BY <2>3, ExistingRow
<1>4. e = 0
  BY <1>3, ExistingRow
<1>5. DOMAIN space = DOMAIN d /\ \A q \in DOMAIN d : space[q] = d[q]
  <2>1. DOMAIN space = DOMAIN d
    BY WithoutDomain
  <2> QED
    BY <2>1, WithoutValue
<1>6. FileTold(shelfRegime, dest, d[p]) /\ RowTold(shelfRegime, id, row)
  BY <1>1, <1>2 DEF FileTold, RowTold
<1>7. \/ /\ ~moved /\ x.disk = space /\ x.lost = {} /\ x.rows = rs
      \/ /\ moved /\ x.disk = Shelf!Without(placed, {}) /\ x.lost = {}
         /\ \/ x.rows = rs
            \/ x.rows = Shelf!With(rs, id, row)
  <2> DEFINE old == IF e = 0 THEN {} ELSE {rs[e].path} \cap DOMAIN shelfDisk
             loser == old \ {p}
             kept == IF old # {} \/ (e # 0 /\ rs[e].path = dest) THEN Shelf!Without(rs, {e}) ELSE rs
  <2>1. loser = {} /\ kept = rs
    BY <1>4
  <2>2. loser \cap {dest} = {} /\ loser \ {dest} = {}
    BY <2>1
  <2>3. {d[y] : y \in loser} = {} /\ {d[y] : y \in loser \cap {dest}} = {}
    BY <2>1
  <2>4. x = IF Shelf!Blocked(Shelf!Without(d, loser \cap {dest}), p, dest)
            THEN [disk |-> Shelf!Without(d, loser \cap {dest}),
                  lost |-> {d[y] : y \in loser \cap {dest}}, rows |-> rs]
            ELSE [disk |-> Shelf!Without(Shelf!Placed(Shelf!Without(d, loser \cap {dest}), p, dest),
                                         loser \ {dest}),
                  lost |-> {d[y] : y \in loser},
                  rows |-> IF dest \in Shelf!PathsOf(kept) THEN rs
                           ELSE Shelf!With(kept, Shelf!NewId(kept), row)]
    BY DEF Shelf!Executed
  <2> HIDE DEF loser, kept, x, dest, row, id, space, placed, old
  <2>5. x = IF Shelf!Blocked(space, p, dest)
            THEN [disk |-> space, lost |-> {}, rows |-> rs]
            ELSE [disk |-> Shelf!Without(placed, {}), lost |-> {},
                  rows |-> IF dest \in Shelf!PathsOf(rs) THEN rs ELSE Shelf!With(rs, id, row)]
    BY <2>1, <2>2, <2>3, <2>4 DEF space, placed, id
  <2> QED
    BY <2>5
<1> HIDE DEF i, e, dest, row, id, space, x, moved
<1>8. row.path = dest /\ row.c = d[p] /\ row.issue = i /\ id \notin DOMAIN rs
  BY RowIds DEF row, id
<1>9. /\ \A q \in DOMAIN x.disk : x.disk[q] = IF q = dest /\ moved THEN d[p] ELSE d[q]
      /\ \A q \in DOMAIN x.disk : q \in DOMAIN d \/ (q = dest /\ moved)
      /\ \A q \in DOMAIN d : q \in DOMAIN x.disk \/ (q = p /\ moved)
      /\ moved => dest \in DOMAIN x.disk
  <2>1. CASE ~moved /\ x.disk = space
    BY <1>5, <2>1
  <2>2. CASE moved /\ x.disk = Shelf!Without(placed, {})
    <3>1. DOMAIN Shelf!Without(placed, {}) = DOMAIN placed
      BY WithoutDomain
    <3>2. \A q \in DOMAIN placed : Shelf!Without(placed, {})[q] = placed[q]
      BY WithoutValue
    <3>3. /\ DOMAIN Shelf!Moved(space, p, dest) = (DOMAIN d \ {p}) \cup {dest}
          /\ \A q \in (DOMAIN d \ {p}) \cup {dest} :
                Shelf!Moved(space, p, dest)[q] = IF q = dest THEN d[p] ELSE d[q]
      <4>1. DOMAIN Shelf!Moved(space, p, dest) = (DOMAIN d \ {p}) \cup {dest}
        BY <1>5, MovedDomain
      <4>2. \A q \in (DOMAIN d \ {p}) \cup {dest} :
                Shelf!Moved(space, p, dest)[q] = IF q = dest THEN space[p] ELSE space[q]
        BY <1>5, MovedValue
      <4> QED
        BY <1>5, <4>1, <4>2
    <3>4. /\ DOMAIN Shelf!With(space, dest, space[p]) = DOMAIN d \cup {dest}
          /\ \A q \in DOMAIN d \cup {dest} :
                Shelf!With(space, dest, space[p])[q] = IF q = dest THEN d[p] ELSE d[q]
      <4>1. DOMAIN Shelf!With(space, dest, space[p]) = DOMAIN space \cup {dest}
        BY WithDomain
      <4>2. \A q \in DOMAIN d \cup {dest} :
                Shelf!With(space, dest, space[p])[q] = IF q = dest THEN space[p] ELSE space[q]
        BY <1>5, WithValue
      <4> QED
        BY <1>5, <4>1, <4>2
    <3>5. \/ placed = Shelf!Moved(space, p, dest)
          \/ placed = Shelf!With(space, dest, space[p])
      BY DEF Shelf!Placed
    <3> HIDE DEF placed
    <3>6. /\ DOMAIN placed \in {(DOMAIN d \ {p}) \cup {dest}, DOMAIN d \cup {dest}}
          /\ \A q \in DOMAIN placed : placed[q] = IF q = dest THEN d[p] ELSE d[q]
      BY <3>3, <3>4, <3>5
    <3> QED
      BY <2>2, <3>1, <3>2, <3>6
  <2> QED
    BY <1>7, <2>1, <2>2
<1> HIDE DEF placed
<1>10. DiskTold(shelfRegime, x.disk)
  BY <1>6, <1>9 DEF Stands, DiskTold
<1>11. \A q \in DOMAIN x.disk : Shelf!Hidden(q) => q \in DOMAIN d /\ x.disk[q] = d[q]
  BY <1>2, <1>9
<1>12. Tied(x.disk, shelfRows) /\ Tied(x.disk, rs)
  BY <1>11 DEF Stands, Tied
<1>13. \A r \in DOMAIN x.rows : \/ r \in DOMAIN rs /\ x.rows[r] = rs[r]
                                \/ moved /\ r = id /\ x.rows[r] = row
  <2>1. DOMAIN Shelf!With(rs, id, row) = DOMAIN rs \cup {id}
    BY WithDomain
  <2>2. \A r \in DOMAIN rs \cup {id} : Shelf!With(rs, id, row)[r] = IF r = id THEN row ELSE rs[r]
    BY WithValue
  <2> QED
    BY <1>7, <2>1, <2>2
<1>14. RowsTold(shelfRegime, x.rows)
  BY <1>6, <1>13 DEF RowsTold
<1>15. Tied(x.disk, x.rows)
  BY <1>2, <1>8, <1>12, <1>13 DEF Tied, Shelf!Hidden
<1>16. ASSUME NEW r \in DOMAIN x.rows PROVE x.rows[r].path \in DOMAIN x.disk
  <2>1. CASE r \in DOMAIN rs /\ x.rows[r] = rs[r]
    <3>1. rs[r].path # p
      BY <1>3, <2>1 DEF RowsTold, RowTold, i
    <3> QED
      BY <1>9, <2>1, <3>1
  <2>2. CASE moved /\ r = id /\ x.rows[r] = row
    BY <1>8, <1>9, <2>2
  <2> QED
    BY <1>13, <2>1, <2>2
<1>17. ASSUME NEW q \in DOMAIN d PROVE \E y \in DOMAIN x.disk : x.disk[y] = d[q]
  <2>1. CASE q = p /\ moved
    BY <1>9, <2>1
  <2>2. CASE q = dest /\ moved
    <3>1. Comic(shelfRegime, i, d[q]) /\ d[q] \in Contents
      BY <1>2, <2>2 DEF Stands, DiskTold, FileTold
    <3> QED
      BY <1>1, <1>9, <2>2, <3>1, OneComic
  <2>3. CASE ~moved \/ (q # p /\ q # dest)
    BY <1>9, <2>3
  <2> QED
    BY <2>1, <2>2, <2>3
<1>18. Shelf!Range(d) \subseteq Shelf!Range(x.disk)
  BY <1>17 DEF Shelf!Range
<1> QED
  BY <1>7, <1>10, <1>12, <1>14, <1>15, <1>16, <1>18 DEF x

LEMMA RescanKeeps == ASSUME NamesHold, Sized, Calm(shelfRegime), Sane, Shelf!Rescan PROVE Sane'
<1> DEFINE w == shelfActor["pp"]
           rs == w.pending
<1>0. /\ Counts(shelfLimits) /\ shelfExcused \in BOOLEAN /\ Stands
      /\ Cell(w) /\ "pp" \in Shelf!Actors /\ Table(shelfRows)
      /\ shelfRegime \in FileRegimes
  BY Three DEF Sane, Stands, Sized, Shaped
<1>1. CASE Shelf!RescanBegin
  <2> DEFINE c == [Shelf!Idle EXCEPT !.at = "rescan", !.pending = shelfRows]
  <2>1. Shelf!Begin("pp", c) /\ Cell(c) /\ c.at = "rescan" /\ c.pending = shelfRows
    BY <1>1, IdleIs DEF Shelf!RescanBegin, Cell, Fields
  <2> HIDE DEF c
  <2>2. Untouched /\ shelfExcused' = shelfExcused /\ shelfHome # Shelf!NoHome
    BY <1>1 DEF Shelf!RescanBegin, Untouched
  <2>3. Rescanning(c, shelfRegime, shelfDisk, shelfRows, shelfHome)
    BY <2>1, <2>2 DEF Rescanning
  <2> QED
    BY <1>0, <2>1, <2>2, <2>3, FlowHere, Starts DEF Healings
<1>2. w.at \in Healings =>
        /\ Under("pp") /\ Rescanning(w, shelfRegime, shelfDisk, shelfRows, shelfHome)
        /\ BinFiled(Shelf!Idle, shelfBin, shelfFiled, shelfLimits)
        /\ w.at # "importing" => Steady(Shelf!Idle, shelfDisk, shelfRows, shelfExcused)
  <2>1. w.at \in Healings => Under("pp")
    BY <1>0, Before DEF Healings
  <2>2. w.at \in Healings => w.at \notin {"delete", "undo", "renamed"}
    BY DEF Healings
  <2> QED
    BY <2>1, <2>2, Carefree DEF Under, Flow
\* the steps that only look
<1>3. ASSUME NEW c, Cell(c), Shelf!Goto("pp", c), w.at \in Healings, c.at \in Healings, Untouched,
             Charged, Rescanning(c, shelfRegime, shelfDisk, shelfRows, shelfHome),
             w.at = "importing" => c.at = "importing"
      PROVE  Sane'
  <2>1. Flow(c, shelfRegime, shelfDisk, shelfRows, shelfHome, shelfExcused', shelfGone,
             shelfLimits'.faults)
    BY <1>3, FlowHere
  <2>2. Steady(c, shelfDisk, shelfRows, shelfExcused)
    <3>1. CASE c.at = "importing"
      BY <3>1 DEF Steady, InFlight
    <3>2. CASE w.at # "importing"
      BY <1>2, <1>3, <3>2, Carefree
    <3> QED
      BY <1>3, <3>1, <3>2
  <2>3. BinFiled(c, shelfBin, shelfFiled, shelfLimits)
    BY <1>2, <1>3, Carefree
  <2>4. Moves("pp", c)
    BY <1>3 DEF Moves, Healings
  <2> QED
    BY <1>0, <1>3, <2>1, <2>2, <2>3, <2>4, Passes
<1>4. CASE Shelf!RescanLook
  <2> DEFINE lost == {r \in DOMAIN rs : rs[r].path \notin DOMAIN shelfDisk}
             c == [w EXCEPT !.at = "walk", !.pending = <<>>, !.moved = lost]
  <2>1. Cell(c) /\ c.at = "walk" /\ c.moved = lost
    BY <1>0 DEF Cell, Fields
  <2>2. /\ w.at = "rescan" /\ w.at \in Healings /\ Shelf!Goto("pp", c) /\ Untouched
        /\ UNCHANGED <<shelfLimits, shelfExcused>>
    BY <1>4 DEF Shelf!RescanLook, Shelf!At, Healings, Untouched
  <2> HIDE DEF c
  <2>3. Rescanning(c, shelfRegime, shelfDisk, shelfRows, shelfHome)
    BY <1>2, <2>1, <2>2 DEF Rescanning
  <2> QED
    BY <1>0, <1>3, <2>1, <2>2, <2>3, Charges DEF Healings
<1>5. CASE Shelf!RescanWalk
  <2> DEFINE todo == IF shelfHome = Shelf!NoHome THEN {}
                     ELSE Shelf!Walk(shelfHome, Shelf!PathsOf(shelfRows))
             c == [w EXCEPT !.at = "walked", !.todo = todo]
  <2>1. Cell(c) /\ c.at = "walked" /\ c.moved = w.moved /\ c.todo = todo
    BY <1>0 DEF Cell, Fields
  <2>2. /\ w.at = "walk" /\ w.at \in Healings /\ Shelf!Goto("pp", c) /\ Untouched
        /\ UNCHANGED <<shelfLimits, shelfExcused>>
    BY <1>5 DEF Shelf!RescanWalk, Shelf!At, Healings, Untouched
  <2>3. \A p \in todo : ~Shelf!Hidden(p)
    BY DEF Shelf!Walk
  <2> HIDE DEF c, todo
  <2>4. Rescanning(c, shelfRegime, shelfDisk, shelfRows, shelfHome)
    BY <1>2, <2>1, <2>2, <2>3 DEF Rescanning
  <2> QED
    BY <1>0, <1>3, <2>1, <2>2, <2>4, Charges DEF Healings
<1>6. CASE Shelf!RescanPrune
  <2> DEFINE kept == Shelf!Without(shelfRows, w.moved)
             c == [w EXCEPT !.at = "importing", !.pending = kept]
  <2>1. Cell(c) /\ c.at = "importing" /\ c.todo = w.todo /\ c.pending = kept
    BY <1>0 DEF Cell, Fields
  <2>2. /\ w.at = "walked" /\ w.at \in Healings /\ Shelf!Goto("pp", c) /\ Untouched
        /\ UNCHANGED <<shelfLimits, shelfExcused>>
    BY <1>6 DEF Shelf!RescanPrune, Shelf!At, Healings, Untouched
  <2>3. DOMAIN kept = DOMAIN shelfRows \ w.moved
    BY WithoutDomain
  <2>4. \A r \in DOMAIN kept : kept[r] = shelfRows[r]
    BY <2>3, WithoutValue
  <2> HIDE DEF c, kept
  <2>5. RowsTold(shelfRegime, kept) /\ Tied(shelfDisk, kept)
    BY <1>0, <2>3, <2>4 DEF Stands, RowsTold, Tied
  <2>6. Rescanning(c, shelfRegime, shelfDisk, shelfRows, shelfHome)
    BY <1>2, <2>1, <2>2, <2>3, <2>4, <2>5 DEF Rescanning
  <2> QED
    BY <1>0, <1>3, <2>1, <2>2, <2>6, Charges DEF Healings
<1>7. ASSUME NEW p \in w.todo, Shelf!ImportOne(p) PROVE Sane'
  <2> DEFINE x == Shelf!Executed(p, rs)
             c(t) == [w EXCEPT !.todo = @ \ {p}, !.pending = t]
             able == shelfHome # Shelf!NoHome /\ p \in DOMAIN shelfDisk /\ Shelf!Approved(rs, p)
  <2>1. \A t : /\ Cell(c(t)) /\ c(t).at = w.at /\ c(t).todo = w.todo \ {p} /\ c(t).pending = t
    BY <1>0 DEF Cell, Fields
  <2>2. /\ w.at = "importing" /\ w.at \in Healings
        /\ UNCHANGED <<shelfRows, shelfHome, shelfSeen, shelfExcused, shelfRegime, shelfLimits>>
    BY <1>7 DEF Shelf!ImportOne, Shelf!At, Healings
  <2>3. Table(rs)
    BY <2>2 DEF Sized
  <2>4. CASE able
    <3>1. /\ shelfDisk' = x.disk /\ Shelf!Disposed(x.lost) /\ Shelf!Goto("pp", c(x.rows))
      BY <1>7, <2>4 DEF Shelf!ImportOne
    <3>2. /\ ~Shelf!Hidden(p) /\ RowsTold(shelfRegime, rs) /\ Tied(shelfDisk, rs)
          /\ \A r \in DOMAIN rs : rs[r].path \in DOMAIN shelfDisk
          /\ \A q \in w.todo : ~Shelf!Hidden(q)
      BY <1>2, <1>7, <2>2 DEF Rescanning
    <3>3. /\ DiskTold(shelfRegime, x.disk) /\ Tied(x.disk, shelfRows)
          /\ RowsTold(shelfRegime, x.rows) /\ Tied(x.disk, x.rows)
          /\ \A r \in DOMAIN x.rows : x.rows[r].path \in DOMAIN x.disk
          /\ Shelf!Range(shelfDisk) \subseteq Shelf!Range(x.disk)
          /\ x.lost = {}
      BY <1>0, <2>3, <2>4, <3>2, ImportTells
    <3> HIDE DEF x
    <3>4. UNCHANGED <<shelfBin, shelfFiled, shelfGone>>
      BY <3>1, <3>3 DEF Shelf!Disposed
    <3>5. Stands'
      BY <1>0, <2>2, <3>1, <3>3, <3>4 DEF Stands, Shelf!ContentKept, Shelf!OnDisk, RowsTold, Counts
    <3> DEFINE v == c(x.rows)
    <3>6. Cell(v) /\ v.at = "importing" /\ v.todo = w.todo \ {p} /\ v.pending = x.rows
      BY <2>1, <2>2
    <3> HIDE DEF v
    <3>7. Rescanning(v, shelfRegime, shelfDisk', shelfRows', shelfHome')
      BY <1>2, <2>2, <3>1, <3>2, <3>3, <3>6 DEF Rescanning
    <3>8. Flow(v, shelfRegime, shelfDisk', shelfRows', shelfHome', shelfExcused', shelfGone',
               shelfLimits'.faults)
      BY <3>6, <3>7, FlowHere DEF Healings
    <3>9. Steady(v, shelfDisk', shelfRows', shelfExcused')
      BY <3>6 DEF Steady, InFlight
    <3>10. BinFiled(v, shelfBin', shelfFiled', shelfLimits')
      BY <1>2, <2>2, <3>4, Carefree
    <3>11. Moves("pp", v)
      BY <2>2, <3>1, <3>6 DEF Moves, v
    <3> QED
      BY <1>0, <2>2, <3>5, <3>8, <3>9, <3>10, <3>11, Landing
  <2>5. CASE ~able
    <3>1. Shelf!Goto("pp", c(rs)) /\ Untouched /\ UNCHANGED <<shelfLimits, shelfExcused>>
      BY <1>7, <2>5 DEF Shelf!ImportOne, Untouched
    <3> DEFINE v == c(rs)
    <3>2. Cell(v) /\ v.at = "importing" /\ v.todo = w.todo \ {p} /\ v.pending = rs
      BY <2>1, <2>2
    <3> HIDE DEF v
    <3>3. Rescanning(v, shelfRegime, shelfDisk, shelfRows, shelfHome)
      BY <1>2, <2>2, <3>2 DEF Rescanning, Healings
    <3> QED
      BY <1>0, <1>3, <2>2, <3>1, <3>2, <3>3, Charges DEF Healings, v
  <2> QED
    BY <2>4, <2>5
<1>8. ASSUME NEW p \in w.todo, Shelf!ImportFails(p) PROVE Sane'
  <2> DEFINE c == [w EXCEPT !.todo = @ \ {p}, !.alone = FALSE]
  <2>1. /\ Shelf!Goto("pp", c) /\ Cell(c) /\ c.at = w.at /\ c.pending = rs /\ c.todo = w.todo \ {p}
        /\ w.at = "importing" /\ w.at \in Healings /\ Untouched /\ Shelf!Fault
    BY <1>0, <1>8 DEF Shelf!ImportFails, Shelf!At, Cell, Fields, Healings, Untouched
  <2> HIDE DEF c
  <2>2. Rescanning(c, shelfRegime, shelfDisk, shelfRows, shelfHome)
    BY <1>2, <2>1 DEF Rescanning, Healings
  <2> QED
    BY <1>0, <1>3, <2>1, <2>2, Charges
<1>9. CASE Shelf!RescanCommit \/ Shelf!RescanCommitFails
  <2>1. /\ Shelf!Goto("pp", Shelf!Idle) /\ w.at = "importing" /\ w.at \in Healings
        /\ UNCHANGED <<shelfDisk, shelfHome, shelfBin, shelfFiled, shelfGone, shelfSeen, shelfRegime>>
    BY <1>9 DEF Shelf!RescanCommit, Shelf!RescanCommitFails, Shelf!At, Healings
  <2>2. /\ RowsTold(shelfRegime, rs) /\ Tied(shelfDisk, rs) /\ shelfHome # Shelf!NoHome
        /\ \A r \in DOMAIN rs : rs[r].path \in DOMAIN shelfDisk
    BY <1>2, <2>1 DEF Rescanning
  <2>3. /\ shelfRows' \in {rs, shelfRows} /\ shelfExcused' \in BOOLEAN
        /\ ~shelfExcused' => shelfRows' = rs
        /\ Counts(shelfLimits') /\ shelfLimits'.crashes = shelfLimits.crashes
        /\ shelfLimits'.faults >= shelfLimits.faults
    <3>1. CASE Shelf!RescanCommit
      BY <1>0, <2>2, <3>1 DEF Shelf!RescanCommit, Counts
    <3>2. CASE Shelf!RescanCommitFails
      BY <1>0, <3>2 DEF Shelf!RescanCommitFails, Counts
    <3> QED
      BY <1>9, <3>1, <3>2
  <2>4. RowsTold(shelfRegime, shelfRows') /\ Tied(shelfDisk, shelfRows')
    BY <1>0, <2>2, <2>3 DEF Stands
  <2>5. Stands'
    BY <1>0, <2>1, <2>3, <2>4 DEF Stands, Shelf!ContentKept, Shelf!OnDisk, DiskTold
  <2>6. Steady(Shelf!Idle, shelfDisk', shelfRows', shelfExcused')
    BY <2>1, <2>2, <2>3 DEF Steady
  <2>7. BinFiled(Shelf!Idle, shelfBin', shelfFiled', shelfLimits')
    BY <1>0, <1>2, <2>1, <2>3 DEF BinFiled, Counts
  <2>8. Flow(Shelf!Idle, shelfRegime, shelfDisk', shelfRows', shelfHome', shelfExcused', shelfGone',
             shelfLimits'.faults)
    BY FlowHere, IdleIs
  <2>9. Moves("pp", Shelf!Idle)
    BY <2>1, IdleIs DEF Moves
  <2> QED
    BY <1>0, <2>1, <2>5, <2>6, <2>7, <2>8, <2>9, Landing
<1> QED
  BY <1>1, <1>4, <1>5, <1>6, <1>7, <1>8, <1>9 DEF Shelf!Rescan

\* A row's file is put at a name that tells the same.
PutAt(d, to, c, new) ==
  \A p \in DOMAIN new : p \in DOMAIN d \cup {to} /\ new[p] = IF p = to THEN c ELSE d[p]

LEMMA Puts ==
  ASSUME NEW reg, NEW d, NEW rs, NEW r \in DOMAIN rs, NEW to, NEW new, NamesHold, Table(rs),
         DiskTold(reg, d), RowsTold(reg, rs), Tied(d, rs), FileTold(reg, to, rs[r].c),
         Shelf!Hidden(to) => to[2] = TempStem[r],
         PutAt(d, to, rs[r].c, new)
  PROVE  DiskTold(reg, new) /\ Tied(new, rs)
<1>1. \A p \in DOMAIN new : (p = to /\ new[p] = rs[r].c) \/ (p \in DOMAIN d /\ new[p] = d[p])
  BY DEF PutAt
<1>2. DiskTold(reg, new)
  BY <1>1 DEF DiskTold
<1>3. ASSUME NEW s \in DOMAIN rs, Shelf!Hidden(to), to[2] = rs[s].path[2] PROVE s = r
  <2>1. rs[s].path[2] = TempStem[s]
    BY <1>3 DEF RowsTold, RowTold, Shelf!Hidden
  <2>2. TempStem[s] = TempStem[r]
    BY <1>3, <2>1
  <2>3. r \in Nat \ {0} /\ s \in Nat \ {0}
    BY DEF Table
  <2> QED
    BY <2>2, <2>3 DEF NamesHold
<1>4. Tied(new, rs)
  BY <1>1, <1>3 DEF Tied
<1> QED
  BY <1>2, <1>4

\* A row's file takes another name.
RowAt(rs, r, to) == [rs[r] EXCEPT !.path = to]
RowsAt(rs, r, to) == [rs EXCEPT ![r].path = to]

LEMMA Renames ==
  ASSUME NEW reg \in FileRegimes, NEW rs, NEW r \in DOMAIN rs, NEW to, NamesHold, Table(rs),
         RowsTold(reg, rs), Triple(to),
         to[2] = Canon[rs[r].issue] \/ to[2] = rs[r].path[2] \/ to[2] = TempStem[r]
  PROVE  /\ FileTold(reg, to, rs[r].c) /\ RowTold(reg, r, RowAt(rs, r, to))
         /\ Shelf!Hidden(to) => to[2] = TempStem[r]
<1>1. r \in Nat \ {0} /\ DOMAIN rs[r] = Columns /\ RowTold(reg, r, rs[r])
  BY DEF Table, RowsTold
<1>2. FileTold(reg, to, rs[r].c) /\ RowTold(reg, r, RowAt(rs, r, to))
  BY <1>1, RowsName DEF RowAt
<1>3. RowAt(rs, r, to).path = to
  BY <1>1 DEF Columns, RowAt
<1> QED
  BY <1>2, <1>3 DEF RowTold

\* The row follows.
SameThere(d, to, c) == \A p \in DOMAIN d : Shelf!Hidden(p) /\ p[2] = to[2] => d[p] = c

LEMMA Follows ==
  ASSUME NEW reg, NEW d, NEW rs, NEW r \in DOMAIN rs, NEW to, NEW new, Table(rs),
         RowsTold(reg, rs), Tied(d, rs), RowTold(reg, r, RowAt(rs, r, to)),
         new = RowsAt(rs, r, to),
         SameThere(d, to, rs[r].c)
  PROVE  /\ RowsTold(reg, new) /\ Tied(d, new) /\ DOMAIN new = DOMAIN rs
         /\ new[r].path = to /\ new[r].c = rs[r].c /\ new[r].issue = rs[r].issue
         /\ \A s \in DOMAIN rs \ {r} : new[s] = rs[s]
<1>1. DOMAIN rs[r] = Columns
  BY DEF Table
<1>2. DOMAIN new = DOMAIN rs /\ \A s \in DOMAIN rs \ {r} : new[s] = rs[s]
  BY DEF RowsAt
<1>3. new[r] = RowAt(rs, r, to)
  BY DEF RowsAt, RowAt
<1>4. new[r].path = to /\ new[r].c = rs[r].c /\ new[r].issue = rs[r].issue
  BY <1>1, <1>3 DEF Columns, RowAt
<1>5. RowsTold(reg, new)
  BY <1>2, <1>3 DEF RowsTold
<1>6. Tied(d, new)
  BY <1>2, <1>4 DEF Tied, SameThere
<1> QED
  BY <1>2, <1>4, <1>5, <1>6

\* Nothing is lost where the name was free, or held the same.
LEMMA RangeKept ==
  ASSUME NEW d, NEW new,
         \A p \in DOMAIN d : \E q \in DOMAIN new : new[q] = d[p]
  PROVE  Shelf!Range(d) \subseteq Shelf!Range(new)
  BY DEF Shelf!Range

\* The steps of the worker's flow that is where it was, or has ended.
LEMMA Goings ==
  ASSUME Sized, Calm(shelfRegime), Sane, NEW a \in Shelf!Actors, shelfActor[a].at # "idle"
  PROVE  /\ Under(a) /\ Cell(shelfActor[a]) /\ Stands
         /\ Counts(shelfLimits) /\ shelfExcused \in BOOLEAN
         /\ DiskTold(shelfRegime, shelfDisk) /\ RowsTold(shelfRegime, shelfRows)
         /\ Tied(shelfDisk, shelfRows) /\ Table(shelfRows) /\ shelfRegime \in FileRegimes
         /\ Steady(shelfActor[a], shelfDisk, shelfRows, shelfExcused)
         /\ BinFiled(shelfActor[a], shelfBin, shelfFiled, shelfLimits)
  BY Before DEF Sane, Stands, Sized, Shaped, Under

\* A step that changes at most the files, the rows and whether they are excused.
LEMMA StandsOn ==
  ASSUME Stands, Charged, UNCHANGED <<shelfHome, shelfBin, shelfFiled, shelfGone, shelfSeen, shelfRegime>>,
         DiskTold(shelfRegime, shelfDisk'), RowsTold(shelfRegime, shelfRows'),
         Tied(shelfDisk', shelfRows'), Shelf!Range(shelfDisk) \subseteq Shelf!Range(shelfDisk')
  PROVE  Stands'
<1>1. shelfExcused' \in BOOLEAN /\ Counts(shelfLimits')
  BY Excuses DEF Stands, Charged
<1> QED
  BY <1>1 DEF Stands, Shelf!ContentKept, Shelf!OnDisk

\* A step of a flow that has no file between the library and the bin.
LEMMA Onward ==
  ASSUME Sized, Calm(shelfRegime), Sane, NEW a \in Shelf!Actors, NEW c, Cell(c), Shelf!Goto(a, c),
         shelfActor[a].at \notin {"idle", "delete", "undo"},
         UNCHANGED <<shelfHome, shelfBin, shelfFiled, shelfGone, shelfSeen, shelfRegime>>,
         Charged, DiskTold(shelfRegime, shelfDisk'), RowsTold(shelfRegime, shelfRows'),
         Tied(shelfDisk', shelfRows'), Shelf!Range(shelfDisk) \subseteq Shelf!Range(shelfDisk'),
         Flow(c, shelfRegime, shelfDisk', shelfRows', shelfHome, shelfExcused', shelfGone,
              shelfLimits'.faults),
         Steady(c, shelfDisk', shelfRows', shelfExcused')
  PROVE  Sane'
<1>1. /\ Stands /\ BinFiled(shelfActor[a], shelfBin, shelfFiled, shelfLimits)
      /\ Counts(shelfLimits) /\ shelfExcused \in BOOLEAN
  BY Goings
<1>2. Stands'
  BY <1>1, StandsOn
<1>3. BinFiled(c, shelfBin', shelfFiled', shelfLimits')
  <2>1. BinFiled(c, shelfBin, shelfFiled, shelfLimits)
    BY <1>1, Carefree
  <2> QED
    BY <1>1, <2>1, Excuses
<1>4. Moves(a, c)
  BY DEF Moves
<1> QED
  BY <1>2, <1>3, <1>4, Landing

LEMMA RenameKeeps ==
  ASSUME NamesHold, Sized, Calm(shelfRegime), Sane, Clear, Shelf!Rename PROVE Sane'
<1> DEFINE w == shelfActor["pp"]
           d == shelfDisk
           rs == shelfRows
<1>0. "pp" \in Shelf!Actors /\ Counts(shelfLimits) /\ shelfExcused \in BOOLEAN
  BY Three DEF Sane, Stands
<1>1. CASE Shelf!RenameBegin
  <2> DEFINE todo == {[row |-> r, from |-> rs[r].path, to |-> Shelf!Staging(r), final |-> Shelf!Target(rs[r])] :
                         r \in Shelf!Changed \ Shelf!Colliding}
             c == [Shelf!Idle EXCEPT !.at = "rename", !.todo = todo]
  <2>1. Shelf!Begin("pp", c) /\ Cell(c) /\ c.at = "rename" /\ c.todo = todo /\ c.moved = {}
    BY <1>1, IdleIs DEF Shelf!RenameBegin, Cell, Fields
  <2>2. Untouched /\ shelfExcused' = shelfExcused
    BY <1>1 DEF Shelf!RenameBegin, Untouched
  <2>3. ASSUME NEW m \in todo PROVE Move(m, rs)
    <3>1. PICK r \in Shelf!Changed : m = [row |-> r, from |-> rs[r].path, to |-> Shelf!Staging(r),
                                          final |-> Shelf!Target(rs[r])]
      OBVIOUS
    <3>2. r \in DOMAIN rs
      BY DEF Shelf!Changed
    <3> QED
      BY <3>1, <3>2 DEF Move, Shelf!Staging, Shelf!Target, Shelf!Path, Triple
  <2>4. OnePerRow(todo)
    BY DEF OnePerRow
  <2> HIDE DEF c, todo
  <2>5. Renaming(c, d, rs, shelfExcused)
    BY <2>1, <2>3, <2>4 DEF Renaming
  <2> QED
    BY <1>0, <2>1, <2>2, <2>5, FlowHere, Starts
<1>2. w.at \in {"rename", "renamed"} => Renaming(w, d, rs, shelfExcused)
  BY <1>0, Goings DEF Under, Flow
\* between the moves the rows are steady, and nothing but files and rows has changed
<1>3. ASSUME NEW c, Cell(c), Shelf!Goto("pp", c), w.at \in {"rename", "renamed"},
             c.at \in {"rename", "renamed", "idle"},
             UNCHANGED <<shelfHome, shelfBin, shelfFiled, shelfGone, shelfSeen, shelfRegime>>,
             Charged, DiskTold(shelfRegime, shelfDisk'), RowsTold(shelfRegime, shelfRows'),
             Tied(shelfDisk', shelfRows'), Shelf!Range(shelfDisk) \subseteq Shelf!Range(shelfDisk'),
             c.at = "idle" \/ Renaming(c, shelfDisk', shelfRows', shelfExcused'),
             Steady(c, shelfDisk', shelfRows', shelfExcused')
      PROVE  Sane'
  <2>1. Flow(c, shelfRegime, shelfDisk', shelfRows', shelfHome, shelfExcused', shelfGone,
             shelfLimits'.faults)
    BY <1>3, FlowHere
  <2> QED
    BY <1>0, <1>3, <2>1, Onward
<1>4. CASE Shelf!RenamePromote
  <2>1. /\ w.at = "rename" /\ Untouched /\ w.todo = {} /\ UNCHANGED <<shelfLimits, shelfExcused>>
        /\ \/ Shelf!Goto("pp", Shelf!Idle)
           \/ Shelf!Goto("pp", [w EXCEPT !.todo = w.moved, !.moved = {}])
    BY <1>4 DEF Shelf!RenamePromote, Shelf!At, Untouched
  <2>2. /\ Renaming(w, d, rs, shelfExcused) /\ Cell(w) /\ Stands
        /\ Steady(Shelf!Idle, d, rs, shelfExcused) /\ BinFiled(Shelf!Idle, shelfBin, shelfFiled, shelfLimits)
    BY <1>0, <1>2, <2>1, Goings, Carefree
  <2>3. PICK c : /\ Shelf!Goto("pp", c) /\ Cell(c)
                 /\ c.at = "idle" \/ (c.at = "rename" /\ c.todo = w.moved /\ c.moved = {})
    <3> DEFINE e == [w EXCEPT !.todo = w.moved, !.moved = {}]
    <3>1. Cell(e) /\ e.at = "rename" /\ e.todo = w.moved /\ e.moved = {}
      BY <2>1, <2>2 DEF Cell, Fields
    <3> HIDE DEF e
    <3>2. Shelf!Goto("pp", Shelf!Idle) \/ Shelf!Goto("pp", e)
      BY <2>1 DEF e
    <3> QED
      BY <3>1, <3>2, IdleIs
  <2>4. c.at = "rename" => Renaming(c, d, rs, shelfExcused)
    BY <2>1, <2>2, <2>3 DEF Renaming, OnePerRow
  <2>5. Flow(c, shelfRegime, d, rs, shelfHome, shelfExcused', shelfGone, shelfLimits'.faults)
    BY <2>1, <2>3, <2>4, FlowHere
  <2>6. Charged /\ Moves("pp", c)
    BY <1>0, <2>1, <2>3, Charges DEF Moves
  <2> QED
    BY <1>0, <2>1, <2>2, <2>5, <2>6, Carefree, Passes
<1>5. ASSUME NEW m \in w.todo, Shelf!RenameMove(m) PROVE Sane'
  <2> DEFINE t == [w EXCEPT !.todo = @ \ {m}]
             v == [t EXCEPT !.at = "renamed", !.cur = {m}]
             r == m.row
             new == Shelf!Moved(d, m.from, m.to)
  <2>1. /\ w.at = "rename" /\ m \in w.todo
        /\ UNCHANGED <<shelfRows, shelfHome, shelfBin, shelfFiled, shelfGone, shelfSeen, shelfExcused,
                       shelfRegime, shelfLimits>>
        /\ IF m.from \in DOMAIN d THEN shelfDisk' = new /\ Shelf!Goto("pp", v)
           ELSE shelfDisk' = d /\ Shelf!Goto("pp", t)
    BY <1>5 DEF Shelf!RenameMove, Shelf!At
  <2>2. /\ Renaming(w, d, rs, shelfExcused) /\ Cell(w) /\ Stands /\ Table(rs)
        /\ Steady(Shelf!Idle, d, rs, shelfExcused) /\ shelfRegime \in FileRegimes
        /\ DiskTold(shelfRegime, d) /\ RowsTold(shelfRegime, rs) /\ Tied(d, rs)
    BY <1>0, <1>2, <2>1, Goings, Carefree
  <2>3. /\ Cell(t) /\ t.at = "rename" /\ t.todo = w.todo \ {m} /\ t.moved = w.moved
        /\ Cell(v) /\ v.at = "renamed" /\ v.todo = w.todo \ {m} /\ v.moved = w.moved /\ v.cur = {m}
    BY <2>1, <2>2 DEF Cell, Fields
  <2> HIDE DEF t, v, new
  <2>4. /\ Move(m, rs) /\ OnePerRow(w.todo \cup w.moved) /\ w.todo \cap w.moved = {}
        /\ \A n \in w.moved : n.to = n.final
        /\ \A n \in w.todo \cup w.moved : Move(n, rs)
    BY <2>1, <2>2 DEF Renaming
  <2>5. Charged
    BY <1>0, <2>1, Charges
  <2>6. CASE m.from \notin DOMAIN d
    <3>1. Renaming(t, d, rs, shelfExcused)
      BY <2>3, <2>4 DEF Renaming, OnePerRow
    <3>2. Steady(t, d, rs, shelfExcused)
      BY <2>2, Carefree
    <3> QED
      BY <1>3, <2>1, <2>2, <2>3, <2>5, <2>6, <3>1, <3>2
  <2>7. CASE m.from \in DOMAIN d
    <3>1. /\ r \in DOMAIN rs /\ m.from = rs[r].path /\ Triple(m.to)
          /\ m.to[2] = Canon[rs[r].issue] \/ m.to[2] = TempStem[r]
      BY <2>4 DEF Move
    <3>2. d[m.from] = rs[r].c
      BY <2>2, <2>7, <3>1, RowsFile DEF RowsTold
    <3>3. FileTold(shelfRegime, m.to, rs[r].c) /\ (Shelf!Hidden(m.to) => m.to[2] = TempStem[r])
      BY <2>2, <3>1, Renames
    <3>4. DOMAIN new = (DOMAIN d \ {m.from}) \cup {m.to}
      BY MovedDomain DEF new
    <3>5. \A p \in DOMAIN new : new[p] = IF p = m.to THEN rs[r].c ELSE d[p]
      BY <3>2, <3>4, MovedValue DEF new
    <3>6. /\ m.to \in DOMAIN d => m.to = m.from
          /\ \A p \in DOMAIN d : Shelf!Hidden(m.to) /\ p[2] = m.to[2] => p = m.from
      BY <2>1, <2>7 DEF Clear
    <3>7. DiskTold(shelfRegime, new) /\ Tied(new, rs)
      <4>1. PutAt(d, m.to, rs[r].c, new)
        BY <3>4, <3>5 DEF PutAt
      <4> QED
        BY <2>2, <3>1, <3>3, <4>1, Puts
    <3>8. \A p \in DOMAIN d : \E q \in DOMAIN new : new[q] = d[p]
      BY <3>2, <3>4, <3>5, <3>6
    <3>9. Shelf!Range(d) \subseteq Shelf!Range(new)
      BY <3>8, RangeKept
    <3>10. ~shelfExcused => \A s \in DOMAIN rs \ {r} : /\ rs[s].path \in DOMAIN d
                                                       /\ rs[s].path # m.from /\ rs[s].path # m.to
      <4>1. ~shelfExcused => \A s \in DOMAIN rs : rs[s].path \in DOMAIN d
        BY <2>2, IdleIs DEF Steady, InFlight
      <4>2. \A s \in DOMAIN rs \ {r} : rs[s].path # m.from
        BY <2>2, <3>1 DEF Table
      <4> QED
        BY <3>6, <4>1, <4>2
    <3>11. MovedTo(m, new, rs, shelfExcused)
      BY <3>1, <3>4, <3>5, <3>6, <3>10 DEF MovedTo
    <3>12. \A n \in (w.todo \ {m}) \cup w.moved : n.row # r
      <4>1. \A n \in w.todo \cup w.moved : n.row = r => n = m
        BY <2>1, <2>4 DEF OnePerRow
      <4> QED
        BY <2>1, <2>4, <4>1 DEF OnePerRow
    <3>13. Renaming(v, new, rs, shelfExcused)
      BY <2>3, <2>4, <3>11, <3>12 DEF Renaming, OnePerRow
    <3>14. Steady(v, new, rs, shelfExcused)
      BY <2>3, <3>4, <3>10 DEF Steady, InFlight
    <3> QED
      BY <1>3, <2>1, <2>2, <2>3, <2>5, <2>7, <3>7, <3>9, <3>13, <3>14
  <2> QED
    BY <2>6, <2>7
<1>6. ASSUME NEW m \in w.cur, Shelf!RenameCommit(m) PROVE Sane'
  <2> DEFINE r == m.row
             more == IF m.to = m.final THEN {}
                     ELSE {[row |-> r, from |-> m.to, to |-> m.final, final |-> m.final]}
             c == [w EXCEPT !.at = "rename", !.cur = {}, !.moved = @ \cup more]
             new == shelfRows'
  <2>1. /\ w.at = "renamed" /\ m.to \notin Shelf!PathsOf(Shelf!Without(rs, {r}))
        /\ UNCHANGED <<shelfDisk, shelfHome, shelfBin, shelfFiled, shelfGone, shelfSeen, shelfExcused,
                       shelfRegime, shelfLimits>>
        /\ new = IF r \in DOMAIN rs THEN [rs EXCEPT ![r].path = m.to] ELSE rs
        /\ Shelf!Goto("pp", c)
    BY <1>6 DEF Shelf!RenameCommit, Shelf!At
  <2>2. /\ Renaming(w, d, rs, shelfExcused) /\ Cell(w) /\ Table(rs)
        /\ Steady(w, d, rs, shelfExcused) /\ shelfRegime \in FileRegimes
        /\ DiskTold(shelfRegime, d) /\ RowsTold(shelfRegime, rs) /\ Tied(d, rs)
    BY <1>0, <1>2, <2>1, Goings
  <2>3. Cell(c) /\ c.at = "rename" /\ c.todo = w.todo /\ c.moved = w.moved \cup more
    BY <2>1, <2>2 DEF Cell, Fields
  <2> HIDE DEF c, new, more
  <2>4. /\ w.cur = {m} /\ Move(m, rs) /\ MovedTo(m, d, rs, shelfExcused)
        /\ OnePerRow(w.todo \cup w.moved) /\ w.todo \cap w.moved = {}
        /\ \A n \in w.moved : n.to = n.final
        /\ \A n \in w.todo \cup w.moved : Move(n, rs) /\ n.row # r
    BY <1>6, <2>1, <2>2 DEF Renaming
  <2>5. /\ r \in DOMAIN rs /\ Triple(m.to) /\ Triple(m.final) /\ m.final[2] = Canon[rs[r].issue]
        /\ m.to[2] = Canon[rs[r].issue] \/ m.to[2] = TempStem[r]
    BY <2>4 DEF Move
  <2>6. /\ FileTold(shelfRegime, m.to, rs[r].c) /\ RowTold(shelfRegime, r, RowAt(rs, r, m.to))
        /\ (Shelf!Hidden(m.to) => m.to[2] = TempStem[r])
    BY <2>2, <2>5, Renames
  <2>7. SameThere(d, m.to, rs[r].c)
    BY <2>4 DEF MovedTo, SameThere, Shelf!Hidden
  <2>8. /\ RowsTold(shelfRegime, new) /\ Tied(d, new) /\ DOMAIN new = DOMAIN rs
        /\ new[r].path = m.to /\ new[r].c = rs[r].c /\ new[r].issue = rs[r].issue
        /\ \A s \in DOMAIN rs \ {r} : new[s] = rs[s]
    <3>1. new = RowsAt(rs, r, m.to)
      BY <2>1, <2>5 DEF RowsAt
    <3> QED
      BY <2>2, <2>5, <2>6, <2>7, <3>1, Follows
  <2>9. \A n \in w.todo \cup w.moved : Move(n, new)
    BY <2>4, <2>8 DEF Move
  <2>10. \A n \in more : n.row = r /\ n.to = n.final /\ Move(n, new)
    BY <2>5, <2>8 DEF more, Move
  <2>11. OnePerRow(w.todo \cup w.moved \cup more)
    <3>1. \A n1, n2 \in more : n1 = n2
      BY DEF more
    <3> QED
      BY <2>4, <2>10, <3>1 DEF OnePerRow
  <2>12. Renaming(c, d, new, shelfExcused)
    BY <2>3, <2>4, <2>9, <2>10, <2>11 DEF Renaming, OnePerRow
  <2>13. Steady(c, d, new, shelfExcused)
    <3>1. m.to \in DOMAIN d
      BY <2>4 DEF MovedTo
    <3>2. ~shelfExcused => \A s \in DOMAIN rs \ {r} : rs[s].path \in DOMAIN d
      BY <2>1, <2>2, <2>4 DEF Steady, InFlight
    <3> QED
      BY <2>8, <3>1, <3>2 DEF Steady
  <2>14. Charged
    BY <1>0, <2>1, Charges
  <2> QED
    BY <1>3, <2>1, <2>2, <2>3, <2>8, <2>12, <2>13, <2>14 DEF new
<1>7. ASSUME NEW m \in w.cur, Shelf!RenameUndo(m) PROVE Sane'
  <2> DEFINE r == m.row
             c == [w EXCEPT !.at = "rename", !.cur = {}]
             new == Shelf!Moved(d, m.to, m.from)
             others == Shelf!PathsOf(Shelf!Without(rs, {r}))
  <2>1. /\ w.at = "renamed"
        /\ UNCHANGED <<shelfRows, shelfHome, shelfBin, shelfFiled, shelfGone, shelfSeen, shelfRegime>>
        /\ IF m.to \in others THEN Shelf!NoFault ELSE Shelf!Fault
        /\ shelfDisk' = IF m.to \in DOMAIN d THEN new ELSE d
        /\ Shelf!Goto("pp", c)
    BY <1>7 DEF Shelf!RenameUndo, Shelf!At
  <2>2. /\ Renaming(w, d, rs, shelfExcused) /\ Cell(w) /\ Table(rs)
        /\ Steady(w, d, rs, shelfExcused) /\ shelfRegime \in FileRegimes
        /\ DiskTold(shelfRegime, d) /\ RowsTold(shelfRegime, rs) /\ Tied(d, rs)
    BY <1>0, <1>2, <2>1, Goings
  <2>3. Cell(c) /\ c.at = "rename" /\ c.todo = w.todo /\ c.moved = w.moved
    BY <2>1, <2>2 DEF Cell, Fields
  <2> HIDE DEF c, new
  <2>4. /\ w.cur = {m} /\ Move(m, rs) /\ MovedTo(m, d, rs, shelfExcused)
        /\ OnePerRow(w.todo \cup w.moved) /\ w.todo \cap w.moved = {}
        /\ \A n \in w.moved : n.to = n.final
        /\ \A n \in w.todo \cup w.moved : Move(n, rs)
    BY <1>7, <2>1, <2>2 DEF Renaming
  <2>5. /\ r \in DOMAIN rs /\ m.from = rs[r].path /\ m.to \in DOMAIN d /\ d[m.to] = rs[r].c
        /\ m.from \in DOMAIN d => m.from = m.to
        /\ ~shelfExcused => \A s \in DOMAIN rs \ {r} : rs[s].path # m.to
    BY <2>4 DEF Move, MovedTo
  <2>6. Triple(m.from)
    BY <2>2, <2>5 DEF RowsTold, RowTold
  <2>7. FileTold(shelfRegime, m.from, rs[r].c) /\ (Shelf!Hidden(m.from) => m.from[2] = TempStem[r])
    BY <2>2, <2>5, <2>6, Renames
  <2>8. DOMAIN new = (DOMAIN d \ {m.to}) \cup {m.from} /\ shelfDisk' = new
    BY <2>1, <2>5, MovedDomain DEF new
  <2>9. \A p \in DOMAIN new : new[p] = IF p = m.from THEN rs[r].c ELSE d[p]
    BY <2>5, <2>8, MovedValue DEF new
  <2>10. DiskTold(shelfRegime, new) /\ Tied(new, rs)
    <3>1. PutAt(d, m.from, rs[r].c, new)
      BY <2>8, <2>9 DEF PutAt
    <3> QED
      BY <2>2, <2>5, <2>7, <3>1, Puts
  <2>11. \A p \in DOMAIN d : \E q \in DOMAIN new : new[q] = d[p]
    BY <2>5, <2>8, <2>9
  <2>12. Shelf!Range(d) \subseteq Shelf!Range(new)
    BY <2>11, RangeKept
  <2>13. Charged /\ (~shelfExcused' => ~shelfExcused)
    <3>1. Charged
      BY <1>0, <2>1, Charges
    <3> QED
      BY <1>0, <3>1, Excuses
  <2>14. Renaming(c, new, rs, shelfExcused')
    BY <2>3, <2>4 DEF Renaming
  <2>15. Steady(c, new, rs, shelfExcused')
    <3>1. ~shelfExcused => \A s \in DOMAIN rs \ {r} : rs[s].path \in DOMAIN d
      BY <2>1, <2>2, <2>4 DEF Steady, InFlight
    <3>2. ~shelfExcused => \A s \in DOMAIN rs : rs[s].path \in DOMAIN new
      BY <2>5, <2>8, <3>1
    <3> QED
      BY <2>13, <3>2 DEF Steady
  <2> QED
    BY <1>3, <2>1, <2>2, <2>3, <2>8, <2>10, <2>12, <2>13, <2>14, <2>15
<1> QED
  BY <1>1, <1>4, <1>5, <1>6, <1>7 DEF Shelf!Rename

LEMMA ConvertKeeps == ASSUME NamesHold, Sized, Calm(shelfRegime), Sane, Shelf!Convert PROVE Sane'
<1> DEFINE w == shelfActor["pp"]
           d == shelfDisk
           rs == shelfRows
           Stages == {"convert", "promoted", "converted"}
<1>0. "pp" \in Shelf!Actors /\ Counts(shelfLimits) /\ shelfExcused \in BOOLEAN
  BY Three DEF Sane, Stands
<1>1. CASE Shelf!ConvertBegin
  <2> DEFINE todo == {[row |-> r, from |-> rs[r].path] : r \in DOMAIN rs}
             c == [Shelf!Idle EXCEPT !.at = "convert", !.todo = todo]
  <2>1. Shelf!Begin("pp", c) /\ Cell(c) /\ c.at = "convert" /\ c.todo = todo
    BY <1>1, IdleIs DEF Shelf!ConvertBegin, Cell, Fields
  <2>2. Untouched /\ shelfExcused' = shelfExcused
    BY <1>1 DEF Shelf!ConvertBegin, Untouched
  <2>3. OnePerRow(todo) /\ \A m \in todo : m.row \in DOMAIN rs /\ m.from = rs[m.row].path
    BY DEF OnePerRow
  <2> HIDE DEF c, todo
  <2>4. Converting(c, d, rs)
    BY <2>1, <2>3 DEF Converting
  <2> QED
    BY <1>0, <2>1, <2>2, <2>4, FlowHere, Starts
<1>2. w.at \in Stages =>
        /\ Converting(w, d, rs) /\ Steady(Shelf!Idle, d, rs, shelfExcused)
        /\ Cell(w) /\ Table(rs) /\ shelfRegime \in FileRegimes
        /\ DiskTold(shelfRegime, d) /\ RowsTold(shelfRegime, rs) /\ Tied(d, rs)
        /\ Shelf!Range(d) \subseteq Shelf!Range(d)
  BY <1>0, Goings, Carefree DEF Under, Flow
<1>3. ASSUME NEW c, Cell(c), Shelf!Goto("pp", c), w.at \in Stages, c.at \in Stages \cup {"idle"},
             UNCHANGED <<shelfHome, shelfBin, shelfFiled, shelfGone, shelfSeen, shelfRegime>>,
             Charged, DiskTold(shelfRegime, shelfDisk'), RowsTold(shelfRegime, shelfRows'),
             Tied(shelfDisk', shelfRows'), Shelf!Range(shelfDisk) \subseteq Shelf!Range(shelfDisk'),
             c.at = "idle" \/ Converting(c, shelfDisk', shelfRows'),
             Steady(Shelf!Idle, shelfDisk', shelfRows', shelfExcused')
      PROVE  Sane'
  <2>1. Flow(c, shelfRegime, shelfDisk', shelfRows', shelfHome, shelfExcused', shelfGone,
             shelfLimits'.faults)
    BY <1>3, FlowHere
  <2>2. Steady(c, shelfDisk', shelfRows', shelfExcused')
    BY <1>3, Carefree
  <2> QED
    BY <1>0, <1>3, <2>1, <2>2, Onward
<1>4. CASE Shelf!ConvertEnd
  <2>1. /\ w.at = "convert" /\ Shelf!Goto("pp", Shelf!Idle)
        /\ UNCHANGED <<shelfDisk, shelfRows, shelfHome, shelfBin, shelfFiled, shelfGone, shelfSeen,
                       shelfExcused, shelfRegime, shelfLimits>>
    BY <1>4 DEF Shelf!ConvertEnd, Shelf!At
  <2> QED
    BY <1>0, <1>2, <1>3, <2>1, IdleIs, Charges
<1>5. ASSUME NEW m, Shelf!ConvertCommitFails(m) PROVE Sane'
  <2>1. /\ w.at = "promoted" /\ Shelf!Goto("pp", Shelf!Idle)
        /\ UNCHANGED <<shelfDisk, shelfRows, shelfHome, shelfBin, shelfFiled, shelfGone, shelfSeen,
                       shelfRegime>>
        /\ Shelf!NoFault \/ Shelf!Fault
    BY <1>5 DEF Shelf!ConvertCommitFails, Shelf!At
  <2>2. Charged
    BY <1>0, <2>1, Charges
  <2>3. Steady(Shelf!Idle, d, rs, shelfExcused')
    BY <1>0, <1>2, <2>1, <2>2, Excuses
  <2> QED
    BY <1>0, <1>2, <1>3, <2>1, <2>2, <2>3, IdleIs
<1>6. ASSUME NEW m \in w.todo, Shelf!ConvertOne(m) PROVE Sane'
  <2> DEFINE t == [w EXCEPT !.todo = @ \ {m}]
             v == [t EXCEPT !.at = "promoted", !.cur = {m}]
             r == m.row
             cbz == Shelf!Cbz(m.from)
             new == Shelf!With(d, cbz, d[m.from])
  <2>1. /\ w.at = "convert"
        /\ UNCHANGED <<shelfRows, shelfHome, shelfBin, shelfFiled, shelfGone, shelfSeen, shelfExcused,
                       shelfRegime, shelfLimits>>
        /\ IF Shelf!Convertible(m.from)
           THEN shelfDisk' = (IF cbz \in DOMAIN d THEN d ELSE new) /\ Shelf!Goto("pp", v)
           ELSE shelfDisk' = d /\ Shelf!Goto("pp", t)
    BY <1>6 DEF Shelf!ConvertOne, Shelf!At
  <2>2. /\ Converting(w, d, rs) /\ Steady(Shelf!Idle, d, rs, shelfExcused)
        /\ Cell(w) /\ Table(rs) /\ shelfRegime \in FileRegimes
        /\ DiskTold(shelfRegime, d) /\ RowsTold(shelfRegime, rs) /\ Tied(d, rs)
        /\ Shelf!Range(d) \subseteq Shelf!Range(d)
    BY <1>2, <2>1
  <2>3. /\ Cell(t) /\ t.at = "convert" /\ t.todo = w.todo \ {m}
        /\ Cell(v) /\ v.at = "promoted" /\ v.todo = w.todo \ {m} /\ v.cur = {m}
    BY <2>1, <2>2 DEF Cell, Fields
  <2> HIDE DEF t, v, new
  <2>4. /\ OnePerRow(w.todo)
        /\ \A n \in w.todo : n.row \in DOMAIN rs /\ n.from = rs[n.row].path
    BY <2>1, <2>2 DEF Converting
  <2>5. Charged
    BY <1>0, <2>1, Charges
  <2>6. CASE ~Shelf!Convertible(m.from)
    <3>1. Converting(t, d, rs)
      BY <2>3, <2>4 DEF Converting, OnePerRow
    <3> QED
      BY <1>3, <2>1, <2>2, <2>3, <2>5, <2>6, <3>1
  <2>7. CASE Shelf!Convertible(m.from)
    <3>1. r \in DOMAIN rs /\ m.from = rs[r].path /\ m.from \in DOMAIN d /\ m.from[3] = "cbr"
      BY <1>6, <2>4, <2>7 DEF Shelf!Convertible
    <3>2. /\ Triple(m.from) /\ Triple(cbz) /\ cbz[2] = m.from[2] /\ cbz # m.from
      <4>1. Triple(m.from)
        BY <2>2, <3>1 DEF RowsTold, RowTold
      <4> QED
        BY <3>1, <4>1 DEF Triple, Shelf!Cbz, Shelf!Path
    <3> HIDE DEF cbz
    <3>3. d[m.from] = rs[r].c /\ (cbz \in DOMAIN d => d[cbz] = rs[r].c)
      BY <2>2, <3>1, <3>2, RowsFile DEF RowsTold
    <3>4. FileTold(shelfRegime, cbz, rs[r].c) /\ (Shelf!Hidden(cbz) => cbz[2] = TempStem[r])
      BY <2>2, <3>1, <3>2, Renames
    <3>5. /\ cbz \in DOMAIN shelfDisk' /\ shelfDisk'[cbz] = rs[r].c
          /\ \A p \in DOMAIN d : p \in DOMAIN shelfDisk' /\ shelfDisk'[p] = d[p]
          /\ PutAt(d, cbz, rs[r].c, shelfDisk')
      <4>1. CASE cbz \in DOMAIN d
        BY <2>1, <2>7, <3>3, <4>1 DEF PutAt
      <4>2. CASE cbz \notin DOMAIN d
        <5>1. shelfDisk' = new
          BY <2>1, <2>7, <4>2
        <5>2. DOMAIN new = DOMAIN d \cup {cbz}
          BY WithDomain DEF new
        <5>3. \A p \in DOMAIN new : new[p] = IF p = cbz THEN rs[r].c ELSE d[p]
          BY <3>3, <5>2, WithValue DEF new
        <5> QED
          BY <4>2, <5>1, <5>2, <5>3 DEF PutAt
      <4> QED
        BY <4>1, <4>2
    <3>6. DiskTold(shelfRegime, shelfDisk') /\ Tied(shelfDisk', rs)
      BY <2>2, <3>1, <3>4, <3>5, Puts
    <3>7. Shelf!Range(d) \subseteq Shelf!Range(shelfDisk')
      BY <3>5, RangeKept
    <3>8. Converting(v, shelfDisk', rs)
      <4>1. \A n \in w.todo \ {m} : n.row # r
        BY <1>6, <2>4 DEF OnePerRow
      <4> QED
        BY <2>3, <2>4, <3>1, <3>2, <3>3, <3>5, <4>1 DEF Converting, OnePerRow, cbz
    <3>9. Steady(Shelf!Idle, shelfDisk', rs, shelfExcused)
      BY <2>2, <3>5, IdleIs DEF Steady, InFlight
    <3> QED
      BY <1>3, <2>1, <2>2, <2>3, <2>5, <2>7, <3>6, <3>7, <3>8, <3>9
  <2> QED
    BY <2>6, <2>7
<1>7. ASSUME NEW m \in w.cur, w.at \in {"promoted", "converted"}
      PROVE  /\ w.cur = {m} /\ m.row \in DOMAIN rs /\ \A n \in w.todo : n.row # m.row
             /\ OnePerRow(w.todo) /\ \A n \in w.todo : n.row \in DOMAIN rs /\ n.from = rs[n.row].path
             /\ Triple(m.from) /\ m.from[3] = "cbr"
             /\ m.from \in DOMAIN d /\ Shelf!Cbz(m.from) \in DOMAIN d
             /\ d[Shelf!Cbz(m.from)] = d[m.from]
             /\ rs[m.row].path = (IF w.at = "promoted" THEN m.from ELSE Shelf!Cbz(m.from))
             /\ w.at = "converted" => \A s \in DOMAIN rs : rs[s].path # m.from
             /\ Triple(Shelf!Cbz(m.from)) /\ Shelf!Cbz(m.from)[2] = m.from[2]
             /\ Shelf!Cbz(m.from) # m.from
  <2>1. Converting(w, d, rs)
    BY <1>2, <1>7
  <2>2. Triple(m.from) /\ m.from[3] = "cbr"
    BY <1>7, <2>1 DEF Converting
  <2>3. /\ Triple(Shelf!Cbz(m.from)) /\ Shelf!Cbz(m.from)[2] = m.from[2]
        /\ Shelf!Cbz(m.from) # m.from
    BY <2>2 DEF Triple, Shelf!Cbz, Shelf!Path
  <2> QED
    BY <1>7, <2>1, <2>2, <2>3 DEF Converting
<1>8. ASSUME NEW m \in w.cur, Shelf!ConvertCommit(m) PROVE Sane'
  <2> DEFINE r == m.row
             cbz == Shelf!Cbz(m.from)
             c == [w EXCEPT !.at = "converted"]
             new == shelfRows'
  <2>1. /\ w.at = "promoted"
        /\ UNCHANGED <<shelfDisk, shelfHome, shelfBin, shelfFiled, shelfGone, shelfSeen, shelfExcused,
                       shelfRegime, shelfLimits>>
        /\ new = IF r \in DOMAIN rs THEN [rs EXCEPT ![r].path = cbz] ELSE rs
        /\ Shelf!Goto("pp", c)
    BY <1>8 DEF Shelf!ConvertCommit, Shelf!At
  <2>2. /\ Steady(Shelf!Idle, d, rs, shelfExcused)
        /\ Cell(w) /\ Table(rs) /\ shelfRegime \in FileRegimes
        /\ DiskTold(shelfRegime, d) /\ RowsTold(shelfRegime, rs) /\ Tied(d, rs)
        /\ Shelf!Range(d) \subseteq Shelf!Range(d)
    BY <1>2, <2>1
  <2>3. Cell(c) /\ c.at = "converted" /\ c.todo = w.todo /\ c.cur = w.cur
    BY <2>2 DEF Cell, Fields
  <2> HIDE DEF c, new
  <2>4. /\ w.cur = {m} /\ r \in DOMAIN rs /\ \A n \in w.todo : n.row # r
        /\ OnePerRow(w.todo) /\ \A n \in w.todo : n.row \in DOMAIN rs /\ n.from = rs[n.row].path
        /\ Triple(m.from) /\ m.from[3] = "cbr" /\ m.from \in DOMAIN d /\ cbz \in DOMAIN d
        /\ d[cbz] = d[m.from] /\ rs[r].path = m.from
        /\ Triple(cbz) /\ cbz[2] = m.from[2] /\ cbz # m.from
    BY <1>7, <2>1
  <2> HIDE DEF cbz
  <2>5. RowTold(shelfRegime, r, RowAt(rs, r, cbz))
    BY <2>2, <2>4, Renames
  <2>6. SameThere(d, cbz, rs[r].c)
    BY <2>2, <2>4 DEF SameThere, Tied
  <2>7. /\ RowsTold(shelfRegime, new) /\ Tied(d, new) /\ DOMAIN new = DOMAIN rs
        /\ new[r].path = cbz
        /\ \A s \in DOMAIN rs \ {r} : new[s] = rs[s]
    <3>1. new = RowsAt(rs, r, cbz)
      BY <2>1, <2>4 DEF RowsAt
    <3> QED
      BY <2>2, <2>4, <2>5, <2>6, <3>1, Follows
  <2>8. \A s \in DOMAIN new : new[s].path # m.from
    BY <2>2, <2>4, <2>7 DEF Table
  <2>9. Converting(c, d, new)
    BY <2>3, <2>4, <2>7, <2>8 DEF Converting, cbz
  <2>10. Steady(Shelf!Idle, d, new, shelfExcused)
    BY <2>2, <2>4, <2>7, IdleIs DEF Steady, InFlight
  <2>11. Charged
    BY <1>0, <2>1, Charges
  <2> QED
    BY <1>3, <2>1, <2>2, <2>3, <2>7, <2>9, <2>10, <2>11 DEF new
<1>9. ASSUME NEW m \in w.cur, Shelf!ConvertCleanUp(m) PROVE Sane'
  <2> DEFINE c == [w EXCEPT !.at = "convert", !.cur = {}]
             new == Shelf!Without(d, {m.from})
  <2>1. /\ w.at = "converted" /\ shelfDisk' = new
        /\ UNCHANGED <<shelfRows, shelfHome, shelfBin, shelfFiled, shelfGone, shelfSeen, shelfExcused,
                       shelfRegime, shelfLimits>>
        /\ Shelf!Goto("pp", c)
    BY <1>9 DEF Shelf!ConvertCleanUp, Shelf!At
  <2>2. /\ Steady(Shelf!Idle, d, rs, shelfExcused)
        /\ Cell(w) /\ DiskTold(shelfRegime, d) /\ RowsTold(shelfRegime, rs) /\ Tied(d, rs)
    BY <1>2, <2>1
  <2>3. Cell(c) /\ c.at = "convert" /\ c.todo = w.todo
    BY <2>2 DEF Cell, Fields
  <2>4. DOMAIN new = DOMAIN d \ {m.from}
    BY WithoutDomain
  <2>5. \A p \in DOMAIN new : new[p] = d[p]
    BY <2>4, WithoutValue
  <2> HIDE DEF c, new
  <2>6. /\ OnePerRow(w.todo) /\ \A n \in w.todo : n.row \in DOMAIN rs /\ n.from = rs[n.row].path
        /\ Shelf!Cbz(m.from) \in DOMAIN d /\ d[Shelf!Cbz(m.from)] = d[m.from]
        /\ Shelf!Cbz(m.from) # m.from /\ \A s \in DOMAIN rs : rs[s].path # m.from
    BY <1>7, <2>1
  <2>7. \A p \in DOMAIN d : \E q \in DOMAIN new : new[q] = d[p]
    BY <2>4, <2>5, <2>6
  <2>8. Shelf!Range(d) \subseteq Shelf!Range(new)
    BY <2>7, RangeKept
  <2>9. DiskTold(shelfRegime, new) /\ Tied(new, rs)
    BY <2>2, <2>4, <2>5 DEF DiskTold, Tied
  <2>10. Converting(c, new, rs)
    BY <2>3, <2>6 DEF Converting
  <2>11. Steady(Shelf!Idle, new, rs, shelfExcused)
    BY <2>2, <2>4, <2>6, IdleIs DEF Steady, InFlight
  <2>12. Charged
    BY <1>0, <2>1, Charges
  <2> QED
    BY <1>3, <2>1, <2>2, <2>3, <2>8, <2>9, <2>10, <2>11, <2>12
<1> QED
  BY <1>1, <1>4, <1>5, <1>6, <1>8, <1>9 DEF Shelf!Convert

(* A deletion. *)
LEMMA StandsAnew ==
  ASSUME Stands, shelfHome' \in shelfRegime.dirs \cup {Shelf!NoHome}, shelfRegime' = shelfRegime,
         shelfBin' \cup shelfFiled' \cup shelfGone' \cup shelfSeen' \subseteq Contents,
         shelfExcused' \in BOOLEAN, Counts(shelfLimits'),
         DiskTold(shelfRegime, shelfDisk'), RowsTold(shelfRegime, shelfRows'),
         Tied(shelfDisk', shelfRows'),
         \A c \in shelfSeen' : c \in Shelf!Range(shelfDisk') \cup shelfBin' \cup shelfGone'
  PROVE  Stands'
  BY DEF Stands, Shelf!ContentKept, Shelf!OnDisk

\* What stays is told as it was.
PartOf(new, f) == \A x \in DOMAIN new : x \in DOMAIN f /\ new[x] = f[x]

LEMMA FewerStay ==
  ASSUME NEW f, NEW ks
  PROVE  DOMAIN Shelf!Without(f, ks) = DOMAIN f \ ks /\ PartOf(Shelf!Without(f, ks), f)
<1> DEFINE new == Shelf!Without(f, ks)
<1>1. DOMAIN new = DOMAIN f \ ks
  BY WithoutDomain
<1>2. \A x \in DOMAIN new : new[x] = f[x]
  BY <1>1, WithoutValue
<1> HIDE DEF new
<1>3. PartOf(new, f)
  BY <1>1, <1>2 DEF PartOf
<1> QED
  BY <1>1, <1>3 DEF new

LEMMA FewerFiles ==
  ASSUME NEW reg, NEW d, NEW rs, NEW new, PartOf(new, d), DiskTold(reg, d), Tied(d, rs)
  PROVE  DiskTold(reg, new) /\ Tied(new, rs)
  BY DEF PartOf, DiskTold, Tied

LEMMA FewerRows ==
  ASSUME NEW reg, NEW d, NEW rs, NEW new, PartOf(new, rs), RowsTold(reg, rs), Tied(d, rs)
  PROVE  RowsTold(reg, new) /\ Tied(d, new)
  BY DEF PartOf, RowsTold, Tied

LEMMA OneLess ==
  ASSUME NEW d, NEW p, NEW new, PartOf(new, d), DOMAIN new = DOMAIN d \ {p}
  PROVE  \A c \in Shelf!Range(d) : c = d[p] \/ c \in Shelf!Range(new)
<1>1. \A q \in DOMAIN d : d[q] = d[p] \/ \E x \in DOMAIN new : new[x] = d[q]
  BY DEF PartOf
<1> QED
  BY <1>1 DEF Shelf!Range

Ending == {"delete", "undo", "forget", "unlink"}

\* A step of a deletion.
LEMMA Deleting ==
  ASSUME Sized, Calm(shelfRegime), Sane, NEW a \in Shelf!Actors, NEW c, Cell(c), Shelf!Goto(a, c),
         shelfActor[a].at # "idle", shelfRegime' = shelfRegime, Stands',
         \/ c.at = "idle"
         \/ /\ c.at \in Ending
            /\ Removing(c, shelfRegime, shelfDisk', shelfRows', shelfHome', shelfGone',
                        shelfLimits'.faults),
         Steady(c, shelfDisk', shelfRows', shelfExcused'),
         BinFiled(c, shelfBin', shelfFiled', shelfLimits')
  PROVE  Sane'
<1>1. Flow(c, shelfRegime, shelfDisk', shelfRows', shelfHome', shelfExcused', shelfGone',
           shelfLimits'.faults)
  BY FlowHere DEF Ending
<1> QED
  BY <1>1, Landing DEF Moves

LEMMA DeleteStarts ==
  ASSUME NamesHold, Sized, Calm(shelfRegime), Sane, NEW a \in {"pp", "api"}, NEW rows,
         rows \subseteq DOMAIN shelfRows, Shelf!DeleteBegin(a, rows)
  PROVE  Sane'
<1> DEFINE at == IF shelfRegime.bin THEN "delete" ELSE "forget"
           whole == (a = "pp")
           todo == {[row |-> r, from |-> shelfRows[r].path, c |-> shelfRows[r].c] : r \in rows}
<1>1. /\ at \in {"delete", "forget"} /\ shelfHome # Shelf!NoHome
      /\ Shelf!Begin(a, [Shelf!Idle EXCEPT !.at = at, !.whole = whole, !.todo = todo])
      /\ Untouched /\ shelfExcused' = shelfExcused
  BY DEF Shelf!DeleteBegin, Untouched
<1>2. \A m \in todo : Entry(m, shelfRows)
  BY DEF Entry
<1> HIDE DEF at, whole, todo
<1> DEFINE c == [Shelf!Idle EXCEPT !.at = at, !.whole = whole, !.todo = todo]
<1>3. Cell(c) /\ c.at \in {"delete", "forget"} /\ c.todo = todo /\ c.moved = {} /\ Shelf!Begin(a, c)
  BY <1>1, IdleIs DEF Cell, Fields
<1> HIDE DEF c
<1>4. Removing(c, shelfRegime, shelfDisk, shelfRows, shelfHome, shelfGone, shelfLimits.faults)
  BY <1>1, <1>2, <1>3 DEF Removing
<1> QED
  BY <1>1, <1>3, <1>4, FlowHere, Starts, Three

\* What a deletion under way has at hand.
LEMMA DeleteHas ==
  ASSUME Sized, Calm(shelfRegime), Sane, NEW a \in {"pp", "api"}, shelfActor[a].at \in Ending
  PROVE  /\ a \in Shelf!Actors /\ shelfActor[a].at # "idle" /\ Cell(shelfActor[a]) /\ Stands
         /\ Removing(shelfActor[a], shelfRegime, shelfDisk, shelfRows, shelfHome, shelfGone,
                     shelfLimits.faults)
         /\ Counts(shelfLimits) /\ shelfExcused \in BOOLEAN
         /\ DiskTold(shelfRegime, shelfDisk) /\ RowsTold(shelfRegime, shelfRows)
         /\ Tied(shelfDisk, shelfRows) /\ Table(shelfRows) /\ shelfRegime \in FileRegimes
         /\ Steady(shelfActor[a], shelfDisk, shelfRows, shelfExcused)
         /\ BinFiled(shelfActor[a], shelfBin, shelfFiled, shelfLimits)
         /\ shelfHome \in shelfRegime.dirs \cup {Shelf!NoHome}
         /\ shelfBin \cup shelfFiled \cup shelfGone \cup shelfSeen \subseteq Contents
         /\ \A c \in shelfSeen : c \in Shelf!Range(shelfDisk) \cup shelfBin \cup shelfGone
<1>1. a \in Shelf!Actors /\ shelfActor[a].at # "idle"
  BY Three DEF Ending
<1> QED
  BY <1>1, Goings DEF Under, Flow, Stands, Shelf!ContentKept, Shelf!OnDisk

LEMMA RecycleKeeps ==
  ASSUME NamesHold, Sized, Calm(shelfRegime), Sane, NEW a \in {"pp", "api"}, NEW m, Shelf!Recycle(a, m)
  PROVE  Sane'
<1> DEFINE w == shelfActor[a]
           d == shelfDisk
           rs == shelfRows
           t == [w EXCEPT !.todo = @ \ {m}, !.pending = Shelf!With(@, m.row, m)]
           x == [path |-> m.from, c |-> d[m.from]]
           v == [t EXCEPT !.moved = @ \cup {x}]
           new == Shelf!Without(d, {m.from})
           pending == Shelf!With(w.pending, m.row, m)
<1>1. /\ w.at = "delete" /\ m \in w.todo
      /\ IF m.from \in DOMAIN d
         THEN shelfBin' = shelfBin \cup {d[m.from]} /\ shelfDisk' = new /\ Shelf!Goto(a, v)
         ELSE Shelf!Goto(a, t) /\ UNCHANGED <<shelfBin, shelfDisk>>
      /\ UNCHANGED <<shelfRows, shelfHome, shelfFiled, shelfGone, shelfSeen, shelfExcused, shelfRegime,
                     shelfLimits>>
  BY DEF Shelf!Recycle, Shelf!At
<1>2. /\ a \in Shelf!Actors /\ Cell(w) /\ Stands /\ Table(rs) /\ shelfRegime \in FileRegimes
      /\ Removing(w, shelfRegime, d, rs, shelfHome, shelfGone, shelfLimits.faults)
      /\ Counts(shelfLimits) /\ shelfExcused \in BOOLEAN
      /\ DiskTold(shelfRegime, d) /\ RowsTold(shelfRegime, rs) /\ Tied(d, rs)
      /\ Steady(w, d, rs, shelfExcused) /\ BinFiled(w, shelfBin, shelfFiled, shelfLimits)
      /\ shelfHome \in shelfRegime.dirs \cup {Shelf!NoHome}
      /\ shelfBin \cup shelfFiled \cup shelfGone \cup shelfSeen \subseteq Contents
      /\ \A c \in shelfSeen : c \in Shelf!Range(d) \cup shelfBin \cup shelfGone
  BY <1>1, DeleteHas DEF Ending
<1>3. /\ Cell(t) /\ t.at = "delete" /\ t.todo = w.todo \ {m} /\ t.moved = w.moved
      /\ t.pending = pending /\ t.whole = w.whole
      /\ Cell(v) /\ v.at = "delete" /\ v.todo = w.todo \ {m} /\ v.moved = w.moved \cup {x}
      /\ v.pending = pending /\ v.whole = w.whole
  BY <1>1, <1>2 DEF Cell, Fields
<1>4. DOMAIN pending = DOMAIN w.pending \cup {m.row}
  BY WithDomain
<1>5. x.path = m.from /\ x.c = d[m.from]
  OBVIOUS
<1> HIDE DEF t, v, x, pending
<1>6. m.row \in DOMAIN rs /\ m.from = rs[m.row].path
  BY <1>1, <1>2 DEF Removing, Entry
<1>7. /\ \A n \in w.todo : Entry(n, rs)
      /\ \A n \in w.moved : /\ FileTold(shelfRegime, n.path, n.c)
                            /\ \E r \in DOMAIN pending : r \in DOMAIN rs /\ rs[r].path = n.path
                                                         /\ rs[r].c = n.c
      /\ w.whole => shelfHome # Shelf!NoHome
  BY <1>1, <1>2, <1>4 DEF Removing
<1>8. CASE m.from \notin DOMAIN d
  <2>1. Removing(t, shelfRegime, d, rs, shelfHome, shelfGone, shelfLimits.faults)
    BY <1>3, <1>7 DEF Removing
  <2>2. Steady(t, d, rs, shelfExcused) /\ BinFiled(t, shelfBin, shelfFiled, shelfLimits)
    BY <1>1, <1>2, <1>3 DEF Steady, InFlight, BinFiled
  <2>3. Stands'
    BY <1>1, <1>2, <1>8, StandsAnew
  <2>4. t.at \in Ending
    BY <1>3 DEF Ending
  <2> QED
    BY <1>1, <1>2, <1>3, <1>8, <2>1, <2>2, <2>3, <2>4, Deleting
<1>9. CASE m.from \in DOMAIN d
  <2>1. d[m.from] = rs[m.row].c /\ FileTold(shelfRegime, m.from, d[m.from]) /\ d[m.from] \in Contents
    BY <1>2, <1>6, <1>9, RowsFile DEF RowsTold, DiskTold, FileTold
  <2>2. DOMAIN new = DOMAIN d \ {m.from} /\ PartOf(new, d)
    BY FewerStay
  <2> HIDE DEF new
  <2>8. DiskTold(shelfRegime, new) /\ Tied(new, rs)
    BY <1>2, <2>2, FewerFiles
  <2>9. \A c \in Shelf!Range(d) : c = d[m.from] \/ c \in Shelf!Range(new)
    BY <2>2, OneLess
  <2>3. Removing(v, shelfRegime, new, rs, shelfHome, shelfGone, shelfLimits.faults)
    <3>1. \A n \in v.moved : /\ FileTold(shelfRegime, n.path, n.c)
                             /\ \E r \in DOMAIN pending : r \in DOMAIN rs /\ rs[r].path = n.path
                                                          /\ rs[r].c = n.c
      BY <1>3, <1>4, <1>5, <1>6, <1>7, <2>1
    <3> QED
      BY <1>3, <1>7, <3>1 DEF Removing
  <2>4. Steady(v, new, rs, shelfExcused)
    BY <1>1, <1>2, <1>3, <1>5, <2>2 DEF Steady, InFlight
  <2>5. BinFiled(v, shelfBin', shelfFiled, shelfLimits)
    BY <1>1, <1>2, <1>3, <1>5, <1>9 DEF BinFiled
  <2>6. Stands'
    BY <1>1, <1>2, <1>9, <2>1, <2>8, <2>9, StandsAnew
  <2>7. v.at \in Ending
    BY <1>3 DEF Ending
  <2> QED
    BY <1>1, <1>2, <1>3, <1>9, <2>3, <2>4, <2>5, <2>6, <2>7, Deleting
<1> QED
  BY <1>8, <1>9

\* Nothing is done but that the deletion goes back, or gives up before it removed anything.
LEMMA GiveUp ==
  ASSUME Sized, Calm(shelfRegime), Sane, NEW a \in {"pp", "api"},
         Shelf!RecycleFails(a) \/ Shelf!DeleteFails(a) \/ Shelf!UndoEnds(a) \/ Shelf!ForgetFails(a)
           \/ Shelf!UnlinkEnds(a)
  PROVE  Sane'
<1> DEFINE w == shelfActor[a]
           c == [w EXCEPT !.at = "undo"]
<1>1. /\ Untouched
      /\ \/ /\ w.at = "delete" /\ Shelf!Goto(a, c)
            /\ Shelf!Fault \/ (Shelf!NoFault /\ w.whole /\ shelfHome = Shelf!NoHome)
         \/ /\ w.at \in {"undo", "forget", "unlink"} /\ Shelf!Goto(a, Shelf!Idle)
            /\ w.at = "undo" => w.moved = {}
            /\ Shelf!Fault \/ Shelf!NoFault
  BY DEF Shelf!RecycleFails, Shelf!DeleteFails, Shelf!UndoEnds, Shelf!ForgetFails, Shelf!UnlinkEnds,
     Shelf!At, Untouched, Shelf!NoFault
<1>2. /\ a \in Shelf!Actors /\ Cell(w) /\ w.at # "idle"
      /\ Removing(w, shelfRegime, shelfDisk, shelfRows, shelfHome, shelfGone, shelfLimits.faults)
      /\ Counts(shelfLimits) /\ shelfExcused \in BOOLEAN
      /\ Steady(w, shelfDisk, shelfRows, shelfExcused)
      /\ BinFiled(w, shelfBin, shelfFiled, shelfLimits)
  BY <1>1, DeleteHas DEF Ending
<1>3. Charged
  BY <1>1, <1>2, Charges
<1>4. CASE w.at = "delete"
  <2>1. /\ Cell(c) /\ c.at = "undo" /\ c.todo = w.todo /\ c.moved = w.moved /\ c.pending = w.pending
        /\ Shelf!Goto(a, c)
    BY <1>1, <1>2, <1>4 DEF Cell, Fields
  <2> HIDE DEF c
  <2>2. Shelf!Fault
    BY <1>1, <1>2, <1>4 DEF Removing
  <2>3. shelfLimits'.faults = shelfLimits.faults + 1 /\ shelfLimits.faults \in Nat
    BY <1>2, <2>2, Charges DEF Counts
  <2>4. Removing(c, shelfRegime, shelfDisk, shelfRows, shelfHome, shelfGone, shelfLimits'.faults)
    BY <1>2, <1>4, <2>1, <2>3 DEF Removing
  <2>5. Flow(c, shelfRegime, shelfDisk, shelfRows, shelfHome, shelfExcused', shelfGone,
             shelfLimits'.faults)
    BY <2>1, <2>4, FlowHere
  <2>6. Steady(c, shelfDisk, shelfRows, shelfExcused) /\ BinFiled(c, shelfBin, shelfFiled, shelfLimits)
    BY <1>2, <1>4, <2>1 DEF Steady, InFlight, BinFiled
  <2>7. Moves(a, c)
    BY <1>2, <2>1 DEF Moves
  <2> QED
    BY <1>1, <1>2, <1>3, <2>5, <2>6, <2>7, Passes
<1>5. CASE w.at # "delete"
  <2>1. Shelf!Goto(a, Shelf!Idle) /\ (w.at = "undo" => w.moved = {})
    BY <1>1, <1>5
  <2>2. /\ Steady(Shelf!Idle, shelfDisk, shelfRows, shelfExcused)
        /\ BinFiled(Shelf!Idle, shelfBin, shelfFiled, shelfLimits)
    BY <1>1, <1>2, <1>5, <2>1, IdleIs DEF Steady, InFlight, BinFiled
  <2>3. Moves(a, Shelf!Idle)
    BY <1>2, <2>1, IdleIs DEF Moves
  <2>4. Flow(Shelf!Idle, shelfRegime, shelfDisk, shelfRows, shelfHome, shelfExcused', shelfGone,
             shelfLimits'.faults)
    BY FlowHere, IdleIs
  <2> QED
    BY <1>1, <1>2, <1>3, <2>2, <2>3, <2>4, Passes
<1> QED
  BY <1>4, <1>5

LEMMA DeleteCommits ==
  ASSUME NamesHold, Sized, Calm(shelfRegime), Sane, NEW a \in {"pp", "api"}, Shelf!DeleteCommit(a)
  PROVE  Sane'
<1> DEFINE w == shelfActor[a]
           d == shelfDisk
           rs == shelfRows
           new == shelfRows'
           doomed == Shelf!Doomed(a)
<1>1. /\ w.at = "delete" /\ new = Shelf!Without(rs, doomed)
      /\ shelfHome' \in {shelfHome, Shelf!NoHome}
      /\ shelfFiled' = shelfFiled \cup {m.c : m \in w.moved}
      /\ Shelf!Goto(a, Shelf!Idle)
      /\ UNCHANGED <<shelfDisk, shelfBin, shelfGone, shelfSeen, shelfExcused, shelfRegime, shelfLimits>>
  BY DEF Shelf!DeleteCommit, Shelf!At
<1>2. /\ a \in Shelf!Actors /\ w.at # "idle" /\ Stands /\ Table(rs)
      /\ Removing(w, shelfRegime, d, rs, shelfHome, shelfGone, shelfLimits.faults)
      /\ Counts(shelfLimits) /\ shelfExcused \in BOOLEAN
      /\ DiskTold(shelfRegime, d) /\ RowsTold(shelfRegime, rs) /\ Tied(d, rs)
      /\ Steady(w, d, rs, shelfExcused) /\ BinFiled(w, shelfBin, shelfFiled, shelfLimits)
      /\ shelfHome \in shelfRegime.dirs \cup {Shelf!NoHome}
      /\ shelfBin \cup shelfFiled \cup shelfGone \cup shelfSeen \subseteq Contents
      /\ \A c \in shelfSeen : c \in Shelf!Range(d) \cup shelfBin \cup shelfGone
  BY <1>1, DeleteHas DEF Ending
<1>3. \A m \in w.moved : /\ m.c \in Contents
                         /\ \E r \in doomed : r \in DOMAIN rs /\ rs[r].path = m.path
  <2>1. \A m \in w.moved : /\ m.c \in Contents
                           /\ \E r \in DOMAIN w.pending : r \in DOMAIN rs /\ rs[r].path = m.path
    BY <1>1, <1>2 DEF Removing, FileTold
  <2> QED
    BY <2>1 DEF Shelf!Doomed
<1> HIDE DEF doomed, new
<1>4. DOMAIN new = DOMAIN rs \ doomed /\ PartOf(new, rs)
  BY <1>1, FewerStay
<1>5. RowsTold(shelfRegime, new) /\ Tied(d, new)
  BY <1>2, <1>4, FewerRows
<1>6. \A m \in w.moved : m.c \in shelfFiled' /\ m.c \in Contents
  BY <1>1, <1>3
<1>7. shelfFiled' \subseteq Contents
  BY <1>1, <1>2, <1>3
<1>8. Stands'
  BY <1>1, <1>2, <1>5, <1>7, StandsAnew DEF new
<1>9. Steady(Shelf!Idle, d, new, shelfExcused)
  <2>1. ASSUME NEW r \in DOMAIN new, ~shelfExcused PROVE new[r].path \in DOMAIN d
    <3>1. r \in DOMAIN rs \ doomed /\ new[r] = rs[r]
      BY <1>4 DEF PartOf
    <3>2. \A m \in w.moved : m.path # rs[r].path
      BY <1>2, <1>3, <3>1 DEF Table
    <3> QED
      BY <1>1, <1>2, <2>1, <3>1, <3>2 DEF Steady, InFlight
  <2> QED
    BY <2>1 DEF Steady
<1>10. BinFiled(Shelf!Idle, shelfBin, shelfFiled', shelfLimits)
  <2>1. shelfFiled \subseteq shelfFiled'
    BY <1>1
  <2> QED
    BY <1>2, <1>6, <2>1 DEF BinFiled
<1> QED
  BY <1>1, <1>2, <1>8, <1>9, <1>10, Deleting, IdleIs DEF new

LEMMA RestoreKeeps ==
  ASSUME NamesHold, Sized, Calm(shelfRegime), Sane, NEW a \in {"pp", "api"},
         NEW m \in shelfActor[a].moved, Shelf!Restore(a, m)
  PROVE  Sane'
<1> DEFINE w == shelfActor[a]
           d == shelfDisk
           rs == shelfRows
           c == [w EXCEPT !.moved = @ \ {m}]
           new == Shelf!With(d, m.path, m.c)
<1>1. /\ w.at = "undo" /\ shelfDisk' = new /\ shelfBin' = shelfBin \ {m.c} /\ Shelf!Goto(a, c)
      /\ UNCHANGED <<shelfRows, shelfHome, shelfFiled, shelfGone, shelfSeen, shelfExcused, shelfRegime,
                     shelfLimits>>
  BY DEF Shelf!Restore, Shelf!At
<1>2. /\ a \in Shelf!Actors /\ w.at # "idle" /\ Cell(w) /\ Stands /\ Table(rs)
      /\ Removing(w, shelfRegime, d, rs, shelfHome, shelfGone, shelfLimits.faults)
      /\ Counts(shelfLimits) /\ shelfExcused \in BOOLEAN
      /\ DiskTold(shelfRegime, d) /\ RowsTold(shelfRegime, rs) /\ Tied(d, rs)
      /\ Steady(w, d, rs, shelfExcused) /\ BinFiled(w, shelfBin, shelfFiled, shelfLimits)
      /\ shelfHome \in shelfRegime.dirs \cup {Shelf!NoHome}
      /\ shelfBin \cup shelfFiled \cup shelfGone \cup shelfSeen \subseteq Contents
      /\ \A x \in shelfSeen : x \in Shelf!Range(d) \cup shelfBin \cup shelfGone
  BY <1>1, DeleteHas DEF Ending
<1>3. /\ Cell(c) /\ c.at = "undo" /\ c.todo = w.todo /\ c.moved = w.moved \ {m}
      /\ c.pending = w.pending
  BY <1>1, <1>2 DEF Cell, Fields
<1>4. DOMAIN new = DOMAIN d \cup {m.path}
  BY WithDomain
<1>5. \A p \in DOMAIN new : new[p] = IF p = m.path THEN m.c ELSE d[p]
  BY <1>4, WithValue
<1> HIDE DEF c, new
<1>6. /\ FileTold(shelfRegime, m.path, m.c)
      /\ \E r \in DOMAIN w.pending : r \in DOMAIN rs /\ rs[r].path = m.path /\ rs[r].c = m.c
  BY <1>1, <1>2 DEF Removing
<1>7. PICK r \in DOMAIN rs : rs[r].path = m.path /\ rs[r].c = m.c
  BY <1>6
<1>8. m.path \in DOMAIN d => d[m.path] = m.c
  BY <1>2, <1>7, RowsFile DEF RowsTold
<1>9. DiskTold(shelfRegime, new) /\ Tied(new, rs)
  <2>1. PutAt(d, m.path, rs[r].c, new)
    BY <1>4, <1>5, <1>7 DEF PutAt
  <2>2. FileTold(shelfRegime, m.path, rs[r].c) /\ (Shelf!Hidden(m.path) => m.path[2] = TempStem[r])
    BY <1>2, <1>6, <1>7 DEF RowsTold, RowTold
  <2> QED
    BY <1>2, <2>1, <2>2, Puts
<1>10. m.c \in Shelf!Range(new) /\ \A x \in Shelf!Range(d) : x \in Shelf!Range(new)
  <2>1. \A p \in DOMAIN d : \E q \in DOMAIN new : new[q] = d[p]
    BY <1>4, <1>5, <1>8
  <2>2. Shelf!Range(d) \subseteq Shelf!Range(new)
    BY <2>1, RangeKept
  <2>3. m.path \in DOMAIN new /\ new[m.path] = m.c
    BY <1>4, <1>5
  <2> QED
    BY <2>2, <2>3 DEF Shelf!Range
<1>11. shelfBin' \subseteq shelfBin /\ \A x \in shelfBin : x = m.c \/ x \in shelfBin'
  BY <1>1
<1>12. Stands'
  BY <1>1, <1>2, <1>9, <1>10, <1>11, StandsAnew
<1>13. Removing(c, shelfRegime, new, rs, shelfHome, shelfGone, shelfLimits.faults)
  BY <1>1, <1>2, <1>3 DEF Removing
<1>14. Steady(c, new, rs, shelfExcused)
  BY <1>1, <1>2, <1>3, <1>4 DEF Steady, InFlight
<1>15. BinFiled(c, shelfBin', shelfFiled, shelfLimits)
  BY <1>1, <1>2, <1>3 DEF BinFiled
<1>16. c.at \in Ending
  BY <1>3 DEF Ending
<1> QED
  BY <1>1, <1>2, <1>3, <1>12, <1>13, <1>14, <1>15, <1>16, Deleting

\* A file that cannot be restored is a second failure.
LEMMA RestoreFailing ==
  ASSUME NamesHold, Sized, Calm(shelfRegime), Sane, NEW a \in {"pp", "api"},
         NEW m \in shelfActor[a].moved, Shelf!RestoreFails(a, m)
  PROVE  Sane'
<1> DEFINE w == shelfActor[a]
           d == shelfDisk
           rs == shelfRows
           c == [w EXCEPT !.moved = @ \ {m}]
<1>1. /\ w.at = "undo" /\ Shelf!Goto(a, c) /\ Shelf!Fault
      /\ shelfFiled' \in {shelfFiled, shelfFiled \cup {m.c}}
      /\ UNCHANGED <<shelfDisk, shelfRows, shelfHome, shelfBin, shelfGone, shelfSeen, shelfRegime>>
  BY DEF Shelf!RestoreFails, Shelf!At
<1>2. /\ a \in Shelf!Actors /\ w.at # "idle" /\ Cell(w) /\ Stands
      /\ Removing(w, shelfRegime, d, rs, shelfHome, shelfGone, shelfLimits.faults)
      /\ Counts(shelfLimits) /\ shelfExcused \in BOOLEAN
      /\ DiskTold(shelfRegime, d) /\ RowsTold(shelfRegime, rs) /\ Tied(d, rs)
      /\ shelfHome \in shelfRegime.dirs \cup {Shelf!NoHome}
      /\ shelfBin \cup shelfFiled \cup shelfGone \cup shelfSeen \subseteq Contents
      /\ \A x \in shelfSeen : x \in Shelf!Range(d) \cup shelfBin \cup shelfGone
  BY <1>1, DeleteHas DEF Ending
<1>3. /\ Cell(c) /\ c.at = "undo" /\ c.todo = w.todo /\ c.moved = w.moved \ {m}
      /\ c.pending = w.pending
  BY <1>1, <1>2 DEF Cell, Fields
<1> HIDE DEF c
<1>4. shelfLimits.faults \in Nat /\ shelfLimits.faults >= 1 /\ m.c \in Contents
  BY <1>1, <1>2 DEF Removing, Counts, FileTold
<1>5. shelfLimits'.faults = shelfLimits.faults + 1 /\ shelfExcused' = TRUE /\ Counts(shelfLimits')
  <2>1. /\ Charged /\ shelfLimits'.faults = shelfLimits.faults + 1
        /\ shelfExcused' = (shelfExcused \/ shelfLimits.faults >= 1)
    BY <1>1, <1>2, Charges
  <2>2. shelfExcused' = TRUE
    BY <1>2, <1>4, <2>1
  <2> QED
    BY <2>1, <2>2 DEF Charged
<1>6. Stands'
  <2>1. shelfFiled' \subseteq Contents /\ shelfExcused' \in BOOLEAN
    BY <1>1, <1>2, <1>4, <1>5
  <2> QED
    BY <1>1, <1>2, <1>5, <2>1, StandsAnew
<1>7. Removing(c, shelfRegime, d, rs, shelfHome, shelfGone, shelfLimits'.faults)
  BY <1>1, <1>2, <1>3, <1>4, <1>5 DEF Removing
<1>8. Steady(c, d, rs, shelfExcused') /\ BinFiled(c, shelfBin, shelfFiled', shelfLimits')
  BY <1>4, <1>5 DEF Steady, BinFiled
<1>9. c.at \in Ending
  BY <1>3 DEF Ending
<1> QED
  BY <1>1, <1>2, <1>3, <1>6, <1>7, <1>8, <1>9, Deleting

LEMMA ForgetKeeps ==
  ASSUME NamesHold, Sized, Calm(shelfRegime), Sane, NEW a \in {"pp", "api"}, Shelf!Forget(a)
  PROVE  Sane'
<1> DEFINE w == shelfActor[a]
           d == shelfDisk
           rs == shelfRows
           new == shelfRows'
           ks == IF w.whole THEN DOMAIN rs ELSE {m.row : m \in w.todo}
           c == [w EXCEPT !.at = "unlink"]
<1>1. /\ w.at = "forget" /\ new = Shelf!Without(rs, ks)
      /\ shelfHome' \in {shelfHome, Shelf!NoHome}
      /\ shelfGone' = shelfGone \cup {m.c : m \in w.todo}
      /\ Shelf!Goto(a, c)
      /\ UNCHANGED <<shelfDisk, shelfBin, shelfFiled, shelfSeen, shelfExcused, shelfRegime, shelfLimits>>
  BY DEF Shelf!Forget, Shelf!At
<1>2. /\ a \in Shelf!Actors /\ w.at # "idle" /\ Cell(w) /\ Stands /\ Table(rs)
      /\ Removing(w, shelfRegime, d, rs, shelfHome, shelfGone, shelfLimits.faults)
      /\ Counts(shelfLimits) /\ shelfExcused \in BOOLEAN
      /\ DiskTold(shelfRegime, d) /\ RowsTold(shelfRegime, rs) /\ Tied(d, rs)
      /\ Steady(w, d, rs, shelfExcused) /\ BinFiled(w, shelfBin, shelfFiled, shelfLimits)
      /\ shelfHome \in shelfRegime.dirs \cup {Shelf!NoHome}
      /\ shelfBin \cup shelfFiled \cup shelfGone \cup shelfSeen \subseteq Contents
      /\ \A x \in shelfSeen : x \in Shelf!Range(d) \cup shelfBin \cup shelfGone
  BY <1>1, DeleteHas DEF Ending
<1>3. Cell(c) /\ c.at = "unlink" /\ c.todo = w.todo
  BY <1>1, <1>2 DEF Cell, Fields
<1>4. \A m \in w.todo : m.row \in ks /\ m.row \in DOMAIN rs /\ m.from = rs[m.row].path /\ m.c = rs[m.row].c
  BY <1>1, <1>2 DEF Removing, Entry
<1> HIDE DEF c, ks, new
<1>5. DOMAIN new = DOMAIN rs \ ks /\ PartOf(new, rs)
  BY <1>1, FewerStay
<1>6. RowsTold(shelfRegime, new) /\ Tied(d, new)
  BY <1>2, <1>5, FewerRows
<1>7. \A m \in w.todo : m.c \in Contents /\ m.c \in shelfGone'
  BY <1>1, <1>2, <1>4 DEF RowsTold, RowTold
<1>8. shelfGone \subseteq shelfGone' /\ shelfGone' \subseteq Contents
  BY <1>1, <1>2, <1>7
<1>9. Stands'
  BY <1>1, <1>2, <1>6, <1>8, StandsAnew DEF new
<1>10. Removing(c, shelfRegime, d, new, shelfHome', shelfGone', shelfLimits.faults)
  <2>1. ASSUME NEW m \in w.todo, m.from \in DOMAIN d PROVE d[m.from] \in shelfGone'
    <3>1. d[m.from] = m.c
      BY <1>2, <1>4, <2>1, RowsFile DEF RowsTold
    <3> QED
      BY <1>7, <3>1
  <2>2. ASSUME NEW m \in w.todo, NEW r \in DOMAIN new PROVE new[r].path # m.from
    BY <1>2, <1>4, <1>5 DEF Table, PartOf
  <2> QED
    BY <1>3, <2>1, <2>2 DEF Removing
<1>11. Steady(c, d, new, shelfExcused)
  BY <1>1, <1>2, <1>5 DEF Steady, InFlight, PartOf
<1>12. BinFiled(c, shelfBin, shelfFiled, shelfLimits)
  BY <1>1, <1>2 DEF BinFiled
<1>13. c.at \in Ending
  BY <1>3 DEF Ending
<1> QED
  BY <1>1, <1>2, <1>3, <1>9, <1>10, <1>11, <1>12, <1>13, Deleting DEF new

LEMMA UnlinkKeeps ==
  ASSUME NamesHold, Sized, Calm(shelfRegime), Sane, NEW a \in {"pp", "api"},
         NEW m \in shelfActor[a].todo, Shelf!Unlink(a, m)
  PROVE  Sane'
<1> DEFINE w == shelfActor[a]
           d == shelfDisk
           rs == shelfRows
           c == [w EXCEPT !.todo = @ \ {m}]
           new == Shelf!Without(d, {m.from})
<1>1. /\ w.at = "unlink" /\ shelfDisk' = new /\ Shelf!Goto(a, c)
      /\ UNCHANGED <<shelfRows, shelfHome, shelfBin, shelfFiled, shelfGone, shelfSeen, shelfExcused,
                     shelfRegime, shelfLimits>>
  BY DEF Shelf!Unlink, Shelf!At
<1>2. /\ a \in Shelf!Actors /\ w.at # "idle" /\ Cell(w) /\ Stands
      /\ Removing(w, shelfRegime, d, rs, shelfHome, shelfGone, shelfLimits.faults)
      /\ Counts(shelfLimits) /\ shelfExcused \in BOOLEAN
      /\ DiskTold(shelfRegime, d) /\ RowsTold(shelfRegime, rs) /\ Tied(d, rs)
      /\ Steady(w, d, rs, shelfExcused) /\ BinFiled(w, shelfBin, shelfFiled, shelfLimits)
      /\ shelfHome \in shelfRegime.dirs \cup {Shelf!NoHome}
      /\ shelfBin \cup shelfFiled \cup shelfGone \cup shelfSeen \subseteq Contents
      /\ \A x \in shelfSeen : x \in Shelf!Range(d) \cup shelfBin \cup shelfGone
  BY <1>1, DeleteHas DEF Ending
<1>3. Cell(c) /\ c.at = "unlink" /\ c.todo = w.todo \ {m}
  BY <1>1, <1>2 DEF Cell, Fields
<1> HIDE DEF c
<1>4. DOMAIN new = DOMAIN d \ {m.from} /\ PartOf(new, d)
  BY FewerStay
<1> HIDE DEF new
<1>5. DiskTold(shelfRegime, new) /\ Tied(new, rs)
  BY <1>2, <1>4, FewerFiles
<1>6. /\ m.from \in DOMAIN d => d[m.from] \in shelfGone
      /\ \A r \in DOMAIN rs : rs[r].path # m.from
  BY <1>1, <1>2 DEF Removing
<1>7. \A x \in Shelf!Range(d) : x \in Shelf!Range(new) \/ x \in shelfGone
  <2>1. ASSUME NEW p \in DOMAIN d PROVE d[p] \in shelfGone \/ \E q \in DOMAIN new : new[q] = d[p]
    BY <1>4, <1>6 DEF PartOf
  <2> QED
    BY <2>1 DEF Shelf!Range
<1>8. Stands'
  BY <1>1, <1>2, <1>5, <1>7, StandsAnew
<1>9. Removing(c, shelfRegime, new, rs, shelfHome, shelfGone, shelfLimits.faults)
  BY <1>1, <1>2, <1>3, <1>4 DEF Removing, PartOf
<1>10. Steady(c, new, rs, shelfExcused)
  BY <1>1, <1>2, <1>4, <1>6 DEF Steady, InFlight
<1>11. BinFiled(c, shelfBin, shelfFiled, shelfLimits)
  BY <1>1, <1>2 DEF BinFiled
<1>12. c.at \in Ending
  BY <1>3 DEF Ending
<1> QED
  BY <1>1, <1>2, <1>3, <1>8, <1>9, <1>10, <1>11, <1>12, Deleting

LEMMA DeleteKeeps == ASSUME NamesHold, Sized, Calm(shelfRegime), Sane, Shelf!Delete PROVE Sane'
<1>1. PICK a \in {"pp", "api"} :
    \/ Shelf!DeleteBegin(a, DOMAIN shelfRows) \/ \E r \in DOMAIN shelfRows : Shelf!DeleteBegin(a, {r})
    \/ Shelf!RecycleFails(a) \/ Shelf!DeleteCommit(a) \/ Shelf!DeleteFails(a) \/ Shelf!UndoEnds(a)
    \/ Shelf!Forget(a) \/ Shelf!ForgetFails(a) \/ Shelf!UnlinkEnds(a)
    \/ \E m \in shelfActor[a].todo : Shelf!Recycle(a, m) \/ Shelf!Unlink(a, m)
    \/ \E m \in shelfActor[a].moved : Shelf!Restore(a, m) \/ Shelf!RestoreFails(a, m)
  BY DEF Shelf!Delete
<1>2. ASSUME Shelf!DeleteBegin(a, DOMAIN shelfRows) \/ \E r \in DOMAIN shelfRows : Shelf!DeleteBegin(a, {r})
      PROVE  Sane'
  <2>1. PICK ids \in SUBSET DOMAIN shelfRows : Shelf!DeleteBegin(a, ids)
    BY <1>2
  <2> QED
    BY <2>1, DeleteStarts
<1> QED
  BY <1>1, <1>2, RecycleKeeps, GiveUp, DeleteCommits, RestoreKeeps, RestoreFailing, ForgetKeeps,
     UnlinkKeeps

(* The owner, a change of the path, a removal that keeps the files, a crash. *)
LEMMA DisturbedStands ==
  ASSUME Sized, Calm(shelfRegime), Sane, Shelf!MayBegin("api"), Disturbs,
         shelfRegime' = shelfRegime, Stands', shelfLimits' = [shelfLimits EXCEPT !.acts = @ + 1],
         shelfBin' = shelfBin, shelfFiled' = shelfFiled,
         Steady(Shelf!Idle, shelfDisk', shelfRows', shelfExcused')
  PROVE  Sane'
<1> DEFINE v == shelfActor'["api"]
<1>1. /\ \A b \in Shelf!Actors : shelfActor[b].at = "idle"
      /\ BinFiled(Shelf!Idle, shelfBin, shelfFiled, shelfLimits)
  BY Before, Three
<1>2. \A b \in Shelf!Actors : shelfActor'[b].at = "idle"
  BY <1>1, Disturbed DEF Sized
<1>3. v.at = "idle"
  BY <1>2, Three
<1> HIDE DEF v
<1>4. shelfLimits'.faults = shelfLimits.faults /\ shelfLimits'.crashes = shelfLimits.crashes
  BY Charges DEF Sane, Stands
<1>5. BinFiled(v, shelfBin', shelfFiled', shelfLimits')
  <2>1. BinFiled(Shelf!Idle, shelfBin', shelfFiled', shelfLimits')
    BY <1>1, <1>4 DEF BinFiled
  <2> QED
    BY <2>1, Carefree
<1>6. Steady(v, shelfDisk', shelfRows', shelfExcused')
  BY Carefree
<1>7. Flow(v, shelfRegime, shelfDisk', shelfRows', shelfHome', shelfExcused', shelfGone',
           shelfLimits'.faults)
  BY <1>3, FlowHere
<1>8. Under("api")'
  BY <1>2, <1>5, <1>6, <1>7 DEF Under, v
<1> QED
  BY <1>8, Three DEF Sane

LEMMA OwnerKeeps == ASSUME NamesHold, Sized, Calm(shelfRegime), Sane, Shelf!Owner PROVE Sane'
<1> DEFINE d == shelfDisk
           rs == shelfRows
<1>0. /\ Counts(shelfLimits) /\ shelfExcused \in BOOLEAN /\ Stands /\ shelfRegime \in FileRegimes
      /\ DiskTold(shelfRegime, d) /\ RowsTold(shelfRegime, rs) /\ Tied(d, rs)
      /\ shelfHome \in shelfRegime.dirs \cup {Shelf!NoHome}
      /\ shelfBin \cup shelfFiled \cup shelfGone \cup shelfSeen \subseteq Contents
      /\ \A x \in shelfSeen : x \in Shelf!Range(d) \cup shelfBin \cup shelfGone
  BY DEF Sane, Stands, Sized, Shelf!ContentKept, Shelf!OnDisk
<1>1. ASSUME NEW p, Shelf!OwnerAdds(p) PROVE Sane'
  <2> DEFINE c == shelfRegime.arrivals[p]
             new == Shelf!With(d, p, c)
  <2>1. /\ Shelf!MayBegin("api") /\ Disturbs /\ p \in DOMAIN shelfRegime.arrivals /\ p \notin DOMAIN d
        /\ shelfDisk' = new /\ shelfSeen' = shelfSeen \cup {c}
        /\ shelfLimits' = [shelfLimits EXCEPT !.acts = @ + 1]
        /\ UNCHANGED <<shelfRows, shelfHome, shelfBin, shelfFiled, shelfGone, shelfExcused, shelfRegime>>
    BY <1>1 DEF Shelf!OwnerAdds, Disturbs
  <2>2. /\ Triple(p) /\ p[2] \in DOMAIN Denotes /\ ~Shelf!Hidden(p) /\ c \in Contents
        /\ Comic(shelfRegime, Denotes[p[2]], c)
    <3>1. Offered(shelfRegime, p, c)
      BY <2>1 DEF Offered
    <3>2. Triple(p) /\ p[2] \in DOMAIN Denotes /\ ~Shelf!Hidden(p) /\ c \in Contents
      BY <1>0, <2>1, <3>1, OfferedFacts
    <3>3. Comic(shelfRegime, Denotes[p[2]], c)
      BY <2>1, <3>1 DEF Comic
    <3> QED
      BY <3>2, <3>3
  <2>3. DOMAIN new = DOMAIN d \cup {p}
    BY WithDomain
  <2>4. \A q \in DOMAIN new : new[q] = IF q = p THEN c ELSE d[q]
    BY <2>3, WithValue
  <2> HIDE DEF new, c
  <2>5. DiskTold(shelfRegime, new) /\ Tied(new, rs)
    BY <1>0, <2>2, <2>3, <2>4 DEF DiskTold, FileTold, Tied
  <2>6. c \in Shelf!Range(new) /\ \A x \in Shelf!Range(d) : x \in Shelf!Range(new)
    <3>1. \A q \in DOMAIN d : \E y \in DOMAIN new : new[y] = d[q]
      BY <2>1, <2>3, <2>4
    <3>2. Shelf!Range(d) \subseteq Shelf!Range(new)
      BY <3>1, RangeKept
    <3>3. p \in DOMAIN new /\ new[p] = c
      BY <2>3, <2>4
    <3> QED
      BY <3>2, <3>3 DEF Shelf!Range
  <2>7. Counts(shelfLimits')
    BY <1>0, <2>1, Charges
  <2>8. Stands'
    <3>1. \A x \in shelfSeen' : x \in Contents /\ x \in Shelf!Range(new) \cup shelfBin \cup shelfGone
      BY <1>0, <2>1, <2>2, <2>6
    <3> QED
      BY <1>0, <2>1, <2>5, <2>7, <3>1, StandsAnew
  <2>9. Steady(Shelf!Idle, new, rs, shelfExcused)
    <3>1. Steady(Shelf!Idle, d, rs, shelfExcused)
      BY <2>1, Before, Three
    <3> QED
      BY <2>3, <3>1, IdleIs DEF Steady, InFlight
  <2> QED
    BY <2>1, <2>8, <2>9, DisturbedStands
<1>2. ASSUME NEW p, Shelf!OwnerRemoves(p) PROVE Sane'
  <2> DEFINE new == Shelf!Without(d, {p})
  <2>1. /\ Shelf!MayBegin("api") /\ Disturbs /\ p \in DOMAIN d
        /\ shelfDisk' = new /\ shelfGone' = shelfGone \cup {d[p]} /\ shelfExcused' = TRUE
        /\ shelfLimits' = [shelfLimits EXCEPT !.acts = @ + 1]
        /\ UNCHANGED <<shelfRows, shelfHome, shelfBin, shelfFiled, shelfSeen, shelfRegime>>
    BY <1>2 DEF Shelf!OwnerRemoves, Disturbs
  <2>2. DOMAIN new = DOMAIN d \ {p} /\ PartOf(new, d)
    BY FewerStay
  <2> HIDE DEF new
  <2>3. DiskTold(shelfRegime, new) /\ Tied(new, rs)
    BY <1>0, <2>2, FewerFiles
  <2>4. \A x \in Shelf!Range(d) : x = d[p] \/ x \in Shelf!Range(new)
    BY <2>2, OneLess
  <2>5. Counts(shelfLimits')
    BY <1>0, <2>1, Charges
  <2>6. d[p] \in Contents
    BY <1>0, <2>1 DEF DiskTold, FileTold
  <2>7. Stands'
    BY <1>0, <2>1, <2>3, <2>4, <2>5, <2>6, StandsAnew
  <2>8. Steady(Shelf!Idle, new, rs, shelfExcused')
    BY <2>1 DEF Steady
  <2> QED
    BY <2>1, <2>7, <2>8, DisturbedStands
<1> QED
  BY <1>1, <1>2 DEF Shelf!Owner

LEMMA Relocates ==
  ASSUME NEW reg, NEW rs, NEW from, NEW to, DiskTold(reg, shelfDisk), Tied(shelfDisk, rs),
         \A p \in DOMAIN shelfDisk : p[1] # to
  PROVE  LET new == Shelf!Relocated(from, to) IN
         /\ DiskTold(reg, new) /\ Tied(new, rs)
         /\ Shelf!Range(shelfDisk) \subseteq Shelf!Range(new)
<1> DEFINE d == shelfDisk
           Place(q) == IF q[1] = from THEN Shelf!InDir(q, to) ELSE q
           new == Shelf!Relocated(from, to)
<1>1. DOMAIN new = {Place(q) : q \in DOMAIN d}
  BY DEF Shelf!Relocated
<1>2. \A p \in DOMAIN new : new[p] = IF p[1] = to THEN d[Shelf!InDir(p, from)] ELSE d[p]
  BY DEF Shelf!Relocated
<1> HIDE DEF new
<1>3. ASSUME NEW q \in DOMAIN d
      PROVE  /\ Place(q) \in DOMAIN new /\ new[Place(q)] = d[q]
             /\ Place(q)[2] = q[2] /\ Triple(Place(q))
  <2>1. Triple(q)
    BY <1>3 DEF DiskTold, FileTold
  <2>2. CASE q[1] = from
    <3>1. Place(q) = <<to, q[2], q[3]>>
      BY <2>2 DEF Shelf!InDir, Shelf!Path
    <3>2. Shelf!InDir(Place(q), from) = q
      BY <2>1, <2>2, <3>1 DEF Triple, Shelf!InDir, Shelf!Path
    <3> QED
      BY <1>1, <1>2, <3>1, <3>2 DEF Triple, Shelf!Path
  <2>3. CASE q[1] # from
    BY <1>1, <1>2, <2>1, <2>3
  <2> QED
    BY <2>2, <2>3
<1>4. \A p \in DOMAIN new : \E q \in DOMAIN d : new[p] = d[q] /\ p[2] = q[2] /\ Triple(p)
  BY <1>1, <1>3
<1>5. \A q \in DOMAIN d : \E p \in DOMAIN new : new[p] = d[q]
  BY <1>3
<1> HIDE DEF Place
<1>6. DiskTold(reg, new)
  BY <1>4 DEF DiskTold, FileTold, Shelf!Hidden
<1>7. Tied(new, rs)
  BY <1>4 DEF Tied, Shelf!Hidden
<1>8. Shelf!Range(d) \subseteq Shelf!Range(new)
  BY <1>5, RangeKept
<1> QED
  BY <1>6, <1>7, <1>8 DEF new

LEMMA EditKeeps == ASSUME NamesHold, Sized, Calm(shelfRegime), Sane, Shelf!Edit PROVE Sane'
<1> DEFINE d == shelfDisk
           rs == shelfRows
           w == shelfActor["api"]
<1>0. /\ Counts(shelfLimits) /\ shelfExcused \in BOOLEAN /\ Stands /\ shelfRegime \in FileRegimes
      /\ DiskTold(shelfRegime, d) /\ RowsTold(shelfRegime, rs) /\ Tied(d, rs)
      /\ shelfHome \in shelfRegime.dirs \cup {Shelf!NoHome}
      /\ shelfBin \cup shelfFiled \cup shelfGone \cup shelfSeen \subseteq Contents
      /\ \A x \in shelfSeen : x \in Shelf!Range(d) \cup shelfBin \cup shelfGone
  BY DEF Sane, Stands, Sized, Shelf!ContentKept, Shelf!OnDisk
<1>1. ASSUME NEW to \in shelfRegime.dirs, Shelf!EditMove(to) PROVE Sane'
  <2> DEFINE c == [Shelf!Idle EXCEPT !.at = "relocated", !.cur = {[to |-> to]}]
             new == Shelf!Relocated(shelfHome, to)
  <2>1. /\ Shelf!Begin("api", c) /\ shelfDisk' = new /\ shelfExcused' = TRUE
        /\ \A p \in DOMAIN d : p[1] # to
        /\ UNCHANGED <<shelfRows, shelfHome, shelfBin, shelfFiled, shelfGone, shelfSeen, shelfRegime>>
    BY <1>1 DEF Shelf!EditMove
  <2>2. Cell(c) /\ c.at = "relocated" /\ c.cur = {[to |-> to]}
    BY IdleIs DEF Cell, Fields
  <2>3. DiskTold(shelfRegime, new) /\ Tied(new, rs) /\ Shelf!Range(d) \subseteq Shelf!Range(new)
    BY <1>0, <2>1, Relocates
  <2> HIDE DEF c, new
  <2>4. /\ Shelf!MayBegin("api") /\ shelfLimits' = [shelfLimits EXCEPT !.acts = @ + 1]
    BY <2>1 DEF Shelf!Begin
  <2>5. /\ Counts(shelfLimits') /\ shelfLimits'.faults = shelfLimits.faults
        /\ shelfLimits'.crashes = shelfLimits.crashes
    BY <1>0, <2>4, Charges
  <2>6. Stands'
    BY <1>0, <2>1, <2>3, <2>5, StandsAnew
  <2>7. Relocating(c, shelfRegime, shelfExcused')
    BY <1>1, <2>1, <2>2 DEF Relocating
  <2>8. Flow(c, shelfRegime, new, rs, shelfHome, shelfExcused', shelfGone, shelfLimits'.faults)
    BY <2>2, <2>7, FlowHere
  <2>9. Steady(c, new, rs, shelfExcused')
    BY <2>1 DEF Steady
  <2>10. BinFiled(c, shelfBin, shelfFiled, shelfLimits')
    <3>1. BinFiled(Shelf!Idle, shelfBin, shelfFiled, shelfLimits)
      BY <2>4, Before, Three
    <3>2. BinFiled(Shelf!Idle, shelfBin, shelfFiled, shelfLimits')
      BY <2>5, <3>1 DEF BinFiled
    <3> QED
      BY <3>2, Carefree
  <2>11. Moves("api", c)
    BY <2>1, <2>2 DEF Moves
  <2> QED
    BY <2>1, <2>6, <2>8, <2>9, <2>10, <2>11, Landing, Three
<1>2. w.at = "relocated" =>
        /\ Relocating(w, shelfRegime, shelfExcused) /\ Steady(Shelf!Idle, d, rs, shelfExcused)
        /\ BinFiled(Shelf!Idle, shelfBin, shelfFiled, shelfLimits)
  BY Goings, Three, Carefree DEF Under, Flow
<1>3. Flow(Shelf!Idle, shelfRegime, shelfDisk', shelfRows', shelfHome', shelfExcused', shelfGone',
           shelfLimits'.faults)
  BY FlowHere, IdleIs
<1>4. CASE Shelf!EditCommit
  <2> DEFINE e == CHOOSE x \in w.cur : TRUE
  <2>1. /\ w.at = "relocated" /\ shelfHome' = e.to /\ Shelf!Goto("api", Shelf!Idle)
        /\ UNCHANGED <<shelfDisk, shelfRows, shelfBin, shelfFiled, shelfGone, shelfSeen, shelfExcused,
                       shelfRegime, shelfLimits>>
    BY <1>4 DEF Shelf!EditCommit, Shelf!At
  <2>2. w.cur # {} /\ \A x \in w.cur : x.to \in shelfRegime.dirs
    BY <1>2, <2>1 DEF Relocating
  <2>3. e \in w.cur
    BY <2>2
  <2> HIDE DEF e
  <2>4. shelfHome' \in shelfRegime.dirs
    BY <2>1, <2>2, <2>3
  <2>5. Stands'
    BY <1>0, <2>1, <2>4, StandsAnew
  <2>6. Moves("api", Shelf!Idle)
    BY <2>1, IdleIs DEF Moves
  <2> QED
    BY <1>2, <1>3, <2>1, <2>5, <2>6, Landing, Three
<1>5. CASE Shelf!EditCommitFails
  <2>1. w.at = "relocated" /\ Shelf!Fault /\ Shelf!Goto("api", Shelf!Idle) /\ Untouched
    BY <1>5 DEF Shelf!EditCommitFails, Shelf!At, Untouched
  <2>2. Charged /\ Moves("api", Shelf!Idle)
    BY <1>0, <2>1, Charges, IdleIs DEF Moves
  <2>3. Flow(Shelf!Idle, shelfRegime, d, rs, shelfHome, shelfExcused', shelfGone, shelfLimits'.faults)
    BY FlowHere, IdleIs
  <2> QED
    BY <1>2, <2>1, <2>2, <2>3, Passes, Three
<1>6. CASE Shelf!RemoveSeries
  <2>1. /\ Shelf!MayBegin("api") /\ Disturbs /\ shelfHome' = Shelf!NoHome /\ shelfRows' = <<>>
        /\ shelfLimits' = [shelfLimits EXCEPT !.acts = @ + 1]
        /\ UNCHANGED <<shelfDisk, shelfBin, shelfFiled, shelfGone, shelfSeen, shelfExcused, shelfRegime>>
    BY <1>6 DEF Shelf!RemoveSeries, Disturbs
  <2>2. DOMAIN shelfRows' = {}
    BY <2>1
  <2>3. RowsTold(shelfRegime, shelfRows') /\ Tied(d, shelfRows')
        /\ Steady(Shelf!Idle, d, shelfRows', shelfExcused)
    BY <2>2 DEF RowsTold, Tied, Steady
  <2>4. Counts(shelfLimits')
    BY <1>0, <2>1, Charges
  <2>5. Stands'
    BY <1>0, <2>1, <2>3, <2>4, StandsAnew
  <2> QED
    BY <2>1, <2>3, <2>5, DisturbedStands
<1> QED
  BY <1>1, <1>4, <1>5, <1>6 DEF Shelf!Edit

LEMMA CrashKeeps == ASSUME Sized, Sane, Shelf!Crash PROVE Sane'
<1> DEFINE v == shelfActor'["pp"]
<1>0. /\ Counts(shelfLimits) /\ Stands
      /\ DiskTold(shelfRegime, shelfDisk) /\ RowsTold(shelfRegime, shelfRows)
      /\ Tied(shelfDisk, shelfRows)
      /\ shelfHome \in shelfRegime.dirs \cup {Shelf!NoHome}
      /\ shelfBin \cup shelfFiled \cup shelfGone \cup shelfSeen \subseteq Contents
      /\ \A x \in shelfSeen : x \in Shelf!Range(shelfDisk) \cup shelfBin \cup shelfGone
  BY DEF Sane, Stands, Shelf!ContentKept, Shelf!OnDisk
<1>1. /\ shelfExcused' = TRUE /\ shelfLimits' = [shelfLimits EXCEPT !.crashes = @ + 1]
      /\ UNCHANGED <<shelfDisk, shelfRows, shelfHome, shelfBin, shelfFiled, shelfGone, shelfSeen,
                     shelfRegime>>
      /\ \A b \in Shelf!Actors : shelfActor'[b] = Shelf!Idle
  BY DEF Shelf!Crash
<1>2. Counts(shelfLimits') /\ shelfLimits'.crashes # 0
  BY <1>0, <1>1 DEF Counts
<1>3. Stands'
  BY <1>0, <1>1, <1>2, StandsAnew
<1>4. v.at = "idle" /\ \A b \in Shelf!Actors : shelfActor'[b].at = "idle"
  BY <1>1, IdleIs, Three
<1> HIDE DEF v
<1>5. /\ Flow(v, shelfRegime, shelfDisk', shelfRows', shelfHome', shelfExcused', shelfGone',
              shelfLimits'.faults)
      /\ Steady(v, shelfDisk', shelfRows', shelfExcused')
      /\ BinFiled(v, shelfBin', shelfFiled', shelfLimits')
  BY <1>1, <1>2, <1>4, FlowHere DEF Steady, BinFiled
<1>6. Under("pp")'
  BY <1>1, <1>4, <1>5 DEF Under, v
<1> QED
  BY <1>3, <1>6, Three DEF Sane

LEMMA ShelfStarts == ASSUME Shelf!Init PROVE ShelfInv
<1> DEFINE d == shelfRegime.disk
           rs == shelfRegime.rows
<1>1. Sized
  BY SizedInit
<1>2. /\ shelfDisk = d /\ shelfRows = rs /\ shelfHome \in {p[1] : p \in DOMAIN d}
      /\ shelfBin = {} /\ shelfFiled = {} /\ shelfGone = {} /\ shelfSeen = Shelf!Range(d)
      /\ shelfActor = [a \in Shelf!Actors |-> Shelf!Idle] /\ shelfExcused = FALSE
      /\ shelfLimits = [acts |-> 0, faults |-> 0, crashes |-> 0] /\ shelfRegime \in FileRegimes
  BY DEF Shelf!Init
<1>3. /\ {p[1] : p \in DOMAIN d} \subseteq shelfRegime.dirs
      /\ \A n \in DOMAIN rs : /\ rs[n].path \in DOMAIN d /\ rs[n].c = d[rs[n].path]
  <2>1. \A r \in FileRegimes : {p[1] : p \in DOMAIN r.disk} \subseteq r.dirs
    BY LibraryAssumption DEF Shelf!RegimesAssumption
  <2>2. \A n \in DOMAIN rs :
          /\ rs[n] = [path |-> rs[n].path, c |-> shelfRegime.disk[rs[n].path], issue |-> rs[n].issue]
          /\ rs[n].path \in DOMAIN shelfRegime.disk
    BY <1>2, LibraryAssumption DEF Shelf!RegimesAssumption
  <2>3. ASSUME NEW n \in DOMAIN rs PROVE rs[n].c = d[rs[n].path]
    <3>1. rs[n] = [path |-> rs[n].path, c |-> shelfRegime.disk[rs[n].path], issue |-> rs[n].issue]
      BY <2>2
    <3> DEFINE x == rs[n].path
               e == shelfRegime.disk[x]
               i == rs[n].issue
    <3>2. rs[n] = [path |-> x, c |-> e, issue |-> i]
      BY <3>1
    <3> HIDE DEF x, e, i
    <3>3. rs[n].c = e
      BY <3>2
    <3> QED
      BY <3>3 DEF e, x
  <2> QED
    BY <1>2, <2>1, <2>2, <2>3
<1>4. \A p \in DOMAIN d : /\ Triple(p) /\ p[2] \in DOMAIN Denotes /\ ~Shelf!Hidden(p)
                          /\ d[p] \in Contents /\ Comic(shelfRegime, Denotes[p[2]], d[p])
  <2> TAKE p \in DOMAIN d
  <2>1. Offered(shelfRegime, p, d[p]) /\ p \in DOMAIN d \cup DOMAIN shelfRegime.arrivals
    BY DEF Offered
  <2>2. Comic(shelfRegime, Denotes[p[2]], d[p])
    BY <2>1 DEF Comic
  <2> QED
    BY <1>2, <2>1, <2>2, OfferedFacts
<1> SUFFICES ASSUME Calm(shelfRegime) PROVE Sane
  BY <1>1 DEF ShelfInv
<1>5. \A n \in DOMAIN rs : Denotes[rs[n].path[2]] = rs[n].issue
  BY DEF Calm
<1>6. DiskTold(shelfRegime, d)
  BY <1>4 DEF DiskTold, FileTold
<1>7. RowsTold(shelfRegime, rs)
  BY <1>3, <1>4, <1>5 DEF RowsTold, RowTold
<1>8. Tied(d, rs)
  BY <1>4 DEF Tied
<1> HIDE DEF d, rs
<1>9. Counts(shelfLimits) /\ shelfExcused \in BOOLEAN
  BY <1>2 DEF Counts
<1>10. Shelf!Range(d) \subseteq Contents
  BY <1>4 DEF Shelf!Range
<1>11. Stands
  BY <1>2, <1>3, <1>6, <1>7, <1>8, <1>9, <1>10 DEF Stands, Shelf!ContentKept, Shelf!OnDisk
<1>12. \A b \in Shelf!Actors : shelfActor[b].at = "idle"
  BY <1>2, IdleIs
<1>13. shelfActor["pp"].at = "idle"
  BY <1>12, Three
<1>14. Flow(shelfActor["pp"], shelfRegime, shelfDisk, shelfRows, shelfHome, shelfExcused, shelfGone,
            shelfLimits.faults)
  BY <1>13, FlowHere
<1>15. /\ Steady(shelfActor["pp"], shelfDisk, shelfRows, shelfExcused)
       /\ BinFiled(shelfActor["pp"], shelfBin, shelfFiled, shelfLimits)
  BY <1>2, <1>3 DEF Steady, BinFiled
<1>16. Under("pp")
  BY <1>12, <1>14, <1>15 DEF Under
<1> QED
  BY <1>11, <1>16, Three DEF Sane

LEMMA ShelfStep ==
  ASSUME NamesHold, ShelfInv, Clear, [Shelf!Next]_shelfVars
  PROVE  ShelfInv'
<1>1. Sized /\ Sized'
  BY SizedStep DEF ShelfInv
<1>2. shelfRegime' = shelfRegime
  <2>1. CASE Shelf!Crash
    BY <1>1, <2>1, Crashed
  <2>2. CASE UNCHANGED shelfVars
    BY <2>2 DEF shelfVars
  <2>3. CASE Shelf!Scan
    BY <2>3 DEF Shelf!Scan, Shelf!ScanBegin, Shelf!ScanWrite
  <2>4. CASE Shelf!Rescan
    BY <2>4 DEF Shelf!Rescan, Shelf!RescanBegin, Shelf!RescanLook, Shelf!RescanWalk,
       Shelf!RescanPrune, Shelf!ImportOne, Shelf!ImportFails, Shelf!RescanCommit,
       Shelf!RescanCommitFails
  <2> QED
    BY <1>1, <2>1, <2>2, <2>3, <2>4, StepForms DEF Stepped, Elsewhere, Grown
<1> SUFFICES ASSUME Calm(shelfRegime) PROVE Sane'
  BY <1>1, <1>2 DEF ShelfInv
<1>3. Sane
  BY DEF ShelfInv
<1>4. CASE UNCHANGED shelfVars
  BY <1>3, <1>4 DEF shelfVars, Sane, Stands, Under, Shelf!ContentKept, Shelf!OnDisk
<1> QED
  BY <1>1, <1>3, <1>4, ScanKeeps, RescanKeeps, RenameKeeps, ConvertKeeps, DeleteKeeps, EditKeeps,
     OwnerKeeps, CrashKeeps DEF Shelf!Next

LEMMA SoundThen == ASSUME ShelfInv, Calm(shelfRegime) PROVE FilesSound
<1>1. Sized /\ Stands
  BY DEF ShelfInv, Sane
<1>2. Shelf!TypeOK
  <2>1. Shelf!Range(shelfDisk) \subseteq Contents
    BY <1>1 DEF Stands, DiskTold, FileTold, Shelf!Range
  <2>2. \A r \in DOMAIN shelfRows : shelfRows[r].c \in Contents
    BY <1>1 DEF Stands, RowsTold, RowTold
  <2> QED
    BY <1>1, <2>1, <2>2 DEF Shelf!TypeOK, Stands, Sized
<1>3. ASSUME Shelf!Quiet
      PROVE  /\ ~shelfExcused => \A r \in DOMAIN shelfRows :
                                    /\ shelfRows[r].path \in DOMAIN shelfDisk
                                    /\ shelfDisk[shelfRows[r].path] = shelfRows[r].c
             /\ shelfLimits.crashes = 0 /\ shelfLimits.faults <= 1 => shelfBin \subseteq shelfFiled
  <2>1. PICK a \in Shelf!Actors : Under(a)
    BY DEF ShelfInv, Sane
  <2>2. shelfActor[a].at = "idle"
    BY <1>3 DEF Shelf!Quiet, Shelf!At
  <2>3. /\ ~shelfExcused => \A r \in DOMAIN shelfRows : shelfRows[r].path \in DOMAIN shelfDisk
        /\ shelfLimits.crashes = 0 /\ shelfLimits.faults <= 1 => shelfBin \subseteq shelfFiled
    BY <2>1, <2>2 DEF Under, Steady, InFlight, BinFiled
  <2>4. ASSUME NEW r \in DOMAIN shelfRows, shelfRows[r].path \in DOMAIN shelfDisk
        PROVE  shelfDisk[shelfRows[r].path] = shelfRows[r].c
    <3>1. DiskTold(shelfRegime, shelfDisk) /\ Tied(shelfDisk, shelfRows)
          /\ RowTold(shelfRegime, r, shelfRows[r])
      BY <1>1 DEF Stands, RowsTold
    <3> QED
      BY <2>4, <3>1, RowsFile
  <2> QED
    BY <2>3, <2>4
<1>4. Shelf!OneFaultHarmless
  BY <1>3 DEF Shelf!OneFaultHarmless
<1> QED
  BY <1>1, <1>2, <1>4 DEF FilesSound, Stands

\* No comic is lost and one failure leaves nothing inconsistent, through every
\* rescan, rename, conversion, deletion and change of the path, every failure and
\* crash (_move_file_and_row's compensation, the order of a conversion, the
\* deletion that goes through the bin), for flows that run one at a time over a
\* library with one comic to an issue.  A rename must find its names free: it
\* puts a file over whatever lies there.
THEOREM FilesStaySound ==
  ASSUME NamesHold
  PROVE  Spec => ([]Clear => [](Calm(shelfRegime) => FilesSound))
<1>1. Init => ShelfInv
  BY ShelfStarts DEF Init
<1>2. ShelfInv /\ Clear /\ [Next]_vars => ShelfInv'
  BY OneActs, ShelfStep
<1>3. ShelfInv => (Calm(shelfRegime) => FilesSound)
  BY SoundThen
<1> QED
  BY <1>1, <1>2, <1>3, PTL DEF Spec
===============================================================================
