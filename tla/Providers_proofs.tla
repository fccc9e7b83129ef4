--------------------------- MODULE Providers_proofs ---------------------------
(***************************************************************************)
(* What the gates, the walks and the requests of the provider components   *)
(* keep, for every value of their constants.  The module is a section per  *)
(* component: its inductive invariant, a lemma for its first states and    *)
(* one for its steps, and the theorem.                                     *)
(***************************************************************************)
EXTENDS Providers, FiniteSetTheorems, SequenceTheorems, WellFoundedInduction, TLAPS

(* While one component runs the others rest: each step is one of each       *)
(* component or leaves its variables alone.                                 *)
LEMMA OneActs ==
  [Next]_vars => /\ [Comicvine!Next]_cvVars /\ [Pull!Next]_pullVars /\ [Getcomics!Next]_gcVars
                 /\ [Review!Next]_storeVars /\ [Indexing!Next]_indexVars
<1> SUFFICES ASSUME [Next]_vars
             PROVE  /\ [Comicvine!Next]_cvVars /\ [Pull!Next]_pullVars
                    /\ [Getcomics!Next]_gcVars /\ [Review!Next]_storeVars
                    /\ [Indexing!Next]_indexVars
  OBVIOUS
<1> USE DEF cvVars, pullVars, gcVars, storeVars, indexVars
<1>1. CASE AskComicvine
  BY <1>1 DEF AskComicvine
<1>2. CASE FollowWeeks
  BY <1>2 DEF FollowWeeks
<1>3. CASE SearchGetcomics
  BY <1>3 DEF SearchGetcomics
<1>4. CASE ReviewPurchases
  BY <1>4 DEF ReviewPurchases
<1>5. CASE SearchIndexers
  BY <1>5 DEF SearchIndexers
<1>6. CASE UNCHANGED vars
  BY <1>6 DEF vars
<1> QED
  BY <1>1, <1>2, <1>3, <1>4, <1>5, <1>6 DEF Next

(***************************************************************************)
(* GetComics.                                                              *)
(***************************************************************************)
Fetching == [pc : {"idle", "gate", "asleep", "fetch", "settle"}, tier : Nat, page : Nat,
              found : Nat, left : 0..Getcomics!Longest, failed : BOOLEAN]

FetchTypes == /\ gcAge \in 0..Getcomics!None /\ gcSince \in 0..Getcomics!Longest
              /\ gcLock \in Fetchers \cup {Getcomics!Free} /\ gcBacking \in BOOLEAN
              /\ gcCall \in [Fetchers -> Fetching]

(* The stamp in the file is that of the last fetch let through.             *)
Stamped == IF gcAge = Getcomics!None THEN gcSince = Getcomics!Longest ELSE gcAge = gcSince

(* Only the holder of the gate sleeps, and long enough.                     *)
Sleeping == \A c \in Fetchers : gcCall[c].pc = "asleep" =>
              gcLock = c /\ gcSince + gcCall[c].left >= FetchInterval

FetchInv == FetchTypes /\ Stamped /\ Sleeping

LEMMA NoFetch == Getcomics!NoCall \in Fetching /\ Getcomics!NoCall.pc = "idle"
BY ProvidersAssumption
   DEF Getcomics!PolitenessAssumption, Fetching, Getcomics!NoCall, Getcomics!Longest

LEMMA FetchInit == ASSUME Getcomics!Init PROVE FetchInv
<1>1. gcCall \in [Fetchers -> Fetching] /\ \A c \in Fetchers : gcCall[c].pc = "idle"
  BY NoFetch DEF Getcomics!Init
<1>2. /\ gcAge \in 0..Getcomics!None /\ gcSince \in 0..Getcomics!Longest
      /\ Stamped
  BY ProvidersAssumption
     DEF Getcomics!PolitenessAssumption, Getcomics!Init, Stamped, Getcomics!None, Getcomics!Longest
<1>3. gcLock \in Fetchers \cup {Getcomics!Free} /\ gcBacking \in BOOLEAN
  BY DEF Getcomics!Init
<1> QED
  BY <1>1, <1>2, <1>3 DEF FetchInv, FetchTypes, Sleeping

(* A search goes on with its next page or its next query, or settles.       *)
LEMMA SearchGoesOn ==
  ASSUME NEW q \in Fetching
  PROVE  /\ [q EXCEPT !.pc = "gate", !.page = @ + 1] \in Fetching
         /\ [q EXCEPT !.pc = "gate", !.page = @ + 1].pc = "gate"
         /\ Getcomics!NextQuery(q) \in Fetching /\ Getcomics!NextQuery(q).pc \in {"gate", "settle"}
<1> USE ProvidersAssumption DEF Fetching, Getcomics!PolitenessAssumption
<1>1. q.page + 1 \in Nat /\ q.tier + 1 \in Nat
  OBVIOUS
<1>2. ASSUME NEW n \in Nat
      PROVE  /\ [q EXCEPT !.pc = "gate", !.page = n] \in Fetching
             /\ [q EXCEPT !.pc = "gate", !.page = n].pc = "gate"
             /\ [q EXCEPT !.pc = "gate", !.tier = n, !.page = 1] \in Fetching
             /\ [q EXCEPT !.pc = "gate", !.tier = n, !.page = 1].pc = "gate"
  OBVIOUS
<1>3. [q EXCEPT !.pc = "settle"] \in Fetching /\ [q EXCEPT !.pc = "settle"].pc = "settle"
  OBVIOUS
<1>4. /\ [q EXCEPT !.pc = "gate", !.page = @ + 1] = [q EXCEPT !.pc = "gate", !.page = q.page + 1]
      /\ [q EXCEPT !.pc = "gate", !.tier = @ + 1, !.page = 1]
           = [q EXCEPT !.pc = "gate", !.tier = q.tier + 1, !.page = 1]
  OBVIOUS
<1>5. Getcomics!NextQuery(q) \in Fetching /\ Getcomics!NextQuery(q).pc \in {"gate", "settle"}
  BY <1>1, <1>2, <1>3, <1>4 DEF Getcomics!NextQuery
<1> QED
  BY <1>1, <1>2, <1>4, <1>5

LEMMA FetchGoesOn ==
  ASSUME NEW q \in Fetching, NEW n \in Nat
  PROVE  /\ [q EXCEPT !.found = n] \in Fetching
         /\ [q EXCEPT !.pc = "settle", !.found = 0, !.failed = TRUE] \in Fetching
         /\ [q EXCEPT !.pc = "settle", !.found = 0, !.failed = TRUE].pc = "settle"
BY DEF Fetching

LEMMA FetchStep ==
  ASSUME Writable = {TRUE}, FetchInv, [Getcomics!Next]_gcVars
  PROVE  FetchInv'
<1> USE ProvidersAssumption
    DEF Getcomics!PolitenessAssumption, FetchInv, FetchTypes, Stamped, Sleeping, Fetching,
        Getcomics!None, Getcomics!Longest, Getcomics!Free
<1>1. ASSUME NEW c \in Fetchers, Getcomics!Search(c) PROVE FetchInv'
  <2> DEFINE q == [Getcomics!NoCall EXCEPT !.pc = "gate", !.tier = 1, !.page = 1]
  <2>1. q \in Fetching /\ q.pc = "gate"
    BY NoFetch
  <2>2. gcCall' \in {gcCall, [gcCall EXCEPT ![c] = q]} /\ UNCHANGED <<gcAge, gcLock, gcBacking, gcSince>>
    BY <1>1 DEF Getcomics!Search
  <2> HIDE DEF q, Fetching
  <2> QED
    BY <2>1, <2>2
<1>2. ASSUME NEW c \in Fetchers, Getcomics!Gate(c) PROVE FetchInv'
  <2>1. PICK jitter \in 0..Jitter :
          gcCall' = [gcCall EXCEPT ![c].pc = "asleep", ![c].left = Getcomics!Wait(jitter)]
    BY <1>2 DEF Getcomics!Gate
  <2>2. gcLock = Getcomics!Free /\ gcLock' = c /\ UNCHANGED <<gcAge, gcBacking, gcSince>>
    BY <1>2 DEF Getcomics!Gate, Getcomics!MayEnter
  <2>3. Getcomics!Wait(jitter) \in 0..Getcomics!Longest /\ gcSince + Getcomics!Wait(jitter) >= FetchInterval
    BY DEF Getcomics!Wait
  <2> HIDE DEF Fetching
  <2> DEFINE w == Getcomics!Wait(jitter)
  <2>4. \A d \in Fetchers : d # c => gcCall'[d] = gcCall[d] /\ gcCall[d].pc # "asleep"
    BY <2>1, <2>2
  <2>5. gcCall'[c] = [gcCall[c] EXCEPT !.pc = "asleep", !.left = Getcomics!Wait(jitter)]
    BY <2>1
  <2>6. gcCall'[c] \in Fetching /\ gcCall'[c].left = w
    <3>1. w \in 0..Getcomics!Longest /\ gcCall[c] \in Fetching
      BY <2>3
    <3> HIDE DEF w, Getcomics!Longest
    <3>2. gcCall'[c] = [gcCall[c] EXCEPT !.pc = "asleep", !.left = w]
      BY <2>5 DEF w
    <3> QED
      BY <3>1, <3>2 DEF Fetching
  <2>7. gcCall' \in [Fetchers -> Fetching]
    BY <2>1, <2>4, <2>6
  <2> QED
    BY <2>2, <2>3, <2>4, <2>6, <2>7
<1>3. ASSUME NEW c \in Fetchers, Getcomics!Wake(c) PROVE FetchInv'
  BY <1>3 DEF Getcomics!Wake, Getcomics!Save, Getcomics!Go
<1>4. ASSUME NEW c \in Fetchers, Getcomics!Fetch(c) PROVE FetchInv'
  <2>1. UNCHANGED <<gcAge, gcLock, gcSince>> /\ gcBacking' \in BOOLEAN /\ gcCall[c].pc = "fetch"
    BY <1>4 DEF Getcomics!Fetch
  <2>2. \E q \in Fetching : q.pc \in {"gate", "settle"} /\ gcCall' = [gcCall EXCEPT ![c] = q]
    <3>1. ASSUME NEW fresh \in BOOLEAN, NEW more \in BOOLEAN, Getcomics!Page(c, fresh, more) 
          PROVE  \E q \in Fetching : q.pc \in {"gate", "settle"} /\ gcCall' = [gcCall EXCEPT ![c] = q]
      <4> DEFINE n == IF fresh THEN 1 ELSE gcCall[c].found
                 q == [gcCall[c] EXCEPT !.found = IF fresh THEN 1 ELSE @]
      <4>1. q \in Fetching
        <5>1. gcCall[c] \in Fetching /\ gcCall[c].found \in Nat
          OBVIOUS
        <5>2. q = [gcCall[c] EXCEPT !.found = n] /\ n \in Nat
          BY <5>1
        <5> HIDE DEF n, q, Fetching
        <5> QED
          BY <5>1, <5>2, FetchGoesOn
      <4> QED
        BY <3>1, <4>1, SearchGoesOn DEF Getcomics!Page
    <3>2. CASE Getcomics!FetchFails(c)
      <4> DEFINE q == [gcCall[c] EXCEPT !.pc = "settle", !.found = 0, !.failed = TRUE]
      <4>1. q \in Fetching /\ q.pc = "settle"
        <5> HIDE DEF Fetching
        <5>1. gcCall[c] \in Fetching
          OBVIOUS
        <5> QED
          BY <5>1, FetchGoesOn
      <4> QED
        BY <3>2, <4>1 DEF Getcomics!FetchFails
    <3> QED
      BY <1>4, <3>1, <3>2 DEF Getcomics!Fetch
  <2> HIDE DEF Fetching
  <2> QED
    BY <2>1, <2>2
<1>5. ASSUME NEW c \in Fetchers, Getcomics!Settle(c) PROVE FetchInv'
  BY <1>5 DEF Getcomics!Settle, Getcomics!NoCall
<1>6. ASSUME NEW c \in Fetchers, Getcomics!Cancel(c) PROVE FetchInv'
  BY <1>6 DEF Getcomics!Cancel, Getcomics!NoCall
<1>7. CASE Getcomics!BackoffEnds
  BY <1>7 DEF Getcomics!BackoffEnds
<1>8. CASE Getcomics!Crash
  BY <1>8 DEF Getcomics!Crash, Getcomics!NoCall
<1>9. CASE Getcomics!Time
  BY <1>9 DEF Getcomics!Time
<1>10. CASE UNCHANGED gcVars
  BY <1>10 DEF gcVars
<1> QED
  BY <1>1, <1>2, <1>3, <1>4, <1>5, <1>6, <1>7, <1>8, <1>9, <1>10 DEF Getcomics!Next

(* Whichever searches the fetches belong to and whatever restart lies       *)
(* between them, when the stamp can be written.                             *)
THEOREM FetchesAreSpaced ==
  ASSUME Writable = {TRUE}
  PROVE  Spec => PagesSpaced
<1>1. Init => FetchInv
  BY FetchInit DEF Init
<1>2. FetchInv /\ [Next]_vars => FetchInv'
  BY OneActs, FetchStep
<1>3. FetchInv => (focus = "getcomics" => Getcomics!TypeOK)
  BY DEF FetchInv, FetchTypes, Fetching, Getcomics!TypeOK
<1>4. FetchInv /\ [Next]_vars
        => [\A c \in Fetchers : Getcomics!Wake(c) => gcSince >= FetchInterval]_(Getcomics!vars)
  BY ProvidersAssumption
     DEF FetchInv, FetchTypes, Sleeping, Fetching, Getcomics!Wake, Getcomics!PolitenessAssumption,
         Getcomics!Longest
<1> QED
  BY <1>1, <1>2, <1>3, <1>4, PTL DEF Spec, PagesSpaced, Getcomics!PagesSpaced

(***************************************************************************)
(* IndexerSearch: the fan and the gates.                                   *)
(***************************************************************************)
Working == [pc : {"none", "check", "gate", "asleep", "wire", "passed", "failed", "refused", "done"},
            phase : {"caps", "query"}, cut : BOOLEAN, 
            out : {"none", "backing off", "failed", "searched", "timed out"}]
Tickets == {Indexing!Free} \cup {<<s>> : s \in Searches}
Gates == [holder : Tickets, prio : Int, hot : BOOLEAN]

FanTypes == /\ indexLadder \in [Indexers -> [level : 0..MaxLevel, active : BOOLEAN]]
            /\ indexCaps \subseteq Indexers /\ indexFaulted \subseteq Indexers
            /\ indexGate \in [Indexers -> Gates]
            /\ indexTask \in [Searches -> [Indexers -> Working]]
            /\ indexSearch \in [Searches -> [pc : {"idle", "fan", "grace", "done"},
                                            fleet : SUBSET Indexers]]

AtGate == {"gate", "asleep"}
Waiting(i) == {s \in Searches : Indexing!Priority(s) /\ indexTask[s][i].pc \in AtGate}

\* The gates: the count is that of the operators' tasks at it, the holder sleeps.
GatesHeld == \A i \in Indexers :
  /\ indexGate[i].prio = Cardinality(Waiting(i))
  /\ \A s \in Searches : indexGate[i].holder = <<s>> => indexTask[s][i].pc = "asleep"

\* A failure on its way to the ladder is the indexer's own.
Blamed == \A i \in Indexers :
  /\ indexLadder[i].level > 0 => i \in indexFaulted
  /\ \A s \in Searches : indexTask[s][i].pc \in {"failed", "refused"} => i \in indexFaulted

\* Task s at indexer i goes on as q, and leaves the gate as g.
GoesOn(s, i, q, g) ==
  /\ q \in Working /\ g \in Gates
  /\ indexTask' = [indexTask EXCEPT ![s][i] = q] /\ indexGate' = [indexGate EXCEPT ![i] = g]
  /\ indexTask[s][i].pc # "none"
  /\ q.pc \in {"failed", "refused"} => i \in indexFaulted' \/ "query" \in Blowups
  /\ g.prio = indexGate[i].prio
       + (IF Indexing!Priority(s) /\ q.pc \in AtGate THEN 1 ELSE 0)
       - (IF Indexing!Priority(s) /\ indexTask[s][i].pc \in AtGate THEN 1 ELSE 0)
  /\ \A t \in Searches : g.holder = <<t>> =>
       IF t = s THEN q.pc = "asleep" ELSE indexGate[i].holder = <<t>>

LEMMA TaskGoesOn ==
  ASSUME FanTypes, NEW s \in Searches, NEW i \in Indexers, GatesHeld,
         Indexing!Task(s, i) \/ Indexing!Cancelled(s, i)
  PROVE  \E q \in Working, g \in Gates : GoesOn(s, i, q, g)
<1> DEFINE p == indexTask[s][i]
           h == indexGate[i]
           d == IF Indexing!Priority(s) THEN 1 ELSE 0
<1>1. /\ p \in Working /\ h \in Gates /\ (h.holder = <<s>> => p.pc = "asleep")
      /\ h.prio \in Int /\ <<s>> \in Tickets /\ Indexing!Free \in Tickets
      /\ \A t \in Searches : <<t>> # Indexing!Free /\ (<<t>> = <<s>> => t = s)
  BY DEF FanTypes, GatesHeld, Gates, Tickets, Indexing!Free
<1> HIDE DEF p, h
<1> SUFFICES \E q \in Working, g \in Gates :
               /\ indexTask' = [indexTask EXCEPT ![s][i] = q]
               /\ indexGate' = [indexGate EXCEPT ![i] = g]
               /\ p.pc # "none"
               /\ q.pc \in {"failed", "refused"} => i \in indexFaulted' \/ "query" \in Blowups
               /\ g.prio = h.prio + (IF q.pc \in AtGate THEN d ELSE 0)
                                  - (IF p.pc \in AtGate THEN d ELSE 0)
               /\ \A t \in Searches : g.holder = <<t>> =>
                    IF t = s THEN q.pc = "asleep" ELSE h.holder = <<t>>
  BY DEF GoesOn, p, h
<1>2. CASE Indexing!CheckBackoff(s, i) /\ indexLadder[i].active
  <2> DEFINE q == [p EXCEPT !.pc = "done", !.out = "backing off"]
             g == h
  <2>1. q \in Working /\ q.pc = "done"
    BY <1>1 DEF Working
  <2>3. /\ g \in Gates
        /\ g.prio = h.prio
        /\ g.holder = h.holder
    BY <1>1 DEF Gates, AtGate
  <2>2. /\ indexTask' = [indexTask EXCEPT ![s][i] = q]
        /\ indexGate' = [indexGate EXCEPT ![i] = g]
        /\ p.pc = "check"
    BY <1>2 DEF Indexing!CheckBackoff, Indexing!At, Indexing!End, Indexing!Cut, FanTypes, p, h
  <2> QED
    <3> HIDE DEF q, g
    <3>1. g.prio = h.prio + (IF q.pc \in AtGate THEN d ELSE 0) - (IF p.pc \in AtGate THEN d ELSE 0)
      BY <1>1, <2>1, <2>2, <2>3 DEF AtGate
    <3>2. \A t \in Searches : g.holder = <<t>> => IF t = s THEN q.pc = "asleep" ELSE h.holder = <<t>>
      BY <1>1, <2>1, <2>2, <2>3 DEF AtGate
    <3> HIDE DEF d
    <3> QED
      BY <2>1, <2>2, <2>3, <3>1, <3>2 DEF AtGate
<1>3. CASE Indexing!CheckBackoff(s, i) /\ ~indexLadder[i].active
  <2> DEFINE q == [p EXCEPT !.pc = "gate", !.phase = IF i \in indexCaps THEN "query" ELSE "caps"]
             g == IF Indexing!Priority(s) THEN [h EXCEPT !.prio = h.prio + 1] ELSE h
  <2>1. q \in Working /\ q.pc = "gate"
    BY <1>1 DEF Working
  <2>3. /\ g \in Gates
        /\ g.prio = h.prio + d
        /\ g.holder = h.holder
    BY <1>1 DEF Gates, AtGate
  <2>2. /\ indexTask' = [indexTask EXCEPT ![s][i] = q]
        /\ indexGate' = [indexGate EXCEPT ![i] = g]
        /\ p.pc = "check"
    BY <1>3 DEF Indexing!CheckBackoff, Indexing!At, Indexing!Arrive, Indexing!Cut, FanTypes, p, h
  <2> QED
    <3> HIDE DEF q, g
    <3>1. g.prio = h.prio + (IF q.pc \in AtGate THEN d ELSE 0) - (IF p.pc \in AtGate THEN d ELSE 0)
      BY <1>1, <2>1, <2>2, <2>3 DEF AtGate
    <3>2. \A t \in Searches : g.holder = <<t>> => IF t = s THEN q.pc = "asleep" ELSE h.holder = <<t>>
      BY <1>1, <2>1, <2>2, <2>3 DEF AtGate
    <3> HIDE DEF d
    <3> QED
      BY <2>1, <2>2, <2>3, <3>1, <3>2 DEF AtGate
<1>4. CASE Indexing!Lock(s, i) /\ indexGate[i].hot
  <2> DEFINE q == [p EXCEPT !.pc = "asleep"]
             g == [h EXCEPT !.holder = <<s>>]
  <2>1. q \in Working /\ q.pc = "asleep"
    BY <1>1 DEF Working
  <2>3. /\ g \in Gates
        /\ g.prio = h.prio
        /\ g.holder = <<s>>
    BY <1>1 DEF Gates, AtGate
  <2>2. /\ indexTask' = [indexTask EXCEPT ![s][i] = q]
        /\ indexGate' = [indexGate EXCEPT ![i] = g]
        /\ p.pc = "gate"
    BY <1>4 DEF Indexing!Lock, Indexing!At, Indexing!Set, Indexing!Cut, FanTypes, p, h
  <2> QED
    <3> HIDE DEF q, g
    <3>1. g.prio = h.prio + (IF q.pc \in AtGate THEN d ELSE 0) - (IF p.pc \in AtGate THEN d ELSE 0)
      BY <1>1, <2>1, <2>2, <2>3 DEF AtGate
    <3>2. \A t \in Searches : g.holder = <<t>> => IF t = s THEN q.pc = "asleep" ELSE h.holder = <<t>>
      BY <1>1, <2>1, <2>2, <2>3 DEF AtGate
    <3> HIDE DEF d
    <3> QED
      BY <2>1, <2>2, <2>3, <3>1, <3>2 DEF AtGate
<1>5. CASE Indexing!Lock(s, i) /\ ~indexGate[i].hot
  <2> DEFINE q == [p EXCEPT !.pc = "wire"]
             g == [holder |-> Indexing!Free, hot |-> TRUE, prio |-> IF Indexing!Priority(s) THEN h.prio - 1 ELSE h.prio]
  <2>1. q \in Working /\ q.pc = "wire"
    BY <1>1 DEF Working
  <2>3. /\ g \in Gates
        /\ g.prio = h.prio - d
        /\ g.holder = Indexing!Free
    BY <1>1 DEF Gates, AtGate
  <2>2. /\ indexTask' = [indexTask EXCEPT ![s][i] = q]
        /\ indexGate' = [indexGate EXCEPT ![i] = g]
        /\ p.pc = "gate"
    BY <1>5 DEF Indexing!Lock, Indexing!At, Indexing!Through, Indexing!Set, Indexing!Cut,
       FanTypes, p, h
  <2> QED
    <3> HIDE DEF q, g
    <3>1. g.prio = h.prio + (IF q.pc \in AtGate THEN d ELSE 0) - (IF p.pc \in AtGate THEN d ELSE 0)
      BY <1>1, <2>1, <2>2, <2>3 DEF AtGate
    <3>2. \A t \in Searches : g.holder = <<t>> => IF t = s THEN q.pc = "asleep" ELSE h.holder = <<t>>
      BY <1>1, <2>1, <2>2, <2>3 DEF AtGate
    <3> HIDE DEF d
    <3> QED
      BY <2>1, <2>2, <2>3, <3>1, <3>2 DEF AtGate
<1>6. CASE Indexing!Wake(s, i)
  <2> DEFINE q == [p EXCEPT !.pc = "wire"]
             g == [holder |-> Indexing!Free, hot |-> TRUE, prio |-> IF Indexing!Priority(s) THEN h.prio - 1 ELSE h.prio]
  <2>1. q \in Working /\ q.pc = "wire"
    BY <1>1 DEF Working
  <2>3. /\ g \in Gates
        /\ g.prio = h.prio - d
        /\ g.holder = Indexing!Free
    BY <1>1 DEF Gates, AtGate
  <2>2. /\ indexTask' = [indexTask EXCEPT ![s][i] = q]
        /\ indexGate' = [indexGate EXCEPT ![i] = g]
        /\ p.pc = "asleep"
    BY <1>6 DEF Indexing!Wake, Indexing!At, Indexing!Through, Indexing!Set, Indexing!Cut,
       FanTypes, p, h
  <2> QED
    <3> HIDE DEF q, g
    <3>1. g.prio = h.prio + (IF q.pc \in AtGate THEN d ELSE 0) - (IF p.pc \in AtGate THEN d ELSE 0)
      BY <1>1, <2>1, <2>2, <2>3 DEF AtGate
    <3>2. \A t \in Searches : g.holder = <<t>> => IF t = s THEN q.pc = "asleep" ELSE h.holder = <<t>>
      BY <1>1, <2>1, <2>2, <2>3 DEF AtGate
    <3> HIDE DEF d
    <3> QED
      BY <2>1, <2>2, <2>3, <3>1, <3>2 DEF AtGate
<1>7. CASE Indexing!Yield(s, i)
  <2> DEFINE q == [p EXCEPT !.pc = "gate"]
             g == [h EXCEPT !.holder = Indexing!Free]
  <2>1. q \in Working /\ q.pc = "gate"
    BY <1>1 DEF Working
  <2>3. /\ g \in Gates
        /\ g.prio = h.prio
        /\ g.holder = Indexing!Free
    BY <1>1 DEF Gates, AtGate
  <2>2. /\ indexTask' = [indexTask EXCEPT ![s][i] = q]
        /\ indexGate' = [indexGate EXCEPT ![i] = g]
        /\ p.pc = "asleep"
    BY <1>7 DEF Indexing!Yield, Indexing!At, Indexing!Set, Indexing!Cut, FanTypes, p, h
  <2> QED
    <3> HIDE DEF q, g
    <3>1. g.prio = h.prio + (IF q.pc \in AtGate THEN d ELSE 0) - (IF p.pc \in AtGate THEN d ELSE 0)
      BY <1>1, <2>1, <2>2, <2>3 DEF AtGate
    <3>2. \A t \in Searches : g.holder = <<t>> => IF t = s THEN q.pc = "asleep" ELSE h.holder = <<t>>
      BY <1>1, <2>1, <2>2, <2>3 DEF AtGate
    <3> HIDE DEF d
    <3> QED
      BY <2>1, <2>2, <2>3, <3>1, <3>2 DEF AtGate
<1>8. CASE Indexing!CapsArrive(s, i)
  <2> DEFINE q == [p EXCEPT !.pc = "gate", !.phase = "query"]
             g == IF Indexing!Priority(s) THEN [h EXCEPT !.prio = h.prio + 1] ELSE h
  <2>1. q \in Working /\ q.pc = "gate"
    BY <1>1 DEF Working
  <2>3. /\ g \in Gates
        /\ g.prio = h.prio + d
        /\ g.holder = h.holder
    BY <1>1 DEF Gates, AtGate
  <2>2. /\ indexTask' = [indexTask EXCEPT ![s][i] = q]
        /\ indexGate' = [indexGate EXCEPT ![i] = g]
        /\ p.pc = "wire"
    BY <1>8 DEF Indexing!CapsArrive, Indexing!At, Indexing!Arrive, Indexing!Cut, FanTypes, p, h
  <2> QED
    <3> HIDE DEF q, g
    <3>1. g.prio = h.prio + (IF q.pc \in AtGate THEN d ELSE 0) - (IF p.pc \in AtGate THEN d ELSE 0)
      BY <1>1, <2>1, <2>2, <2>3 DEF AtGate
    <3>2. \A t \in Searches : g.holder = <<t>> => IF t = s THEN q.pc = "asleep" ELSE h.holder = <<t>>
      BY <1>1, <2>1, <2>2, <2>3 DEF AtGate
    <3> HIDE DEF d
    <3> QED
      BY <2>1, <2>2, <2>3, <3>1, <3>2 DEF AtGate
<1>9. CASE Indexing!PageArrives(s, i)
  <2> DEFINE q == [p EXCEPT !.pc = "passed"]
             g == h
  <2>1. q \in Working /\ q.pc = "passed"
    BY <1>1 DEF Working
  <2>3. /\ g \in Gates
        /\ g.prio = h.prio
        /\ g.holder = h.holder
    BY <1>1 DEF Gates, AtGate
  <2>2. /\ indexTask' = [indexTask EXCEPT ![s][i] = q]
        /\ indexGate' = [indexGate EXCEPT ![i] = g]
        /\ p.pc = "wire"
    BY <1>9 DEF Indexing!PageArrives, Indexing!At, Indexing!Set, Indexing!Cut, FanTypes, p, h
  <2> QED
    <3> HIDE DEF q, g
    <3>1. g.prio = h.prio + (IF q.pc \in AtGate THEN d ELSE 0) - (IF p.pc \in AtGate THEN d ELSE 0)
      BY <1>1, <2>1, <2>2, <2>3 DEF AtGate
    <3>2. \A t \in Searches : g.holder = <<t>> => IF t = s THEN q.pc = "asleep" ELSE h.holder = <<t>>
      BY <1>1, <2>1, <2>2, <2>3 DEF AtGate
    <3> HIDE DEF d
    <3> QED
      BY <2>1, <2>2, <2>3, <3>1, <3>2 DEF AtGate
<1>10. CASE Indexing!QueryFails(s, i)
  <2>1. PICK kind \in {"failed", "refused"} : Indexing!Set(s, i, kind)
    BY <1>10 DEF Indexing!QueryFails
  <2> DEFINE q == [p EXCEPT !.pc = kind]
             g == h
  <2>2. q \in Working /\ q.pc \in {"failed", "refused"}
    BY <1>1 DEF Working
  <2>4. /\ g \in Gates
        /\ g.prio = h.prio
        /\ g.holder = h.holder
    BY <1>1 DEF Gates, AtGate
  <2>3. /\ indexTask' = [indexTask EXCEPT ![s][i] = q]
        /\ indexGate' = [indexGate EXCEPT ![i] = g]
        /\ p.pc = "wire"
        /\ i \in indexFaulted'
    BY <1>10, <2>1 DEF Indexing!QueryFails, Indexing!At, Indexing!Set, Indexing!Cut, FanTypes, p, h
  <2> QED
    <3> HIDE DEF q, g
    <3>1. g.prio = h.prio + (IF q.pc \in AtGate THEN d ELSE 0) - (IF p.pc \in AtGate THEN d ELSE 0)
      BY <1>1, <2>2, <2>3, <2>4 DEF AtGate
    <3>2. \A t \in Searches : g.holder = <<t>> => IF t = s THEN q.pc = "asleep" ELSE h.holder = <<t>>
      BY <1>1, <2>2, <2>3, <2>4 DEF AtGate
    <3> HIDE DEF d
    <3> QED
      BY <2>2, <2>3, <2>4, <3>1, <3>2 DEF AtGate
<1>11. CASE Indexing!RecordFailure(s, i)
  <2> DEFINE q == [p EXCEPT !.pc = "done", !.out = "failed"]
             g == h
  <2>1. q \in Working /\ q.pc = "done"
    BY <1>1 DEF Working
  <2>3. /\ g \in Gates
        /\ g.prio = h.prio
        /\ g.holder = h.holder
    BY <1>1 DEF Gates, AtGate
  <2>2. /\ indexTask' = [indexTask EXCEPT ![s][i] = q]
        /\ indexGate' = [indexGate EXCEPT ![i] = g]
        /\ p.pc \in {"failed", "refused"}
    BY <1>11 DEF Indexing!RecordFailure, Indexing!At, Indexing!End, Indexing!Cut, FanTypes, p, h
  <2> QED
    <3> HIDE DEF q, g
    <3>1. g.prio = h.prio + (IF q.pc \in AtGate THEN d ELSE 0) - (IF p.pc \in AtGate THEN d ELSE 0)
      BY <1>1, <2>1, <2>2, <2>3 DEF AtGate
    <3>2. \A t \in Searches : g.holder = <<t>> => IF t = s THEN q.pc = "asleep" ELSE h.holder = <<t>>
      BY <1>1, <2>1, <2>2, <2>3 DEF AtGate
    <3> HIDE DEF d
    <3> QED
      BY <2>1, <2>2, <2>3, <3>1, <3>2 DEF AtGate
<1>12. CASE Indexing!RecordSuccess(s, i)
  <2> DEFINE q == [p EXCEPT !.pc = "done", !.out = "searched"]
             g == h
  <2>1. q \in Working /\ q.pc = "done"
    BY <1>1 DEF Working
  <2>3. /\ g \in Gates
        /\ g.prio = h.prio
        /\ g.holder = h.holder
    BY <1>1 DEF Gates, AtGate
  <2>2. /\ indexTask' = [indexTask EXCEPT ![s][i] = q]
        /\ indexGate' = [indexGate EXCEPT ![i] = g]
        /\ p.pc = "passed"
    BY <1>12 DEF Indexing!RecordSuccess, Indexing!At, Indexing!End, Indexing!Cut, FanTypes, p, h
  <2> QED
    <3> HIDE DEF q, g
    <3>1. g.prio = h.prio + (IF q.pc \in AtGate THEN d ELSE 0) - (IF p.pc \in AtGate THEN d ELSE 0)
      BY <1>1, <2>1, <2>2, <2>3 DEF AtGate
    <3>2. \A t \in Searches : g.holder = <<t>> => IF t = s THEN q.pc = "asleep" ELSE h.holder = <<t>>
      BY <1>1, <2>1, <2>2, <2>3 DEF AtGate
    <3> HIDE DEF d
    <3> QED
      BY <2>1, <2>2, <2>3, <3>1, <3>2 DEF AtGate
<1>13. CASE Indexing!Unwind(s, i) /\ indexTask[s][i].pc \notin AtGate
  <2> DEFINE q == [p EXCEPT !.pc = "done", !.out = "timed out"]
             g == h
  <2>1. q \in Working /\ q.pc = "done"
    BY <1>1 DEF Working
  <2>3. /\ g \in Gates
        /\ g.prio = h.prio
        /\ g.holder = h.holder
    BY <1>1 DEF Gates, AtGate
  <2>2. /\ indexTask' = [indexTask EXCEPT ![s][i] = q]
        /\ indexGate' = [indexGate EXCEPT ![i] = g]
        /\ p.pc \notin AtGate \cup {"none"}
    BY <1>13 DEF Indexing!Unwind, Indexing!End, Indexing!Released, AtGate, Indexing!Cut, FanTypes,
       p, h
  <2> QED
    <3> HIDE DEF q, g
    <3>1. g.prio = h.prio + (IF q.pc \in AtGate THEN d ELSE 0) - (IF p.pc \in AtGate THEN d ELSE 0)
      BY <1>1, <2>1, <2>2, <2>3 DEF AtGate
    <3>2. \A t \in Searches : g.holder = <<t>> => IF t = s THEN q.pc = "asleep" ELSE h.holder = <<t>>
      BY <1>1, <2>1, <2>2, <2>3 DEF AtGate
    <3> HIDE DEF d
    <3> QED
      BY <2>1, <2>2, <2>3, <3>1, <3>2 DEF AtGate
<1>14. CASE Indexing!Unwind(s, i) /\ indexTask[s][i].pc \in AtGate
  <2> DEFINE k == IF h.holder = <<s>> THEN Indexing!Free ELSE h.holder
             r == IF Indexing!Priority(s) THEN h.prio - 1 ELSE h.prio
  <2>4. k \in Tickets /\ r \in Int /\ r = h.prio - d
    BY <1>1 DEF Gates
  <2>5. ASSUME NEW x \in Tickets, NEW y \in Int
        PROVE  /\ [h EXCEPT !.holder = x, !.prio = y] \in Gates
               /\ [h EXCEPT !.holder = x, !.prio = y].holder = x
               /\ [h EXCEPT !.holder = x, !.prio = y].prio = y
    BY <1>1 DEF Gates
  <2> DEFINE q == [p EXCEPT !.pc = "done", !.out = "timed out"]
             g == [h EXCEPT !.holder = k, !.prio = r]
  <2>1. q \in Working /\ q.pc = "done"
    BY <1>1 DEF Working
  <2>3. /\ g \in Gates
        /\ g.prio = h.prio - d
        /\ g.holder = k
    <3> HIDE DEF k, r
    <3> QED
      BY <2>4, <2>5
  <2>2. /\ indexTask' = [indexTask EXCEPT ![s][i] = q]
        /\ indexGate' = [indexGate EXCEPT ![i] = g]
        /\ p.pc \in AtGate
    BY <1>14 DEF Indexing!Unwind, Indexing!End, Indexing!Released, AtGate, Indexing!Cut, FanTypes,
       p, h
  <2> QED
    <3> HIDE DEF q, g
    <3>1. g.prio = h.prio + (IF q.pc \in AtGate THEN d ELSE 0) - (IF p.pc \in AtGate THEN d ELSE 0)
      BY <1>1, <2>1, <2>2, <2>3 DEF AtGate
    <3>2. \A t \in Searches : g.holder = <<t>> => IF t = s THEN q.pc = "asleep" ELSE h.holder = <<t>>
      BY <1>1, <2>1, <2>2, <2>3 DEF AtGate
    <3> HIDE DEF d
    <3> QED
      BY <2>1, <2>2, <2>3, <3>1, <3>2 DEF AtGate
<1>15. CASE Indexing!CleanupBlowsUp(s, i)
  <2> DEFINE q == [p EXCEPT !.pc = "done", !.out = "failed"]
             g == h
  <2>1. q \in Working /\ q.pc = "done"
    BY <1>1 DEF Working
  <2>3. /\ g \in Gates
        /\ g.prio = h.prio
        /\ g.holder = h.holder
    BY <1>1 DEF Gates, AtGate
  <2>2. /\ indexTask' = [indexTask EXCEPT ![s][i] = q]
        /\ indexGate' = [indexGate EXCEPT ![i] = g]
        /\ p.pc = "wire"
    BY <1>15 DEF Indexing!CleanupBlowsUp, Indexing!End, Indexing!Cut, FanTypes, p, h
  <2> QED
    <3> HIDE DEF q, g
    <3>1. g.prio = h.prio + (IF q.pc \in AtGate THEN d ELSE 0) - (IF p.pc \in AtGate THEN d ELSE 0)
      BY <1>1, <2>1, <2>2, <2>3 DEF AtGate
    <3>2. \A t \in Searches : g.holder = <<t>> => IF t = s THEN q.pc = "asleep" ELSE h.holder = <<t>>
      BY <1>1, <2>1, <2>2, <2>3 DEF AtGate
    <3> HIDE DEF d
    <3> QED
      BY <2>1, <2>2, <2>3, <3>1, <3>2 DEF AtGate
<1>16. CASE Indexing!ReadBlowsUp(s, i) /\ indexTask[s][i].phase = "caps"
  <2> DEFINE q == [p EXCEPT !.pc = "gate", !.phase = "query", !.cut = FALSE]
             g == IF Indexing!Priority(s) THEN [h EXCEPT !.prio = h.prio + 1] ELSE h
  <2>1. q \in Working /\ q.pc = "gate"
    BY <1>1 DEF Working
  <2>3. /\ g \in Gates
        /\ g.prio = h.prio + d
        /\ g.holder = h.holder
    BY <1>1 DEF Gates, AtGate
  <2>2. /\ indexTask' = [indexTask EXCEPT ![s][i] = q]
        /\ indexGate' = [indexGate EXCEPT ![i] = g]
        /\ p.pc = "wire"
    BY <1>16 DEF Indexing!ReadBlowsUp, Indexing!Cut, FanTypes, p, h
  <2> QED
    <3> HIDE DEF q, g
    <3>1. g.prio = h.prio + (IF q.pc \in AtGate THEN d ELSE 0) - (IF p.pc \in AtGate THEN d ELSE 0)
      BY <1>1, <2>1, <2>2, <2>3 DEF AtGate
    <3>2. \A t \in Searches : g.holder = <<t>> => IF t = s THEN q.pc = "asleep" ELSE h.holder = <<t>>
      BY <1>1, <2>1, <2>2, <2>3 DEF AtGate
    <3> HIDE DEF d
    <3> QED
      BY <2>1, <2>2, <2>3, <3>1, <3>2 DEF AtGate
<1>17. CASE Indexing!ReadBlowsUp(s, i) /\ indexTask[s][i].phase # "caps"
  <2>4. p.phase = "query"
    BY <1>1, <1>17 DEF Working, p
  <2> DEFINE q == [p EXCEPT !.pc = "failed", !.cut = FALSE]
             g == h
  <2>1. q \in Working /\ q.pc = "failed"
    BY <1>1 DEF Working
  <2>3. /\ g \in Gates
        /\ g.prio = h.prio
        /\ g.holder = h.holder
    BY <1>1 DEF Gates, AtGate
  <2>2. /\ indexTask' = [indexTask EXCEPT ![s][i] = q]
        /\ indexGate' = [indexGate EXCEPT ![i] = g]
        /\ p.pc = "wire"
        /\ "query" \in Blowups
    BY <1>17, <2>4 DEF Indexing!ReadBlowsUp, Indexing!Cut, FanTypes, p, h
  <2> QED
    <3> HIDE DEF q, g
    <3>1. g.prio = h.prio + (IF q.pc \in AtGate THEN d ELSE 0) - (IF p.pc \in AtGate THEN d ELSE 0)
      BY <1>1, <2>1, <2>2, <2>3 DEF AtGate
    <3>2. \A t \in Searches : g.holder = <<t>> => IF t = s THEN q.pc = "asleep" ELSE h.holder = <<t>>
      BY <1>1, <2>1, <2>2, <2>3 DEF AtGate
    <3> HIDE DEF d
    <3> QED
      BY <2>1, <2>2, <2>3, <3>1, <3>2 DEF AtGate
<1> QED
  BY <1>2, <1>3, <1>4, <1>5, <1>6, <1>7, <1>8, <1>9, <1>10, <1>11, <1>12, <1>13, <1>14, <1>15,
     <1>16, <1>17 DEF Indexing!Task, Indexing!Cancelled

LEMMA WaitingMoves ==
  ASSUME FanTypes, NEW s \in Searches, NEW i \in Indexers, NEW q \in Working,
         indexTask' = [indexTask EXCEPT ![s][i] = q]
  PROVE  /\ \A j \in Indexers : j # i => Waiting(j)' = Waiting(j)
         /\ Waiting(i)' = IF Indexing!Priority(s) /\ q.pc \in AtGate
                          THEN Waiting(i) \cup {s} ELSE Waiting(i) \ {s}
         /\ s \in Waiting(i) <=> Indexing!Priority(s) /\ indexTask[s][i].pc \in AtGate
BY DEF FanTypes, Waiting, Indexing!Priority

\* The component counts with the same operators.
LEMMA SameCounts ==
  \A S : /\ Indexing!Cardinality(S) = Cardinality(S)
         /\ Indexing!IsFiniteSet(S) <=> IsFiniteSet(S)
BY DEF Cardinality, Indexing!Cardinality, IsFiniteSet, Indexing!IsFiniteSet

LEMMA WaitingCount ==
  /\ \A i \in Indexers : IsFiniteSet(Waiting(i)) /\ Cardinality(Waiting(i)) \in 0..Cardinality(Searches)
  /\ \A S \in SUBSET Searches, s \in Searches :
       /\ IsFiniteSet(S) /\ Cardinality(S) \in Nat
       /\ Cardinality(S \cup {s}) = IF s \in S THEN Cardinality(S) ELSE Cardinality(S) + 1
       /\ Cardinality(S \ {s}) = IF s \in S THEN Cardinality(S) - 1 ELSE Cardinality(S)
<1>0. IsFiniteSet(Searches)
  BY ProvidersAssumption, SameCounts DEF Indexing!SearchAssumption
<1>1. \A S \in SUBSET Searches :
        IsFiniteSet(S) /\ Cardinality(S) \in Nat /\ Cardinality(S) <= Cardinality(Searches)
  BY <1>0, FS_Subset, FS_CardinalityType
<1>2. ASSUME NEW S \in SUBSET Searches, NEW s \in Searches
      PROVE  /\ Cardinality(S \cup {s}) = IF s \in S THEN Cardinality(S) ELSE Cardinality(S) + 1
             /\ Cardinality(S \ {s}) = IF s \in S THEN Cardinality(S) - 1 ELSE Cardinality(S)
  BY <1>1, FS_AddElement, FS_RemoveElement
<1>3. \A i \in Indexers : Waiting(i) \in SUBSET Searches
  BY DEF Waiting
<1>4. Cardinality(Searches) \in Nat
  BY <1>0, FS_CardinalityType
<1> QED
  BY <1>1, <1>2, <1>3, <1>4

\* A search that has not begun has no task.
Unbegun == \A s \in Searches : indexSearch[s].pc = "idle" =>
             \A i \in Indexers : indexTask[s][i].pc = "none"

FanInv == FanTypes /\ GatesHeld /\ Unbegun

LEMMA FanInit == ASSUME Indexing!Init PROVE FanInv
<1>1. /\ indexLadder = [i \in Indexers |-> [level |-> 0, active |-> FALSE]]
      /\ indexCaps = {} /\ indexFaulted = {}
      /\ indexGate = [i \in Indexers |-> [holder |-> Indexing!Free, prio |-> 0, hot |-> FALSE]]
      /\ indexTask = [s \in Searches |-> [i \in Indexers |-> Indexing!NoTask]]
      /\ indexSearch = [s \in Searches |-> [pc |-> "idle", fleet |-> {}]]
  BY DEF Indexing!Init
<1>2. Indexing!NoTask \in Working /\ Indexing!NoTask.pc = "none" /\ "none" \notin AtGate
  BY DEF Indexing!NoTask, Working, AtGate
<1>3. FanTypes
  BY <1>1, <1>2, ProvidersAssumption DEF FanTypes, Gates, Tickets, Indexing!SearchAssumption
<1>4. \A i \in Indexers : Waiting(i) = {}
  BY <1>1, <1>2 DEF Waiting
<1>5. \A s \in Searches : <<s>> # Indexing!Free
  BY DEF Indexing!Free
<1> QED
  BY <1>1, <1>2, <1>3, <1>4, <1>5, FS_EmptySet DEF FanInv, GatesHeld, Unbegun

LEMMA TaskStep ==
  ASSUME FanInv, NEW s \in Searches, NEW i \in Indexers,
         Indexing!Task(s, i) \/ Indexing!Cancelled(s, i)
  PROVE  FanInv'
<1>1. PICK q \in Working, g \in Gates : GoesOn(s, i, q, g)
  BY TaskGoesOn DEF FanInv
<1>2. indexLadder' \in [Indexers -> [level : 0..MaxLevel, active : BOOLEAN]]
  <2>1. \A kind : Indexing!Climbed(i, kind) \in [level : 0..MaxLevel, active : BOOLEAN]
    BY ProvidersAssumption DEF Indexing!SearchAssumption, Indexing!Climbed, FanInv, FanTypes
  <2>2. \/ UNCHANGED indexLadder
        \/ \E r \in [level : 0..MaxLevel, active : BOOLEAN] : indexLadder' = [indexLadder EXCEPT ![i] = r]
    <3>1. [level |-> 0, active |-> FALSE] \in [level : 0..MaxLevel, active : BOOLEAN]
      BY ProvidersAssumption DEF Indexing!SearchAssumption
    <3>2. CASE Indexing!RecordFailure(s, i)
      BY <2>1, <3>2 DEF Indexing!RecordFailure
    <3>3. CASE Indexing!RecordSuccess(s, i)
      BY <3>1, <3>3 DEF Indexing!RecordSuccess
    <3>4. CASE Indexing!Unwind(s, i)
      BY <2>1, <3>1, <3>4 DEF Indexing!Unwind
    <3> QED
      BY <3>2, <3>3, <3>4 DEF Indexing!Task, Indexing!Cancelled, Indexing!CheckBackoff,
         Indexing!Lock,
         Indexing!Wake, Indexing!Yield, Indexing!CapsArrive, Indexing!PageArrives,
         Indexing!QueryFails, Indexing!CleanupBlowsUp, Indexing!ReadBlowsUp
  <2> QED
    BY <2>2 DEF FanInv, FanTypes
<1>3. indexCaps' \subseteq Indexers /\ indexFaulted' \subseteq Indexers /\ UNCHANGED indexSearch
  BY DEF FanInv, FanTypes, Indexing!Task, Indexing!Cancelled, Indexing!CheckBackoff, Indexing!Lock,
     Indexing!Wake, Indexing!Yield, Indexing!CapsArrive, Indexing!PageArrives, Indexing!QueryFails,
     Indexing!RecordFailure, Indexing!RecordSuccess, Indexing!Unwind, Indexing!CleanupBlowsUp,
     Indexing!ReadBlowsUp
<1>4. FanTypes'
  BY <1>1, <1>2, <1>3 DEF FanInv, FanTypes, GoesOn
<1>5. Unbegun'
  BY <1>1, <1>3 DEF FanInv, FanTypes, Unbegun, GoesOn
<1>6. ASSUME NEW j \in Indexers, NEW t \in Searches, indexGate'[j].holder = <<t>>
      PROVE  indexTask'[t][j].pc = "asleep"
  <2>1. indexGate'[j] = IF j = i THEN g ELSE indexGate[j]
    BY <1>1 DEF FanInv, FanTypes, GoesOn
  <2>2. indexTask'[t][j] = IF t = s /\ j = i THEN q ELSE indexTask[t][j]
    BY <1>1 DEF FanInv, FanTypes, GoesOn
  <2>3. indexGate[j].holder = <<t>> => indexTask[t][j].pc = "asleep"
    BY DEF FanInv, GatesHeld
  <2>4. j = i => IF t = s THEN q.pc = "asleep" ELSE indexGate[j].holder = <<t>>
    BY <1>1, <1>6, <2>1 DEF GoesOn
  <2> QED
    BY <1>6, <2>1, <2>2, <2>3, <2>4
<1>7. ASSUME NEW j \in Indexers
      PROVE  indexGate'[j].prio = Cardinality(Waiting(j)')
  <2>1. indexGate'[j] = IF j = i THEN g ELSE indexGate[j]
    BY <1>1 DEF FanInv, FanTypes, GoesOn
  <2>2. indexGate[j].prio = Cardinality(Waiting(j)) /\ Waiting(j) \in SUBSET Searches
    BY DEF FanInv, GatesHeld, Waiting
  <2>3. /\ \A k \in Indexers : k # i => Waiting(k)' = Waiting(k)
        /\ Waiting(i)' = IF Indexing!Priority(s) /\ q.pc \in AtGate
                         THEN Waiting(i) \cup {s} ELSE Waiting(i) \ {s}
        /\ s \in Waiting(i) <=> Indexing!Priority(s) /\ indexTask[s][i].pc \in AtGate
    BY <1>1, WaitingMoves DEF FanInv, GoesOn
  <2>4. CASE j # i
    BY <2>1, <2>2, <2>3, <2>4
  <2>5. CASE j = i
    <3> DEFINE W == Waiting(i)
    <3>1. /\ Cardinality(W) \in Nat
          /\ Cardinality(W \cup {s}) = IF s \in W THEN Cardinality(W) ELSE Cardinality(W) + 1
          /\ Cardinality(W \ {s}) = IF s \in W THEN Cardinality(W) - 1 ELSE Cardinality(W)
      BY <2>2, <2>5, WaitingCount
    <3>2. g.prio = Cardinality(W) + (IF Indexing!Priority(s) /\ q.pc \in AtGate THEN 1 ELSE 0)
                                  - (IF s \in W THEN 1 ELSE 0)
      BY <1>1, <2>2, <2>3, <2>5 DEF GoesOn
    <3>3. W' = IF Indexing!Priority(s) /\ q.pc \in AtGate THEN W \cup {s} ELSE W \ {s}
      BY <2>3
    <3> HIDE DEF W
    <3>4. g.prio = Cardinality(W')
      BY <3>1, <3>2, <3>3
    <3> QED
      BY <2>1, <2>5, <3>4 DEF W
  <2> QED
    BY <2>4, <2>5
<1> QED
  BY <1>4, <1>5, <1>6, <1>7 DEF FanInv, GatesHeld

LEMMA FanStep ==
  ASSUME FanInv, [Indexing!Next]_indexVars
  PROVE  FanInv'
<1>1. ASSUME NEW s \in Searches, NEW i \in Indexers, Indexing!Task(s, i) \/ Indexing!Cancelled(s, i)
      PROVE  FanInv'
  BY <1>1, TaskStep
\* The fan stops tasks and begins some that were none: no gate changes.
<1>2. ASSUME /\ indexTask' \in [Searches -> [Indexers -> Working]]
             /\ UNCHANGED <<indexLadder, indexCaps, indexGate, indexFaulted>>
             /\ indexSearch' \in [Searches -> [pc : {"idle", "fan", "grace", "done"},
                                              fleet : SUBSET Indexers]]
             /\ \A s \in Searches, i \in Indexers :
                  /\ \/ indexTask'[s][i].pc = indexTask[s][i].pc
                     \/ indexTask[s][i].pc \notin AtGate /\ indexTask'[s][i].pc \notin AtGate
                  /\ indexSearch'[s].pc = "idle" =>
                       indexSearch[s].pc = "idle" /\ indexTask'[s][i].pc = indexTask[s][i].pc
      PROVE  FanInv'
  <2>1. FanTypes' /\ Unbegun'
    BY <1>2 DEF FanInv, FanTypes, Unbegun
  <2>2. \A i \in Indexers : Waiting(i)' = Waiting(i)
    BY <1>2 DEF Waiting
  <2>3. \A i \in Indexers : indexGate'[i].prio = Cardinality(Waiting(i)')
    BY <1>2, <2>2 DEF FanInv, GatesHeld
  <2>4. \A i \in Indexers, s \in Searches :
          indexGate'[i].holder = <<s>> => indexTask'[s][i].pc = "asleep"
    BY <1>2 DEF FanInv, GatesHeld, AtGate
  <2> QED
    BY <2>1, <2>3, <2>4 DEF FanInv, GatesHeld
<1>3. ASSUME NEW s \in Searches, Indexing!Begin(s)
      PROVE  FanInv'
  <2> DEFINE cut(t, i) == indexTask[t][i].cut \/ (Indexing!Priority(s) /\ Indexing!Parked(t, i))
             q(t, i) == IF t = s /\ i \in Indexing!On THEN [Indexing!NoTask EXCEPT !.pc = "check"]
                        ELSE [indexTask[t][i] EXCEPT !.cut = cut(t, i)]
  <2>1. ASSUME NEW t \in Searches, NEW i \in Indexers
        PROVE  /\ q(t, i) \in Working
               /\ q(t, i).pc = IF t = s /\ i \in Indexing!On THEN "check" ELSE indexTask[t][i].pc
    <3> DEFINE c == cut(t, i)
    <3>0. indexTask[t][i] \in Working
      BY DEF FanInv, FanTypes
    <3>1. indexTask[t][i] \in Working /\ c \in BOOLEAN
      BY <3>0
    <3> HIDE DEF c
    <3>2. [indexTask[t][i] EXCEPT !.cut = c] \in Working
          /\ [indexTask[t][i] EXCEPT !.cut = c].pc = indexTask[t][i].pc
      BY <3>1 DEF Working
    <3>3. [Indexing!NoTask EXCEPT !.pc = "check"] \in Working
          /\ [Indexing!NoTask EXCEPT !.pc = "check"].pc = "check"
      BY DEF Working, Indexing!NoTask
    <3> QED
      BY <3>2, <3>3 DEF c
  <2> HIDE DEF q
  <2>2. indexTask' = [t \in Searches |-> [i \in Indexers |-> q(t, i)]]
    BY <1>3 DEF Indexing!Begin, q
  <2>3. indexSearch[s].pc = "idle" /\ indexSearch' = [indexSearch EXCEPT ![s] = [pc |-> "fan", fleet |-> Indexing!On]]
        /\ Indexing!On \subseteq Indexers /\ UNCHANGED <<indexLadder, indexCaps, indexGate, indexFaulted>>
    BY <1>3 DEF Indexing!Begin, Indexing!On
  <2>4. \A i \in Indexers : indexTask[s][i].pc = "none"
    BY <2>3 DEF FanInv, Unbegun
  <2>5. indexSearch' \in [Searches -> [pc : {"idle", "fan", "grace", "done"}, fleet : SUBSET Indexers]]
        /\ \A t \in Searches : indexSearch'[t] = IF t = s THEN [pc |-> "fan", fleet |-> Indexing!On] ELSE indexSearch[t]
    BY <2>3 DEF FanInv, FanTypes
  <2>6. \A t \in Searches, i \in Indexers :
          /\ indexTask'[t][i] \in Working
          /\ indexTask'[t][i].pc = IF t = s /\ i \in Indexing!On THEN "check" ELSE indexTask[t][i].pc
    BY <2>1, <2>2
  <2>7. indexTask' \in [Searches -> [Indexers -> Working]]
    BY <2>1, <2>2
  <2> QED
    BY <1>2, <2>3, <2>4, <2>5, <2>6, <2>7 DEF AtGate
<1>4. ASSUME NEW s \in Searches, Indexing!BudgetEnds(s)
      PROVE  FanInv'
  <2> DEFINE q(i) == [indexTask[s][i] EXCEPT !.cut = i \in Indexing!Unfinished(s)]
  <2>1. ASSUME NEW i \in Indexers PROVE q(i) \in Working /\ q(i).pc = indexTask[s][i].pc
    <3> DEFINE c == i \in Indexing!Unfinished(s)
    <3>1. c \in BOOLEAN /\ indexTask[s][i] \in Working
      BY DEF FanInv, FanTypes
    <3> HIDE DEF c
    <3>2. [indexTask[s][i] EXCEPT !.cut = c] \in Working
          /\ [indexTask[s][i] EXCEPT !.cut = c].pc = indexTask[s][i].pc
      BY <3>1 DEF Working
    <3> QED
      BY <3>2 DEF c
  <2> HIDE DEF q
  <2>2. indexTask' = [indexTask EXCEPT ![s] = [i \in Indexers |-> q(i)]]
    BY <1>4 DEF Indexing!BudgetEnds, q
  <2>3. /\ indexSearch[s].pc = "fan" /\ indexSearch' = [indexSearch EXCEPT ![s].pc = "grace"]
        /\ UNCHANGED <<indexLadder, indexCaps, indexGate, indexFaulted>>
    BY <1>4 DEF Indexing!BudgetEnds
  <2>4. indexTask' \in [Searches -> [Indexers -> Working]]
        /\ \A t \in Searches, i \in Indexers : indexTask'[t][i].pc = indexTask[t][i].pc
    BY <2>1, <2>2 DEF FanInv, FanTypes
  <2>5. indexSearch' \in [Searches -> [pc : {"idle", "fan", "grace", "done"}, fleet : SUBSET Indexers]]
        /\ \A t \in Searches : indexSearch'[t].pc = "idle" => indexSearch[t].pc = "idle"
    BY <2>3 DEF FanInv, FanTypes
  <2>6. indexTask' \in [Searches -> [Indexers -> Working]]
    BY <2>4
  <2>7. \A t \in Searches, i \in Indexers :
          /\ \/ indexTask'[t][i].pc = indexTask[t][i].pc
             \/ indexTask[t][i].pc \notin AtGate /\ indexTask'[t][i].pc \notin AtGate
          /\ indexSearch'[t].pc = "idle" =>
               indexSearch[t].pc = "idle" /\ indexTask'[t][i].pc = indexTask[t][i].pc
    BY <2>4, <2>5
  <2>8. UNCHANGED <<indexLadder, indexCaps, indexGate, indexFaulted>>
    BY <2>3
  <2>9. indexSearch' \in [Searches -> [pc : {"idle", "fan", "grace", "done"}, fleet : SUBSET Indexers]]
    BY <2>5
  <2> QED
    BY <1>2, <2>6, <2>7, <2>8, <2>9
<1>5. ASSUME NEW s \in Searches, Indexing!Collect(s)
      PROVE  FanInv'
  BY <1>2, <1>5 DEF Indexing!Collect, FanInv, FanTypes
<1>6. CASE UNCHANGED Indexing!searching
  BY <1>2, <1>6 DEF Indexing!searching, FanInv, FanTypes, Unbegun
<1>7. ASSUME NEW i \in Indexers, Indexing!Cool(i) \/ Indexing!CapsExpire(i) \/ Indexing!BackoffExpires(i)
      PROVE  FanInv'
  <2>1. UNCHANGED <<indexTask, indexSearch, indexFaulted>>
    BY <1>7 DEF Indexing!Cool, Indexing!CapsExpire, Indexing!BackoffExpires
  <2>2. indexGate' \in [Indexers -> Gates] /\ \A j \in Indexers :
          indexGate'[j].prio = indexGate[j].prio /\ indexGate'[j].holder = indexGate[j].holder
    <3>1. CASE Indexing!Cool(i)
      BY <3>1 DEF Indexing!Cool, FanInv, FanTypes, Gates
    <3>2. CASE UNCHANGED indexGate
      BY <3>2 DEF FanInv, FanTypes
    <3> QED
      BY <1>7, <3>1, <3>2 DEF Indexing!CapsExpire, Indexing!BackoffExpires
  <2>3. indexLadder' \in [Indexers -> [level : 0..MaxLevel, active : BOOLEAN]]
    <3>1. CASE Indexing!BackoffExpires(i)
      BY <3>1 DEF Indexing!BackoffExpires, FanInv, FanTypes
    <3>2. CASE UNCHANGED indexLadder
      BY <3>2 DEF FanInv, FanTypes
    <3> QED
      BY <1>7, <3>1, <3>2 DEF Indexing!Cool, Indexing!CapsExpire
  <2>4. indexCaps' \subseteq Indexers
    BY <1>7 DEF Indexing!Cool, Indexing!CapsExpire, Indexing!BackoffExpires, FanInv, FanTypes
  <2>5. \A j \in Indexers : Waiting(j)' = Waiting(j)
    BY <2>1 DEF Waiting
  <2> QED
    <3>1. FanTypes'
      BY <2>1, <2>2, <2>3, <2>4 DEF FanInv, FanTypes
    <3>2. GatesHeld'
      BY <2>1, <2>2, <2>5 DEF FanInv, GatesHeld
    <3> QED
      BY <2>1, <3>1, <3>2 DEF FanInv, Unbegun
<1>8. CASE UNCHANGED indexVars
  BY <1>6, <1>8 DEF indexVars, Indexing!searching
<1>9. ASSUME NEW r \in Requests, Indexing!Admin(r) PROVE FanInv'
  BY <1>6, <1>9 DEF Indexing!Admin, Indexing!Create, Indexing!Enable, Indexing!Ask,
     Indexing!WriteNew,
     Indexing!WriteEnabled, Indexing!Claim
<1>10. ASSUME NEW i \in Indexers, Indexing!Disable(i) PROVE FanInv'
  BY <1>6, <1>10 DEF Indexing!Disable
<1> QED
  BY <1>1, <1>3, <1>4, <1>5, <1>7, <1>8, <1>9, <1>10 DEF Indexing!Next, Indexing!Fan

\* What a step does to the ladder and to the failures: a rung is climbed by a task
\* that failed, and a read that a cancellation breaks is not one of a query.
LEMMA BlamedStep ==
  ASSUME "query" \notin Blowups, FanInv, Blamed, [Indexing!Next]_indexVars
  PROVE  Blamed'
<1> DEFINE Fail == {"failed", "refused"}
<1>1. ASSUME indexFaulted \subseteq indexFaulted',
             \A i \in Indexers : indexLadder'[i].level > 0 =>
               indexLadder[i].level > 0 \/ i \in indexFaulted',
             \A s \in Searches, i \in Indexers : indexTask'[s][i].pc \in Fail =>
               indexTask[s][i].pc \in Fail \/ i \in indexFaulted'
      PROVE  Blamed'
  BY <1>1 DEF Blamed
<1>2. ASSUME NEW s \in Searches, NEW i \in Indexers, Indexing!Task(s, i) \/ Indexing!Cancelled(s, i)
      PROVE  Blamed'
  <2>1. PICK q \in Working, g \in Gates : GoesOn(s, i, q, g)
    BY <1>2, TaskGoesOn DEF FanInv
  <2>2. q.pc \in Fail => i \in indexFaulted'
    BY <2>1 DEF GoesOn
  <2>7. indexFaulted \subseteq indexFaulted'
    BY <1>2 DEF Indexing!Task, Indexing!Cancelled, Indexing!CheckBackoff, Indexing!Lock,
       Indexing!Wake, Indexing!Yield, Indexing!CapsArrive, Indexing!PageArrives,
       Indexing!QueryFails, Indexing!RecordFailure, Indexing!RecordSuccess,
       Indexing!Unwind, Indexing!CleanupBlowsUp, Indexing!ReadBlowsUp
  <2>3. \A t \in Searches, j \in Indexers : (t = s /\ j = i) \/ indexTask'[t][j] = indexTask[t][j]
    BY <2>1 DEF GoesOn, FanInv, FanTypes
  <2>4. indexTask'[s][i] = q
    BY <2>1 DEF GoesOn, FanInv, FanTypes
  <2>5. \/ UNCHANGED indexLadder
        \/ indexLadder' = [indexLadder EXCEPT ![i] = [level |-> 0, active |-> FALSE]]
        \/ /\ indexTask[s][i].pc \in Fail
           /\ \E r : indexLadder' = [indexLadder EXCEPT ![i] = r]
    BY <1>2 DEF Indexing!Task, Indexing!Cancelled, Indexing!CheckBackoff, Indexing!Lock,
       Indexing!Wake, Indexing!Yield, Indexing!CapsArrive, Indexing!PageArrives,
       Indexing!QueryFails, Indexing!RecordFailure, Indexing!RecordSuccess, Indexing!At,
       Indexing!Unwind, Indexing!CleanupBlowsUp, Indexing!ReadBlowsUp
  <2>6. \A j \in Indexers : indexLadder'[j].level > 0 => indexLadder[j].level > 0 \/ j \in indexFaulted'
    <3>1. CASE indexTask[s][i].pc \in Fail /\ \E r : indexLadder' = [indexLadder EXCEPT ![i] = r]
      BY <2>7, <3>1 DEF Blamed, FanInv, FanTypes
    <3>2. CASE indexLadder' = [indexLadder EXCEPT ![i] = [level |-> 0, active |-> FALSE]]
      BY <3>2 DEF FanInv, FanTypes
    <3> QED
      BY <2>5, <3>1, <3>2
  <2> QED
    BY <1>1, <2>2, <2>3, <2>4, <2>6, <2>7
<1>3. ASSUME NEW s \in Searches, Indexing!Begin(s)
      PROVE  Blamed'
  <2>1. UNCHANGED <<indexLadder, indexFaulted>>
    BY <1>3 DEF Indexing!Begin
  <2>2. ASSUME NEW t \in Searches, NEW i \in Indexers
        PROVE  indexTask'[t][i].pc \in {"check", indexTask[t][i].pc}
    <3> DEFINE c == indexTask[t][i].cut \/ (Indexing!Priority(s) /\ Indexing!Parked(t, i))
    <3>1. indexTask'[t][i] = IF t = s /\ i \in Indexing!On THEN [Indexing!NoTask EXCEPT !.pc = "check"]
                             ELSE [indexTask[t][i] EXCEPT !.cut = c]
      BY <1>3 DEF Indexing!Begin
    <3>2. indexTask[t][i] \in Working
      BY DEF FanInv, FanTypes
    <3> HIDE DEF c
    <3> QED
      BY <3>1, <3>2 DEF Working, Indexing!NoTask
  <2> QED
    BY <1>1, <2>1, <2>2
<1>4. ASSUME NEW s \in Searches, Indexing!BudgetEnds(s)
      PROVE  Blamed'
  <2>1. UNCHANGED <<indexLadder, indexFaulted>>
    BY <1>4 DEF Indexing!BudgetEnds
  <2>2. ASSUME NEW t \in Searches, NEW i \in Indexers
        PROVE  indexTask'[t][i].pc = indexTask[t][i].pc
    <3> DEFINE c == i \in Indexing!Unfinished(s)
    <3>1. indexTask'[t][i] = IF t = s THEN [indexTask[t][i] EXCEPT !.cut = c] ELSE indexTask[t][i]
      BY <1>4 DEF Indexing!BudgetEnds, FanInv, FanTypes
    <3>2. indexTask[t][i] \in Working
      BY DEF FanInv, FanTypes
    <3> HIDE DEF c
    <3> QED
      BY <3>1, <3>2 DEF Working
  <2> QED
    BY <1>1, <2>1, <2>2
<1>5. CASE UNCHANGED <<indexLadder, indexTask, indexFaulted>>
  BY <1>1, <1>5
<1>6. ASSUME NEW i \in Indexers, Indexing!BackoffExpires(i)
      PROVE  Blamed'
  BY <1>1, <1>6 DEF Indexing!BackoffExpires, FanInv, FanTypes
<1>7. ASSUME NEW s \in Searches, Indexing!Collect(s)
      PROVE  Blamed'
  BY <1>5, <1>7 DEF Indexing!Collect
<1>8. ASSUME NEW i \in Indexers, Indexing!Cool(i) \/ Indexing!CapsExpire(i) \/ Indexing!Disable(i)
      PROVE  Blamed'
  BY <1>5, <1>8 DEF Indexing!Cool, Indexing!CapsExpire, Indexing!Disable, Indexing!searching
<1>9. ASSUME NEW r \in Requests, Indexing!Admin(r) PROVE Blamed'
  BY <1>5, <1>9 DEF Indexing!Admin, Indexing!Create, Indexing!Enable, Indexing!Ask,
     Indexing!WriteNew,
     Indexing!WriteEnabled, Indexing!Claim, Indexing!searching
<1>10. CASE UNCHANGED indexVars
  BY <1>5, <1>10 DEF indexVars
<1> QED
  BY <1>2, <1>3, <1>4, <1>6, <1>7, <1>8, <1>9, <1>10 DEF Indexing!Next, Indexing!Fan

\* Being slow costs an indexer nothing, where the read of an answer reports its
\* cancellation as such.
THEOREM SearchesCostNothing ==
  ASSUME "query" \notin Blowups
  PROVE  Spec => []CutOffCostsNothing
<1>1. Init => FanInv /\ Blamed
  <2> SUFFICES ASSUME Indexing!Init PROVE FanInv /\ Blamed
    BY DEF Init
  <2>1. /\ indexLadder = [i \in Indexers |-> [level |-> 0, active |-> FALSE]]
        /\ \A s \in Searches, i \in Indexers : indexTask[s][i].pc = "none"
    BY DEF Indexing!Init, Indexing!NoTask
  <2> QED
    BY <2>1, FanInit DEF Blamed
<1>2. (FanInv /\ Blamed) /\ [Next]_vars => (FanInv /\ Blamed)'
  BY OneActs, FanStep, BlamedStep
<1>3. FanInv /\ Blamed => CutOffCostsNothing
  <2> SUFFICES ASSUME FanInv, Blamed PROVE Indexing!SlowIsNotFailing /\ Indexing!GateNotLeaked
    BY DEF CutOffCostsNothing
  <2>1. Indexing!SlowIsNotFailing
    BY DEF Blamed, Indexing!SlowIsNotFailing
  <2>2. ASSUME NEW i \in Indexers
        PROVE  /\ indexGate[i].prio = Indexing!Cardinality({s \in Searches :
                    Indexing!Priority(s) /\ indexTask[s][i].pc \in {"gate", "asleep"}})
               /\ indexGate[i].holder # Indexing!Free =>
                    \E s \in Searches : indexGate[i].holder = <<s>> /\ indexTask[s][i].pc = "asleep"
    <3>1. indexGate[i].prio = Cardinality(Waiting(i))
      BY DEF FanInv, GatesHeld
    <3>2. Waiting(i) = {s \in Searches :
                    Indexing!Priority(s) /\ indexTask[s][i].pc \in {"gate", "asleep"}}
      BY DEF Waiting, AtGate
    <3>3. indexGate[i].holder \in Tickets
      BY DEF FanInv, FanTypes, Gates
    <3> QED
      BY <3>1, <3>2, <3>3, SameCounts DEF FanInv, GatesHeld, Tickets
  <2> QED
    BY <2>1, <2>2 DEF Indexing!GateNotLeaked
<1> QED
  BY <1>1, <1>2, <1>3, PTL DEF Spec

(***************************************************************************)
(* IndexerSearch: the sweep of the first indexer.                          *)
(***************************************************************************)
SweepTypes == /\ indexRow \in [Indexers -> {"absent", "off", "on"}]
              /\ indexMarker \in BOOLEAN /\ indexSweeps \in Nat
              /\ indexReq \in [Requests -> [pc : {"idle", "create", "enable", "claim"},
                                            id : Indexers \cup {0}, had : BOOLEAN]]
              /\ \A r \in Requests : indexReq[r].pc = "enable" => indexReq[r].id \in Indexers

\* The sweep is claimed, or a request is on its way to claim it.
Claimed == indexMarker \/ \E r \in Requests : indexReq[r].pc = "claim"

\* Once an indexer is enabled, or a request has read that one was, it is claimed.
SweepClaimed ==
  /\ indexSweeps <= 1 /\ (indexSweeps = 1 => indexMarker)
  /\ Indexing!On # {} => Claimed
  /\ \A r \in Requests : indexReq[r].pc \in {"create", "enable"} /\ indexReq[r].had => Claimed

SweepInv == SweepTypes /\ SweepClaimed

LEMMA SweepInit == ASSUME Indexing!Init PROVE SweepInv
<1>1. PICK r \in SearchRegimes : /\ indexRow = [i \in Indexers |-> IF i \in r.known THEN "on" ELSE "absent"]
                                 /\ indexMarker = (r.known # {})
  BY DEF Indexing!Init
<1>2. indexSweeps = 0 /\ indexReq = [q \in Requests |-> Indexing!NoReq]
  BY DEF Indexing!Init
<1>3. \A q \in Requests : indexReq[q].pc = "idle"
  BY <1>2 DEF Indexing!NoReq
<1>4. SweepTypes
  BY <1>1, <1>2 DEF SweepTypes, Indexing!NoReq
<1>5. Indexing!On # {} => Claimed
  BY <1>1 DEF Claimed, Indexing!On
<1> QED
  BY <1>2, <1>3, <1>4, <1>5 DEF SweepInv, SweepClaimed

LEMMA SweepStep ==
  ASSUME SweepInv, [Indexing!Next]_indexVars
  PROVE  SweepInv'
<1> DEFINE Asking == [pc : {"idle", "create", "enable", "claim"}, id : Indexers \cup {0}, had : BOOLEAN]
<1>1. CASE UNCHANGED <<indexRow, indexReq, indexMarker, indexSweeps>>
  BY <1>1 DEF SweepInv, SweepTypes, SweepClaimed, Claimed, Indexing!On
<1>2. ASSUME NEW r \in Requests, NEW pc \in {"create", "enable"}, NEW i \in Indexers \cup {0},
             pc = "enable" => i \in Indexers, Indexing!Ask(r, pc, i)
      PROVE  SweepInv'
  <2> DEFINE h == Indexing!On # {}
             q == [pc |-> pc, id |-> i, had |-> h]
  <2>1. indexReq' = [indexReq EXCEPT ![r] = q] /\ indexReq[r].pc = "idle"
        /\ UNCHANGED <<indexRow, indexMarker, indexSweeps>>
    BY <1>2 DEF Indexing!Ask
  <2>2. h \in BOOLEAN /\ (h <=> Indexing!On # {})
    OBVIOUS
  <2> HIDE DEF h
  <2>3. q \in Asking /\ q.pc = pc /\ q.id = i /\ q.had = h
    BY <2>2
  <2> HIDE DEF q
  <2>4. indexReq' \in [Requests -> Asking]
        /\ \A s \in Requests : indexReq'[s] = IF s = r THEN q ELSE indexReq[s]
    BY <2>1, <2>3 DEF SweepInv, SweepTypes
  <2>5. SweepTypes'
    BY <1>2, <2>1, <2>3, <2>4 DEF SweepInv, SweepTypes
  <2>6. Claimed' <=> Claimed
    BY <2>1, <2>3, <2>4 DEF Claimed
  <2> QED
    BY <2>1, <2>2, <2>3, <2>4, <2>5, <2>6 DEF SweepInv, SweepClaimed, Indexing!On
\* A write ends, or goes on to the claim.
<1>3. ASSUME NEW r \in Requests, NEW to \in [Indexers -> {"absent", "off", "on"}],
             indexReq[r].pc \in {"create", "enable"}, indexRow' = to,
             UNCHANGED <<indexMarker, indexSweeps>>,
             \/ indexReq' = Indexing!Written(r, 0)
             \/ indexReq' = Indexing!Forget(r) /\ \A i \in Indexers : to[i] = "on" => indexRow[i] = "on"
      PROVE  SweepInv'
  <2>1. PICK q \in Asking : /\ indexReq' = [indexReq EXCEPT ![r] = q]
                            /\ \/ q.pc = "claim" /\ ~indexReq[r].had
                               \/ q.pc = "idle" /\ (indexReq[r].had \/ Indexing!On' \subseteq Indexing!On)
    <3>1. Indexing!NoReq \in Asking /\ Indexing!NoReq.pc = "idle"
      BY DEF Indexing!NoReq
    <3>2. [indexReq[r] EXCEPT !.pc = "claim"] \in Asking /\ [indexReq[r] EXCEPT !.pc = "claim"].pc = "claim"
      BY DEF SweepInv, SweepTypes
    <3>3. indexReq' = Indexing!Written(r, 0)
            => IF indexReq[r].had THEN indexReq' = [indexReq EXCEPT ![r] = Indexing!NoReq]
               ELSE indexReq' = [indexReq EXCEPT ![r] = [indexReq[r] EXCEPT !.pc = "claim"]]
      BY DEF Indexing!Written, Indexing!Forget, SweepInv, SweepTypes
    <3>4. indexReq' = Indexing!Forget(r) /\ (\A i \in Indexers : to[i] = "on" => indexRow[i] = "on")
            => indexReq' = [indexReq EXCEPT ![r] = Indexing!NoReq] /\ Indexing!On' \subseteq Indexing!On
      BY <1>3 DEF Indexing!Forget, Indexing!On
    <3> QED
      BY <1>3, <3>1, <3>2, <3>3, <3>4
  <2>2. indexReq' \in [Requests -> Asking]
        /\ \A s \in Requests : indexReq'[s] = IF s = r THEN q ELSE indexReq[s]
    BY <2>1 DEF SweepInv, SweepTypes
  <2>3. SweepTypes'
    BY <1>3, <2>1, <2>2 DEF SweepInv, SweepTypes
  <2>4. Claimed => Claimed'
    BY <1>3, <2>2 DEF Claimed
  <2>5. q.pc = "claim" => Claimed'
    BY <2>2 DEF Claimed
  <2>6. Indexing!On' # {} => Claimed'
    BY <1>3, <2>1, <2>4, <2>5 DEF SweepInv, SweepClaimed
  <2> QED
    BY <1>3, <2>1, <2>2, <2>3, <2>4, <2>6 DEF SweepInv, SweepClaimed
<1>4. ASSUME NEW r \in Requests, Indexing!Create(r) \/ Indexing!Enable(r)
      PROVE  SweepInv'
  BY <1>2, <1>4 DEF Indexing!Create, Indexing!Enable
<1>5. ASSUME NEW r \in Requests, Indexing!WriteNew(r)
      PROVE  SweepInv'
  <2>1. PICK i \in Indexers, to \in {"on", "off"} :
          /\ indexRow[i] = "absent" /\ indexRow' = [indexRow EXCEPT ![i] = to]
          /\ indexReq' = IF to = "on" THEN Indexing!Written(r, i) ELSE Indexing!Forget(r)
    BY <1>5 DEF Indexing!WriteNew
  <2>2. indexReq[r].pc = "create" /\ UNCHANGED <<indexMarker, indexSweeps>>
    BY <1>5 DEF Indexing!WriteNew
  <2>3. [indexRow EXCEPT ![i] = to] \in [Indexers -> {"absent", "off", "on"}]
    BY DEF SweepInv, SweepTypes
  <2>4. to # "on" => \A j \in Indexers : [indexRow EXCEPT ![i] = to][j] = "on" => indexRow[j] = "on"
    BY DEF SweepInv, SweepTypes
  <2>5. Indexing!Written(r, i) = Indexing!Written(r, 0)
    BY DEF Indexing!Written
  <2> QED
    BY <1>3, <2>1, <2>2, <2>3, <2>4, <2>5
<1>6. ASSUME NEW r \in Requests, Indexing!WriteEnabled(r)
      PROVE  SweepInv'
  <2> DEFINE i == indexReq[r].id
  <2>1. i \in Indexers /\ indexReq[r].pc = "enable" /\ UNCHANGED <<indexMarker, indexSweeps>>
    BY <1>6 DEF Indexing!WriteEnabled, SweepInv, SweepTypes
  <2>2. \/ indexReq' = Indexing!Forget(r) /\ indexRow' = indexRow
        \/ indexRow' = [indexRow EXCEPT ![i] = "on"] /\ indexReq' = Indexing!Written(r, i)
    BY <1>6 DEF Indexing!WriteEnabled
  <2>3. indexRow' \in [Indexers -> {"absent", "off", "on"}]
    BY <2>1, <2>2 DEF SweepInv, SweepTypes
  <2>4. Indexing!Written(r, i) = Indexing!Written(r, 0)
    BY DEF Indexing!Written
  <2> QED
    BY <1>3, <2>1, <2>2, <2>3, <2>4
<1>7. ASSUME NEW r \in Requests, Indexing!Claim(r)
      PROVE  SweepInv'
  <2>1. indexReq' = [indexReq EXCEPT ![r] = Indexing!NoReq] /\ Indexing!NoReq \in Asking
        /\ Indexing!NoReq.pc = "idle"
    BY <1>7 DEF Indexing!Claim, Indexing!Forget, Indexing!NoReq
  <2>2. indexMarker' = TRUE /\ indexSweeps' = (IF indexMarker THEN indexSweeps ELSE indexSweeps + 1)
        /\ indexRow' = indexRow
    BY <1>7 DEF Indexing!Claim
  <2>3. SweepTypes'
    BY <2>1, <2>2 DEF SweepInv, SweepTypes
  <2>4. Claimed'
    BY <2>2 DEF Claimed
  <2> QED
    BY <2>2, <2>3, <2>4 DEF SweepInv, SweepTypes, SweepClaimed
<1>8. ASSUME NEW i \in Indexers, Indexing!Disable(i)
      PROVE  SweepInv'
  <2>1. UNCHANGED <<indexReq, indexMarker, indexSweeps>> /\ \E to \in {"off", "absent"} :
          indexRow' = [indexRow EXCEPT ![i] = to]
    BY <1>8 DEF Indexing!Disable
  <2>2. indexRow' \in [Indexers -> {"absent", "off", "on"}] /\ Indexing!On' \subseteq Indexing!On
    BY <2>1 DEF SweepInv, SweepTypes, Indexing!On
  <2>3. Claimed' <=> Claimed
    BY <2>1 DEF Claimed
  <2> QED
    BY <2>1, <2>2, <2>3 DEF SweepInv, SweepTypes, SweepClaimed
<1>9. ASSUME NEW s \in Searches, NEW i \in Indexers, Indexing!Task(s, i) \/ Indexing!Cancelled(s, i)
      PROVE  SweepInv'
  BY <1>1, <1>9 DEF Indexing!Task, Indexing!Cancelled, Indexing!CheckBackoff, Indexing!Lock,
     Indexing!Wake, Indexing!Yield, Indexing!CapsArrive, Indexing!PageArrives,
     Indexing!QueryFails, Indexing!RecordFailure, Indexing!RecordSuccess,
     Indexing!Unwind, Indexing!CleanupBlowsUp, Indexing!ReadBlowsUp, Indexing!admin
<1>10. ASSUME NEW s \in Searches, Indexing!Fan(s) PROVE SweepInv'
  BY <1>1, <1>10 DEF Indexing!Fan, Indexing!Begin, Indexing!BudgetEnds, Indexing!Collect,
     Indexing!admin
<1>11. ASSUME NEW i \in Indexers, Indexing!Cool(i) \/ Indexing!CapsExpire(i) \/ Indexing!BackoffExpires(i)
       PROVE  SweepInv'
  BY <1>1, <1>11 DEF Indexing!Cool, Indexing!CapsExpire, Indexing!BackoffExpires, Indexing!admin
<1>12. CASE UNCHANGED indexVars
  BY <1>1, <1>12 DEF indexVars
<1> QED
  BY <1>4, <1>5, <1>6, <1>7, <1>8, <1>9, <1>10, <1>11, <1>12 DEF Indexing!Next, Indexing!Admin

\* The sweep owed to the first indexer is claimed once, by whoever enabled it.
THEOREM SweepIsOwedOnce == Spec => []SweepOwedOnce
<1>1. Init => FanInv /\ SweepInv
  BY FanInit, SweepInit DEF Init
<1>2. (FanInv /\ SweepInv) /\ [Next]_vars => (FanInv /\ SweepInv)'
  BY OneActs, FanStep, SweepStep
<1>3. FanInv /\ SweepInv => SweepOwedOnce
  <2> SUFFICES ASSUME FanInv, SweepInv PROVE Indexing!TypeOK /\ Indexing!SweepOwedOnce
    BY DEF SweepOwedOnce
  <2>1. Indexing!SweepOwedOnce
    BY DEF SweepInv, SweepClaimed, Claimed, Indexing!SweepOwedOnce
  <2>2. \A i \in Indexers : indexGate[i].prio \in 0..Indexing!Cardinality(Searches)
    BY WaitingCount, SameCounts DEF FanInv, GatesHeld
  <2>3. \A s \in Searches : indexSearch[s].pc \in {"idle", "fan", "grace", "done"}
    BY DEF FanInv, FanTypes
  <2> QED
    BY <2>1, <2>2, <2>3 DEF Indexing!TypeOK, FanInv, FanTypes, SweepInv, SweepTypes
<1> QED
  BY <1>1, <1>2, <1>3, PTL DEF Spec

(***************************************************************************)
(* MetadataGate: what the gate lets through.                               *)
(***************************************************************************)
\* What ComicVine may ever list for the volume.
Listable == STRING \cup {"new"}

Asking == [pc : {"idle", "queued", "asleep", "sent"}, due : Int, items : Seq(Listable), page : Nat,
           was : SUBSET Listable]
Entries == [bucket : STRING, at : Int, lane : {"batch", "interactive"}]

GateTypes ==
  /\ cvNow \in 0..MaxNow /\ cvLast \in Int /\ cvCooldown \in Int /\ cvConsecutive \in Nat
  /\ cvDegraded \in BOOLEAN /\ cvAuthFailed \in BOOLEAN
  /\ cvLedger \in Seq(Entries) /\ cvQueue \in Seq(Callers) /\ cvListing \in Seq(Listable)
  /\ cvCall \in [Callers -> Asking]

\* The holder of the lock comes first, whoever is in the gate has one place in it.
Queued ==
  /\ \A i, j \in 1..Len(cvQueue) : cvQueue[i] = cvQueue[j] => i = j
  /\ \A i \in 1..Len(cvQueue) : cvCall[cvQueue[i]].pc \in {"queued", "asleep"}
  /\ \A c \in Callers : cvCall[c].pc = "asleep" =>
       Len(cvQueue) > 0 /\ cvQueue[1] = c

\* A sleeper was let through by the deciding check, and sleeps long enough.
Admissible == \A c \in Callers : cvCall[c].pc = "asleep" =>
                cvCall[c].due >= cvLast + Comicvine!Interval /\ ~Comicvine!Refused(c)

Paced == /\ cvLast <= cvNow
         /\ \A i \in 1..Len(cvLedger) : cvLedger[i].at <= cvLast
         /\ \A i, j \in 1..Len(cvLedger) :
              i < j => cvLedger[j].at - cvLedger[i].at >= Comicvine!Interval

Afforded == \A c \in Callers :
  /\ Cardinality(Comicvine!Counted(Bucket[c])) <= Comicvine!Budget
  /\ Cardinality(Comicvine!OfBatch(Comicvine!Counted(Bucket[c]))) <= Comicvine!BatchCeiling

GateInv == GateTypes /\ Queued /\ Admissible /\ Paced /\ Afforded /\ Comicvine!CoolingIsShown

LEMMA GateNumbers ==
  /\ Comicvine!Interval \in Int /\ Comicvine!Budget \in Nat /\ Comicvine!BatchCeiling \in Nat
  /\ \A S : Comicvine!Cardinality(S) = Cardinality(S)
<1> USE ProvidersAssumption DEF Comicvine!GateAssumption
<1>1. Comicvine!Interval \in Int /\ Comicvine!Budget \in Nat
  BY DEF Comicvine!Interval, Comicvine!Budget, Comicvine!Bigger, Comicvine!Smaller
<1>2. \A m, n \in Nat : m * n \in Nat
  OBVIOUS
<1>3. \A m \in Nat : m \div 100 \in Nat
  OBVIOUS
<1>4. Comicvine!BatchCeiling \in Nat
  BY <1>1, <1>2, <1>3 DEF Comicvine!BatchCeiling
<1>5. \A S : Comicvine!Cardinality(S) = Cardinality(S)
  BY DEF Cardinality, Comicvine!Cardinality
<1> QED
  BY <1>1, <1>4, <1>5

LEMMA FiniteCounts ==
  ASSUME GateTypes
  PROVE  /\ DOMAIN cvLedger = 1..Len(cvLedger) /\ Len(cvLedger) \in Nat
         /\ \A S \in SUBSET (1..Len(cvLedger)) : IsFiniteSet(S) /\ Cardinality(S) \in Nat
         /\ \A S \in SUBSET (1..Len(cvLedger)) : \A T \in SUBSET S : Cardinality(T) <= Cardinality(S)
         /\ \A S \in SUBSET (1..Len(cvLedger)) :
              Cardinality(S \cup {Len(cvLedger) + 1}) = Cardinality(S) + 1
         /\ \A b : Comicvine!Counted(b) \in SUBSET (1..Len(cvLedger))
         /\ \A S : Comicvine!OfBatch(S) \subseteq S
<1>1. DOMAIN cvLedger = 1..Len(cvLedger) /\ Len(cvLedger) \in Nat
  BY DEF GateTypes
<1>2. IsFiniteSet(1..Len(cvLedger))
  BY <1>1, FS_Interval
<1>3. \A S \in SUBSET (1..Len(cvLedger)) : IsFiniteSet(S) /\ Cardinality(S) \in Nat
  BY <1>2, FS_Subset, FS_CardinalityType
<1>4. \A S \in SUBSET (1..Len(cvLedger)) : \A T \in SUBSET S : Cardinality(T) <= Cardinality(S)
  BY <1>3, FS_Subset
<1>5. ASSUME NEW S \in SUBSET (1..Len(cvLedger))
      PROVE  Cardinality(S \cup {Len(cvLedger) + 1}) = Cardinality(S) + 1
  <2>1. IsFiniteSet(S) /\ Len(cvLedger) + 1 \notin S
    BY <1>1, <1>3
  <2> QED
    BY <2>1, FS_AddElement
<1>6. \A b : Comicvine!Counted(b) \in SUBSET (1..Len(cvLedger))
  BY <1>1 DEF Comicvine!Counted
<1>7. \A S : Comicvine!OfBatch(S) \subseteq S
  BY DEF Comicvine!OfBatch
<1> QED
  BY <1>1, <1>3, <1>4, <1>5, <1>6, <1>7

\* Time only takes admissions out of the count.
LEMMA CountsShrink ==
  ASSUME GateTypes, UNCHANGED cvLedger, cvNow' \in Int, cvNow' >= cvNow
  PROVE  \A c \in Callers :
           /\ Cardinality(Comicvine!Counted(Bucket[c])') <= Cardinality(Comicvine!Counted(Bucket[c]))
           /\ Cardinality(Comicvine!OfBatch(Comicvine!Counted(Bucket[c]))')
                <= Cardinality(Comicvine!OfBatch(Comicvine!Counted(Bucket[c])))
           /\ ~Comicvine!Refused(c) => ~Comicvine!Refused(c)'
<1> SUFFICES ASSUME NEW c \in Callers
             PROVE  /\ Cardinality(Comicvine!Counted(Bucket[c])') <= Cardinality(Comicvine!Counted(Bucket[c]))
                    /\ Cardinality(Comicvine!OfBatch(Comicvine!Counted(Bucket[c]))')
                         <= Cardinality(Comicvine!OfBatch(Comicvine!Counted(Bucket[c])))
                    /\ ~Comicvine!Refused(c) => ~Comicvine!Refused(c)'
  OBVIOUS
<1> DEFINE A == Comicvine!Counted(Bucket[c])
           B == Comicvine!OfBatch(A)
<1>1. \A i \in 1..Len(cvLedger) : cvLedger[i].at \in Int
  <2>1. \A i \in 1..Len(cvLedger) : cvLedger[i] \in Entries
    BY DEF GateTypes
  <2> QED
    BY <2>1 DEF Entries
<1>2. A' \in SUBSET A /\ A \in SUBSET (1..Len(cvLedger))
  <2>1. cvNow \in Int /\ Window \in Int /\ DOMAIN cvLedger = 1..Len(cvLedger)
    BY FiniteCounts, ProvidersAssumption DEF Comicvine!GateAssumption, GateTypes
  <2>2. A = {i \in DOMAIN cvLedger : cvLedger[i].bucket = Bucket[c] /\ cvLedger[i].at > cvNow - Window}
    BY DEF Comicvine!Counted
  <2>3. A' = {i \in DOMAIN cvLedger : cvLedger[i].bucket = Bucket[c] /\ cvLedger[i].at > cvNow' - Window}
    BY DEF Comicvine!Counted
  <2> HIDE DEF A
  <2> QED
    BY <1>1, <2>1, <2>2, <2>3
<1>3. B' \in SUBSET B /\ B \in SUBSET (1..Len(cvLedger))
  BY <1>2 DEF Comicvine!OfBatch
<1>4. Cardinality(A') <= Cardinality(A) /\ Cardinality(B') <= Cardinality(B)
      /\ {Cardinality(A), Cardinality(A'), Cardinality(B), Cardinality(B')} \subseteq Nat
  <2>1. A' \in SUBSET (1..Len(cvLedger)) /\ B' \in SUBSET (1..Len(cvLedger))
    BY <1>2, <1>3
  <2> HIDE DEF A, B
  <2> QED
    BY <1>2, <1>3, <2>1, FiniteCounts
<1>5. /\ Comicvine!Refused(c) <=> (Cardinality(A) >= Comicvine!Budget
            \/ (Lane[c] = "batch" /\ Cardinality(B) >= Comicvine!BatchCeiling))
      /\ Comicvine!Refused(c)' <=> (Cardinality(A') >= Comicvine!Budget
            \/ (Lane[c] = "batch" /\ Cardinality(B') >= Comicvine!BatchCeiling))
  <2>1. Comicvine!Refused(c) <=> (Comicvine!Cardinality(A) >= Comicvine!Budget
            \/ (Lane[c] = "batch" /\ Comicvine!Cardinality(B) >= Comicvine!BatchCeiling))
    BY DEF Comicvine!Refused
  <2>2. Comicvine!Refused(c)' <=> (Comicvine!Cardinality(A') >= Comicvine!Budget
            \/ (Lane[c] = "batch" /\ Comicvine!Cardinality(B') >= Comicvine!BatchCeiling))
    BY DEF Comicvine!Refused
  <2> HIDE DEF A, B
  <2> QED
    BY <2>1, <2>2, GateNumbers
<1> HIDE DEF A, B
<1>6. ~Comicvine!Refused(c) => ~Comicvine!Refused(c)'
  BY <1>4, <1>5, GateNumbers
<1> QED
  BY <1>4, <1>6 DEF A, B

\* An admission that the check lets through keeps the budgets.
LEMMA AdmissionAfforded ==
  ASSUME GateTypes, Afforded, NEW c \in Callers, ~Comicvine!Refused(c), UNCHANGED cvNow,
         cvLedger' = Append(cvLedger, [bucket |-> Bucket[c], at |-> cvNow, lane |-> Lane[c]])
  PROVE  Afforded'
<1> SUFFICES ASSUME NEW d \in Callers
             PROVE  /\ Cardinality(Comicvine!Counted(Bucket[d])') <= Comicvine!Budget
                    /\ Cardinality(Comicvine!OfBatch(Comicvine!Counted(Bucket[d]))') <= Comicvine!BatchCeiling
  BY DEF Afforded, Comicvine!Budget, Comicvine!BatchCeiling
<1> DEFINE n == Len(cvLedger)
           A == Comicvine!Counted(Bucket[d])
           B == Comicvine!OfBatch(A)
<1>1. /\ DOMAIN cvLedger = 1..n /\ n \in Nat /\ DOMAIN cvLedger' = 1..(n + 1)
      /\ \A i \in 1..n : cvLedger'[i] = cvLedger[i]
      /\ cvLedger'[n + 1].bucket = Bucket[c] /\ cvLedger'[n + 1].lane = Lane[c]
  BY FiniteCounts DEF GateTypes
<1>2. /\ A = {i \in DOMAIN cvLedger : cvLedger[i].bucket = Bucket[d] /\ cvLedger[i].at > cvNow - Window}
      /\ A' = {i \in DOMAIN cvLedger' : cvLedger'[i].bucket = Bucket[d] /\ cvLedger'[i].at > cvNow - Window}
      /\ B = {i \in A : cvLedger[i].lane = "batch"} /\ B' = {i \in A' : cvLedger'[i].lane = "batch"}
  BY DEF Comicvine!Counted, Comicvine!OfBatch
<1> HIDE DEF A, B, n
<1>3. /\ A \in SUBSET (1..n) /\ B \in SUBSET A
      /\ A' \in SUBSET (A \cup {n + 1}) /\ B' \in SUBSET (B \cup {n + 1})
      /\ Bucket[c] # Bucket[d] => A' \in SUBSET A /\ B' \in SUBSET B
      /\ Lane[c] # "batch" => B' \in SUBSET B
  BY <1>1, <1>2
<1>4. /\ IsFiniteSet(A) /\ IsFiniteSet(B) /\ IsFiniteSet(A \cup {n + 1}) /\ IsFiniteSet(B \cup {n + 1})
      /\ {Cardinality(A), Cardinality(B)} \subseteq Nat
      /\ Cardinality(A \cup {n + 1}) = Cardinality(A) + 1
      /\ Cardinality(B \cup {n + 1}) = Cardinality(B) + 1
  BY <1>1, <1>3, FiniteCounts, FS_AddElement DEF n
<1>5. /\ Cardinality(A') \in Nat /\ Cardinality(A') <= Cardinality(A) + 1
      /\ Cardinality(B') \in Nat /\ Cardinality(B') <= Cardinality(B) + 1
      /\ A' \in SUBSET A => Cardinality(A') <= Cardinality(A)
      /\ B' \in SUBSET B => Cardinality(B') <= Cardinality(B)
  <2>1. \A S : IsFiniteSet(S) => \A T \in SUBSET S :
          IsFiniteSet(T) /\ Cardinality(T) \in Nat /\ Cardinality(T) <= Cardinality(S)
    BY FS_Subset, FS_CardinalityType
  <2>2. /\ Cardinality(A') \in Nat /\ Cardinality(A') <= Cardinality(A \cup {n + 1})
        /\ A' \in SUBSET A => Cardinality(A') <= Cardinality(A)
    BY <1>3, <1>4, <2>1
  <2>3. /\ Cardinality(B') \in Nat /\ Cardinality(B') <= Cardinality(B \cup {n + 1})
        /\ B' \in SUBSET B => Cardinality(B') <= Cardinality(B)
    BY <1>3, <1>4, <2>1
  <2> QED
    BY <1>4, <2>2, <2>3
<1>6. Cardinality(A) <= Comicvine!Budget /\ Cardinality(B) <= Comicvine!BatchCeiling
  BY DEF Afforded, A, B
<1>7. Bucket[c] = Bucket[d] =>
        Cardinality(A) < Comicvine!Budget /\ (Lane[c] = "batch" => Cardinality(B) < Comicvine!BatchCeiling)
  <2> SUFFICES ASSUME Bucket[c] = Bucket[d]
               PROVE  Cardinality(A) < Comicvine!Budget /\ (Lane[c] = "batch" => Cardinality(B) < Comicvine!BatchCeiling)
    OBVIOUS
  <2>1. ~(Comicvine!Cardinality(A) >= Comicvine!Budget)
        /\ ~(Lane[c] = "batch" /\ Comicvine!Cardinality(B) >= Comicvine!BatchCeiling)
    BY DEF Comicvine!Refused, A, B
  <2> QED
    BY <2>1, <1>4, GateNumbers
<1>8. Cardinality(A') <= Comicvine!Budget /\ Cardinality(B') <= Comicvine!BatchCeiling
  BY <1>3, <1>4, <1>5, <1>6, <1>7, GateNumbers
<1> QED
  BY <1>8 DEF A, B

\* A request goes out: of the caller that holds the lock, when it is due.
LEMMA AdmitStep ==
  ASSUME GateInv, NEW c \in Callers, Comicvine!Admit(c), ~Comicvine!Refused(c),
         Len(cvQueue) > 0, cvQueue[1] = c, cvNow >= cvLast + Comicvine!Interval
  PROVE  GateInv'
<1> DEFINE e == [bucket |-> Bucket[c], at |-> cvNow, lane |-> Lane[c]]
<1>1. /\ cvLast' = cvNow /\ cvLedger' = Append(cvLedger, e) /\ cvQueue' = Tail(cvQueue)
      /\ cvCall' = [cvCall EXCEPT ![c].pc = "sent"]
      /\ UNCHANGED <<cvNow, cvCooldown, cvAuthFailed, cvListing>>
      /\ cvDegraded' = (cvDegraded /\ cvNow < cvCooldown)
      /\ cvConsecutive' \in {cvConsecutive, 0}
  BY DEF Comicvine!Admit
<1>2. e \in Entries /\ e.at = cvNow
  <2>1. Bucket[c] \in STRING /\ Lane[c] \in {"batch", "interactive"} /\ cvNow \in Int
    BY ProvidersAssumption DEF Comicvine!GateAssumption, GateInv, GateTypes
  <2> QED
    BY <2>1 DEF Entries
<1>3. /\ cvLedger' \in Seq(Entries) /\ Len(cvLedger') = Len(cvLedger) + 1 /\ Len(cvLedger) \in Nat
      /\ \A i \in 1..Len(cvLedger) : cvLedger'[i] = cvLedger[i] /\ cvLedger[i] \in Entries
      /\ cvLedger'[Len(cvLedger) + 1].at = cvNow
  <2>1. cvLedger \in Seq(Entries)
    BY DEF GateInv, GateTypes
  <2> HIDE DEF e
  <2> QED
    BY <1>1, <1>2, <2>1, AppendProperties, ElementOfSeq, LenProperties
<1>4. cvQueue' \in Seq(Callers) /\ Len(cvQueue') = Len(cvQueue) - 1 /\ Len(cvQueue) \in Nat
      /\ \A i \in 1..Len(cvQueue') : cvQueue'[i] = cvQueue[i + 1] /\ cvQueue'[i] \in Callers
  <2>1. cvQueue \in Seq(Callers) /\ Len(cvQueue) \in Nat /\ cvQueue # <<>>
    BY DEF GateInv, GateTypes
  <2>2. cvQueue' \in Seq(Callers) /\ Len(cvQueue') = Len(cvQueue) - 1
        /\ \A i \in 1..Len(cvQueue') : cvQueue'[i] = cvQueue[i + 1]
    BY <1>1, <2>1, HeadTailProperties
  <2> QED
    BY <2>1, <2>2, ElementOfSeq
<1>5. /\ cvCall' \in [Callers -> Asking] /\ cvCall'[c].pc = "sent"
      /\ \A d \in Callers : d # c => cvCall'[d] = cvCall[d]
  <2>1. \A q \in Asking : [q EXCEPT !.pc = "sent"] \in Asking /\ [q EXCEPT !.pc = "sent"].pc = "sent"
    BY DEF Asking
  <2>2. cvCall' = [cvCall EXCEPT ![c] = [cvCall[c] EXCEPT !.pc = "sent"]]
    BY <1>1
  <2> QED
    BY <2>1, <2>2 DEF GateInv, GateTypes
<1>6. GateTypes'
  <2>1. cvDegraded' \in BOOLEAN
    BY <1>1
  <2> QED
    BY <1>1, <1>3, <1>4, <1>5, <2>1 DEF GateInv, GateTypes
<1>7. \A d \in Callers : cvCall[d].pc = "asleep" => d = c
  BY DEF GateInv, Queued
<1>8. Queued'
  <2>0. /\ \A i, j \in 1..Len(cvQueue) : cvQueue[i] = cvQueue[j] => i = j
        /\ \A i \in 1..Len(cvQueue) : cvCall[cvQueue[i]].pc \in {"queued", "asleep"}
    BY DEF GateInv, Queued
  <2>4. \A i \in 1..Len(cvQueue') : i + 1 \in 1..Len(cvQueue) /\ i + 1 # 1
    BY <1>4
  <2>1. \A i \in 1..Len(cvQueue') : cvQueue'[i] # c
    BY <1>4, <2>0, <2>4
  <2>2. \A i, j \in 1..Len(cvQueue') : cvQueue'[i] = cvQueue'[j] => i = j
    BY <1>4, <2>0, <2>4
  <2>3. \A i \in 1..Len(cvQueue') : cvCall'[cvQueue'[i]].pc \in {"queued", "asleep"}
    BY <1>4, <1>5, <2>0, <2>1, <2>4
  <2> QED
    BY <1>5, <1>7, <2>2, <2>3 DEF Queued
<1>9. Admissible'
  BY <1>5, <1>7 DEF Admissible
<1>10. Paced'
  <2> DEFINE n == Len(cvLedger)
  <2>1. /\ n \in Nat /\ Len(cvLedger') = n + 1 /\ cvLedger'[n + 1].at = cvNow
        /\ \A i \in 1..n : cvLedger[i].at \in Int /\ cvLedger'[i].at = cvLedger[i].at
    <3>1. \A x \in Entries : x.at \in Int
      BY DEF Entries
    <3>2. \A i \in 1..n : cvLedger[i] \in Entries /\ cvLedger'[i] = cvLedger[i]
      BY <1>3
    <3>3. \A i \in 1..n : cvLedger[i].at \in Int /\ cvLedger'[i].at = cvLedger[i].at
      BY <3>1, <3>2
    <3>4. n \in Nat /\ Len(cvLedger') = n + 1
      BY <1>3
    <3>6. cvLedger'[n + 1].at = cvNow
      BY <1>3
    <3> HIDE DEF n
    <3> QED
      BY <3>3, <3>4, <3>6
  <2>2. cvNow \in Int /\ cvLast \in Int /\ Comicvine!Interval \in Int
    BY GateNumbers DEF GateInv, GateTypes
  <2>3. /\ \A i \in 1..n : cvLedger[i].at <= cvLast
        /\ \A i, j \in 1..n : i < j => cvLedger[j].at - cvLedger[i].at >= Comicvine!Interval
        /\ cvLast <= cvNow
    BY DEF GateInv, Paced
  <2> HIDE DEF n
  <2>6. \A i \in 1..Len(cvLedger') : i \in 1..n \/ i = n + 1
    BY <2>1
  <2>4. \A i \in 1..Len(cvLedger') : cvLedger'[i].at \in Int /\ cvLedger'[i].at <= cvNow
    BY <2>1, <2>2, <2>3, <2>6
  <2>5. ASSUME NEW i \in 1..Len(cvLedger'), NEW j \in 1..Len(cvLedger'), i < j
        PROVE  cvLedger'[j].at - cvLedger'[i].at >= Comicvine!Interval
    <3>1. i \in 1..n
      BY <2>1, <2>5, <2>6
    <3>2. cvLedger'[i].at <= cvLast
      BY <2>1, <2>3, <3>1
    <3>3. CASE j \in 1..n
      BY <2>1, <2>3, <2>5, <3>1, <3>3
    <3>4. CASE j = n + 1
      BY <2>1, <2>2, <2>3, <3>1, <3>2, <3>4
    <3> QED
      BY <2>6, <3>3, <3>4
  <2> QED
    BY <1>1, <2>2, <2>4, <2>5 DEF Paced, Comicvine!Interval, Comicvine!Bigger
<1>11. Afforded'
  BY <1>1, AdmissionAfforded DEF GateInv
<1>12. Comicvine!CoolingIsShown'
  BY <1>1 DEF GateInv, GateTypes, Comicvine!CoolingIsShown
<1> QED
  BY <1>6, <1>8, <1>9, <1>10, <1>11, <1>12 DEF GateInv

LEMMA PlaceRemoved ==
  ASSUME NEW S, NEW s \in Seq(S), NEW i \in 1..Len(s)
  PROVE  /\ Comicvine!RemoveAt(s, i) \in Seq(S) /\ Len(Comicvine!RemoveAt(s, i)) = Len(s) - 1
         /\ \A j \in 1..(Len(s) - 1) : Comicvine!RemoveAt(s, i)[j] = IF j < i THEN s[j] ELSE s[j + 1]
<1> DEFINE a == SubSeq(s, 1, i - 1)
           b == SubSeq(s, i + 1, Len(s))
<1>1. a \in Seq(S) /\ Len(a) = i - 1 /\ \A j \in 1..(i - 1) : a[j] = s[j]
  OBVIOUS
<1>2. b \in Seq(S) /\ Len(b) = Len(s) - i /\ \A j \in 1..(Len(s) - i) : b[j] = s[i + j]
  OBVIOUS
<1> HIDE DEF a, b
<1>3. a \o b \in Seq(S) /\ Len(a \o b) = Len(s) - 1
      /\ \A j \in 1..(Len(s) - 1) : (a \o b)[j] = IF j < i THEN a[j] ELSE b[j - (i - 1)]
  <2>1. /\ a \o b \in Seq(S) /\ Len(a \o b) = Len(a) + Len(b)
        /\ \A j \in 1..(Len(a) + Len(b)) : (a \o b)[j] = IF j <= Len(a) THEN a[j] ELSE b[j - Len(a)]
    BY <1>1, <1>2, ConcatProperties
  <2>2. Len(s) \in Nat
    OBVIOUS
  <2> QED
    BY <1>1, <1>2, <2>1, <2>2
<1>4. \A j \in 1..(Len(s) - 1) : (a \o b)[j] = IF j < i THEN s[j] ELSE s[j + 1]
  BY <1>1, <1>2, <1>3
<1> QED
  BY <1>3, <1>4 DEF a, b, Comicvine!RemoveAt

\* Steps that leave the admissions and the clock alone.  The lock passes on when
\* its holder leaves, at whatever place it waits.
LEMMA QueueStep ==
  ASSUME GateInv, GateTypes', UNCHANGED <<cvNow, cvLast, cvLedger>>, Comicvine!CoolingIsShown',
         NEW c \in Callers, \A d \in Callers : d # c => cvCall'[d] = cvCall[d],
         \/ /\ cvCall'[c].pc \in {"idle", "sent"}
            /\ \/ UNCHANGED cvQueue /\ \A i \in 1..Len(cvQueue) : cvQueue[i] # c
               \/ \E i \in 1..Len(cvQueue) : cvQueue[i] = c /\ cvQueue' = Comicvine!RemoveAt(cvQueue, i)
         \/ /\ cvCall[c].pc \in {"idle", "sent"} /\ cvCall'[c].pc = "queued"
            /\ cvQueue' = Append(cvQueue, c)
         \/ /\ Len(cvQueue) > 0 /\ cvQueue[1] = c /\ UNCHANGED cvQueue
            /\ cvCall'[c].pc = "asleep" /\ ~Comicvine!Refused(c)
            /\ cvCall'[c].due >= cvLast + Comicvine!Interval
  PROVE  GateInv'
<1> USE DEF GateInv
<1>1. cvQueue \in Seq(Callers) /\ Len(cvQueue) \in Nat /\ \A i \in 1..Len(cvQueue) : cvQueue[i] \in Callers
  BY DEF GateTypes
<1>2. /\ \A i, j \in 1..Len(cvQueue) : cvQueue[i] = cvQueue[j] => i = j
      /\ \A i \in 1..Len(cvQueue) : cvCall[cvQueue[i]].pc \in {"queued", "asleep"}
      /\ \A d \in Callers : cvCall[d].pc = "asleep" => Len(cvQueue) > 0 /\ cvQueue[1] = d
  BY DEF Queued
<1>3. Afforded' /\ Paced'
  BY DEF Afforded, Paced, Comicvine!Counted, Comicvine!OfBatch, Comicvine!Budget,
     Comicvine!BatchCeiling,
         Comicvine!Interval, Comicvine!Bigger, Comicvine!Smaller
<1>4. \A d \in Callers : Comicvine!Refused(d)' <=> Comicvine!Refused(d)
  BY DEF Comicvine!Refused, Comicvine!Counted, Comicvine!OfBatch, Comicvine!Budget,
     Comicvine!BatchCeiling,
         Comicvine!Bigger, Comicvine!Smaller
<1>5. Comicvine!Interval' = Comicvine!Interval
  BY DEF Comicvine!Interval
<1>6. CASE /\ cvCall'[c].pc \in {"idle", "sent"} /\ UNCHANGED cvQueue
           /\ \A i \in 1..Len(cvQueue) : cvQueue[i] # c
  <2>1. Queued'
    BY <1>1, <1>2, <1>6 DEF Queued
  <2>2. Admissible'
    BY <1>4, <1>5, <1>6 DEF Admissible
  <2> QED
    BY <1>3, <2>1, <2>2
<1>7. ASSUME cvCall'[c].pc \in {"idle", "sent"}, NEW i \in 1..Len(cvQueue), cvQueue[i] = c,
             cvQueue' = Comicvine!RemoveAt(cvQueue, i)
      PROVE  GateInv'
  <2>1. Len(cvQueue') = Len(cvQueue) - 1
        /\ \A j \in 1..Len(cvQueue') : cvQueue'[j] = IF j < i THEN cvQueue[j] ELSE cvQueue[j + 1]
    BY <1>1, <1>7, PlaceRemoved
  <2>2. \A j \in 1..Len(cvQueue') : cvQueue'[j] \in Callers \ {c}
    BY <1>1, <1>2, <1>7, <2>1
  <2>3. \A j, k \in 1..Len(cvQueue') : cvQueue'[j] = cvQueue'[k] => j = k
    BY <1>1, <1>2, <2>1
  <2>4. \A j \in 1..Len(cvQueue') : cvCall'[cvQueue'[j]].pc \in {"queued", "asleep"}
    BY <1>1, <1>2, <2>1, <2>2
  <2>5. \A d \in Callers : cvCall'[d].pc = "asleep" => Len(cvQueue') > 0 /\ cvQueue'[1] = d
    <3> SUFFICES ASSUME NEW d \in Callers, cvCall'[d].pc = "asleep"
                 PROVE  Len(cvQueue') > 0 /\ cvQueue'[1] = d
      OBVIOUS
    <3>1. d # c /\ cvCall[d].pc = "asleep" /\ cvQueue[1] = d
      BY <1>2, <1>7
    <3> QED
      BY <1>1, <1>2, <1>7, <2>1, <3>1
  <2>6. Queued'
    BY <2>3, <2>4, <2>5 DEF Queued
  <2>7. Admissible'
    BY <1>4, <1>5, <1>7 DEF Admissible
  <2> QED
    BY <1>3, <2>6, <2>7
<1>8. CASE /\ cvCall[c].pc \in {"idle", "sent"} /\ cvCall'[c].pc = "queued"
           /\ cvQueue' = Append(cvQueue, c)
  <2>1. Len(cvQueue') = Len(cvQueue) + 1 /\ cvQueue'[Len(cvQueue) + 1] = c
        /\ \A j \in 1..Len(cvQueue) : cvQueue'[j] = cvQueue[j] /\ cvQueue[j] # c
    BY <1>1, <1>2, <1>8
  <2>2. \A j, k \in 1..Len(cvQueue') : cvQueue'[j] = cvQueue'[k] => j = k
    BY <1>1, <1>2, <2>1
  <2>3. \A j \in 1..Len(cvQueue') : cvCall'[cvQueue'[j]].pc \in {"queued", "asleep"}
    BY <1>1, <1>2, <1>8, <2>1
  <2>4. \A d \in Callers : cvCall'[d].pc = "asleep" => Len(cvQueue') > 0 /\ cvQueue'[1] = d
    BY <1>1, <1>2, <1>8, <2>1
  <2>5. Queued'
    BY <2>2, <2>3, <2>4 DEF Queued
  <2>6. Admissible'
    BY <1>4, <1>5, <1>8 DEF Admissible
  <2> QED
    BY <1>3, <2>5, <2>6
<1>9. CASE /\ Len(cvQueue) > 0 /\ cvQueue[1] = c /\ UNCHANGED cvQueue
           /\ cvCall'[c].pc = "asleep" /\ ~Comicvine!Refused(c)
           /\ cvCall'[c].due >= cvLast + Comicvine!Interval
  <2>1. Queued'
    BY <1>1, <1>2, <1>9 DEF Queued
  <2>2. Admissible'
    BY <1>4, <1>5, <1>9 DEF Admissible
  <2> QED
    BY <1>3, <2>1, <2>2
<1> QED
  BY <1>6, <1>7, <1>8, <1>9

LEMMA GateInit == ASSUME Comicvine!Init PROVE GateInv
<1> USE ProvidersAssumption DEF Comicvine!GateAssumption
<1>1. /\ cvNow = 0 /\ cvLast = Comicvine!Never /\ cvCooldown = 0 /\ cvConsecutive = 0
      /\ cvDegraded = FALSE /\ cvAuthFailed = FALSE /\ cvLedger = <<>> /\ cvQueue = <<>>
      /\ cvCall = [c \in Callers |-> Comicvine!NoCall] /\ cvListing = Volume
  BY DEF Comicvine!Init
<1>2. Comicvine!NoCall \in Asking /\ Comicvine!NoCall.pc = "idle"
  <2>1. <<>> \in Seq(Listable)
    OBVIOUS
  <2> QED
    BY <2>1 DEF Asking, Comicvine!NoCall
<1>3. <<>> \in Seq(Entries) /\ <<>> \in Seq(Callers)
  OBVIOUS
<1>4. GateTypes
  <2>1. cvNow \in 0..MaxNow /\ cvLast \in Int /\ cvCooldown \in Int /\ cvConsecutive \in Nat
    BY <1>1 DEF Comicvine!Never
  <2>2. cvCall \in [Callers -> Asking]
    BY <1>1, <1>2
  <2>3. Volume \in Seq(STRING) /\ STRING \subseteq Listable
    BY DEF Listable
  <2>4. Volume \in Seq(Listable)
    BY <2>3, SeqMonotonic
  <2> QED
    BY <1>1, <1>3, <2>1, <2>2, <2>4 DEF GateTypes
<1>5. Queued /\ Admissible /\ Paced
  BY <1>1, <1>2 DEF Queued, Admissible, Paced, Comicvine!Never
<1>6. \A b : Comicvine!Counted(b) = {} /\ Comicvine!OfBatch({}) = {}
  BY <1>1 DEF Comicvine!Counted, Comicvine!OfBatch
<1>7. Afforded
  <2>1. Cardinality({}) = 0
    BY FS_EmptySet
  <2>2. 0 <= Comicvine!Budget /\ 0 <= Comicvine!BatchCeiling
    BY GateNumbers
  <2> QED
    BY <1>6, <2>1, <2>2 DEF Afforded
<1> QED
  BY <1>1, <1>4, <1>5, <1>7 DEF GateInv, Comicvine!CoolingIsShown

\* A call ends, or a request of it is asked for: what either leaves of the caller.
Ends(c) == cvCall' = [cvCall EXCEPT ![c] = Comicvine!NoCall] /\ UNCHANGED cvQueue
Asks(c, walk) == cvCall' = [cvCall EXCEPT ![c] = [walk EXCEPT !.pc = "queued"]]
                 /\ cvQueue' = Append(cvQueue, c)

\* What a walk has gathered, and where it goes on, is of its type.
LEMMA Gathers ==
  ASSUME GateTypes, NEW c \in Callers
  PROVE  /\ Comicvine!Gathered(c) \in Seq(Listable)
         /\ [cvCall[c] EXCEPT !.items = Comicvine!Gathered(c), !.page = @ + 1] \in Asking
         /\ [cvCall[c] EXCEPT !.page = @ + 1] \in Asking
         /\ [Comicvine!NoCall EXCEPT !.was = Comicvine!Issues(cvListing)] \in Asking
<1>1. cvCall[c] \in Asking
  BY DEF GateTypes
<1>2. Comicvine!Gathered(c) \in Seq(Listable)
  <2> DEFINE p == cvCall[c].page * PageSize
             r == (cvCall[c].page + 1) * PageSize
  <2>1. cvCall[c].items \in Seq(Listable) /\ cvCall[c].page \in Nat /\ PageSize \in Nat
    BY <1>1, ProvidersAssumption DEF Asking, Comicvine!GateAssumption
  <2>2. p \in Nat /\ r \in Nat
    BY <2>1
  <2> HIDE DEF p, r
  <2>3. cvListing \in Seq(Listable) /\ Len(cvListing) \in Nat
    BY DEF GateTypes
  <2>4. Comicvine!Smaller(r, Len(cvListing)) \in Int /\ Comicvine!Smaller(r, Len(cvListing)) <= Len(cvListing)
    BY <2>2, <2>3 DEF Comicvine!Smaller
  <2> DEFINE m == Comicvine!Smaller(r, Len(cvListing))
  <2> HIDE DEF m
  <2>5. m \in Int /\ m <= Len(cvListing)
    BY <2>4 DEF m
  <2>6. \A i \in (p + 1)..m : cvListing[i] \in Listable
    BY <2>2, <2>3, <2>5, ElementOfSeq
  <2>7. SubSeq(cvListing, p + 1, m) \in Seq(Listable)
    BY <2>2, <2>5, <2>6, SubSeqProperties
  <2>8. cvCall[c].items \o SubSeq(cvListing, p + 1, m) \in Seq(Listable)
    BY <2>1, <2>7, ConcatProperties
  <2> QED
    BY <2>8 DEF Comicvine!Gathered, m, p, r
<1> DEFINE g == Comicvine!Gathered(c)
<1> HIDE DEF g
<1>3. g \in Seq(Listable)
  BY <1>2 DEF g
<1>4. [cvCall[c] EXCEPT !.items = g, !.page = @ + 1] \in Asking /\ [cvCall[c] EXCEPT !.page = @ + 1] \in Asking
  <2> DEFINE n == cvCall[c].page + 1
  <2>1. n \in Nat
    BY <1>1 DEF Asking
  <2> HIDE DEF n
  <2>2. [cvCall[c] EXCEPT !.items = g, !.page = n] \in Asking /\ [cvCall[c] EXCEPT !.page = n] \in Asking
    BY <1>1, <1>3, <2>1 DEF Asking
  <2> QED
    BY <2>2 DEF n
<1>5. [Comicvine!NoCall EXCEPT !.was = Comicvine!Issues(cvListing)] \in Asking
  <2>1. Comicvine!Issues(cvListing) \subseteq Listable
    BY ElementOfSeq DEF Comicvine!Issues, GateTypes
  <2>2. <<>> \in Seq(Listable)
    OBVIOUS
  <2> DEFINE w == Comicvine!Issues(cvListing)
  <2>3. w \in SUBSET Listable
    BY <2>1
  <2> HIDE DEF w
  <2>5. Comicvine!NoCall \in Asking
    BY <2>2 DEF Asking, Comicvine!NoCall
  <2>6. \A q \in Asking : [q EXCEPT !.was = w] \in Asking
    BY <2>3 DEF Asking
  <2>4. [Comicvine!NoCall EXCEPT !.was = w] \in Asking
    BY <2>5, <2>6
  <2> QED
    BY <2>4 DEF w
<1> QED
  BY <1>2, <1>4, <1>5 DEF g

LEMMA GateStep ==
  ASSUME GateInv, [Comicvine!Next]_cvVars
  PROVE  GateInv'
<1>1. /\ GateTypes /\ Queued /\ Comicvine!CoolingIsShown
      /\ cvCall \in [Callers -> Asking] /\ cvQueue \in Seq(Callers) /\ Len(cvQueue) \in Nat
      /\ \A c \in Callers : cvCall[c] \in Asking
  BY DEF GateInv, GateTypes
<1>2. Comicvine!NoCall \in Asking /\ Comicvine!NoCall.pc = "idle"
  <2>1. <<>> \in Seq(Listable)
    OBVIOUS
  <2> QED
    BY <2>1 DEF Asking, Comicvine!NoCall
\* The caller is out of the gate when its request is with ComicVine or there is none.
<1>3. \A c \in Callers : cvCall[c].pc \in {"idle", "sent"} => \A i \in 1..Len(cvQueue) : cvQueue[i] # c
  BY <1>1 DEF Queued
<1>4. ASSUME NEW c \in Callers, cvCall[c].pc \in {"idle", "sent"}, Ends(c),
             UNCHANGED <<cvNow, cvLast, cvLedger, cvListing>>,
             cvCooldown' \in Int, cvConsecutive' \in Nat, cvDegraded' \in BOOLEAN, cvAuthFailed' \in BOOLEAN,
             Comicvine!CoolingIsShown'
      PROVE  GateInv'
  <2>1. GateTypes' /\ cvCall'[c].pc = "idle" /\ \A d \in Callers : d # c => cvCall'[d] = cvCall[d]
    BY <1>1, <1>2, <1>4 DEF Ends, GateTypes
  <2> QED
    BY <1>3, <1>4, <2>1, QueueStep DEF Ends
<1>5. ASSUME NEW c \in Callers, cvCall[c].pc \in {"idle", "sent"}, NEW walk \in Asking, Asks(c, walk),
             UNCHANGED <<cvNow, cvLast, cvLedger, cvListing, cvCooldown, cvConsecutive, cvDegraded>>,
             cvAuthFailed' \in BOOLEAN
      PROVE  GateInv'
  <2>1. [walk EXCEPT !.pc = "queued"] \in Asking /\ [walk EXCEPT !.pc = "queued"].pc = "queued"
    BY DEF Asking
  <2>2. cvCall' \in [Callers -> Asking] /\ cvCall'[c].pc = "queued"
        /\ \A d \in Callers : d # c => cvCall'[d] = cvCall[d]
    BY <1>1, <1>5, <2>1 DEF Asks
  <2>3. cvQueue' \in Seq(Callers)
    BY <1>1, <1>5, AppendProperties DEF Asks
  <2>4. GateTypes' /\ Comicvine!CoolingIsShown'
    BY <1>1, <1>5, <2>2, <2>3 DEF GateTypes, Comicvine!CoolingIsShown
  <2> QED
    BY <1>5, <2>2, <2>4, QueueStep DEF Asks
<1>6. ASSUME NEW c \in Callers, Comicvine!Take(c)
      PROVE  GateInv'
  <2>1. Len(cvQueue) > 0 /\ cvQueue[1] = c /\ cvCall[c].pc = "queued"
    <3>1. cvQueue # <<>> /\ Head(cvQueue) = c /\ cvCall[c].pc = "queued"
      BY <1>6 DEF Comicvine!Take
    <3> QED
      BY <1>1, <3>1
  <2>2. CASE Comicvine!Refused(c)
    <3>1. /\ cvCall' = [cvCall EXCEPT ![c] = Comicvine!NoCall] /\ cvQueue' = Tail(cvQueue)
          /\ UNCHANGED <<cvNow, cvLast, cvCooldown, cvConsecutive, cvDegraded, cvAuthFailed, cvLedger,
                         cvListing>>
      BY <1>6, <2>2 DEF Comicvine!Take, Comicvine!Return
    <3>2. cvQueue' = Comicvine!RemoveAt(cvQueue, 1) /\ cvQueue' \in Seq(Callers)
      <4>1. /\ Comicvine!RemoveAt(cvQueue, 1) \in Seq(Callers)
            /\ Len(Comicvine!RemoveAt(cvQueue, 1)) = Len(cvQueue) - 1
            /\ \A j \in 1..(Len(cvQueue) - 1) : Comicvine!RemoveAt(cvQueue, 1)[j] = cvQueue[j + 1]
        BY <1>1, <2>1, PlaceRemoved
      <4>2. /\ Tail(cvQueue) \in Seq(Callers) /\ Len(Tail(cvQueue)) = Len(cvQueue) - 1
            /\ \A j \in 1..(Len(cvQueue) - 1) : Tail(cvQueue)[j] = cvQueue[j + 1]
        BY <1>1, <2>1, HeadTailProperties
      <4> QED
        BY <3>1, <4>1, <4>2, SeqEqual
    <3>3. cvCall' \in [Callers -> Asking] /\ cvCall'[c].pc = "idle"
          /\ \A d \in Callers : d # c => cvCall'[d] = cvCall[d]
      BY <1>1, <1>2, <3>1
    <3>4. GateTypes' /\ Comicvine!CoolingIsShown'
      BY <1>1, <3>1, <3>2, <3>3 DEF GateTypes, Comicvine!CoolingIsShown
    <3>5. \E i \in 1..Len(cvQueue) : cvQueue[i] = c /\ cvQueue' = Comicvine!RemoveAt(cvQueue, i)
      BY <1>1, <2>1, <3>2
    <3> QED
      BY <3>1, <3>3, <3>4, <3>5, QueueStep
  <2>3. CASE ~Comicvine!Refused(c) /\ Comicvine!Due = cvNow
    <3>1. Comicvine!Admit(c)
      BY <1>6, <2>3 DEF Comicvine!Take
    <3>2. cvNow >= cvLast + Comicvine!Interval
      BY <1>1, <2>3, GateNumbers DEF Comicvine!Due, Comicvine!Bigger, GateTypes
    <3> QED
      BY <2>1, <2>3, <3>1, <3>2, AdmitStep
  <2>4. CASE ~Comicvine!Refused(c) /\ Comicvine!Due # cvNow
    <3> DEFINE due == Comicvine!Due
    <3>1. due \in Int /\ due >= cvLast + Comicvine!Interval
      BY <1>1, GateNumbers DEF Comicvine!Due, Comicvine!Bigger, GateTypes
    <3>2. /\ cvCall' = [cvCall EXCEPT ![c].pc = "asleep", ![c].due = due]
          /\ UNCHANGED <<cvNow, cvLast, cvCooldown, cvConsecutive, cvDegraded, cvLedger, cvQueue,
                         cvAuthFailed, cvListing>>
      BY <1>6, <2>4 DEF Comicvine!Take, Comicvine!gate
    <3> HIDE DEF due
    <3>3. [cvCall[c] EXCEPT !.pc = "asleep", !.due = due] \in Asking
          /\ [cvCall[c] EXCEPT !.pc = "asleep", !.due = due].pc = "asleep"
          /\ [cvCall[c] EXCEPT !.pc = "asleep", !.due = due].due = due
      BY <1>1, <3>1 DEF Asking
    <3>4. cvCall' = [cvCall EXCEPT ![c] = [cvCall[c] EXCEPT !.pc = "asleep", !.due = due]]
      BY <1>1, <3>2
    <3>5. cvCall' \in [Callers -> Asking] /\ cvCall'[c].pc = "asleep" /\ cvCall'[c].due = due
          /\ \A d \in Callers : d # c => cvCall'[d] = cvCall[d]
      BY <1>1, <3>3, <3>4
    <3>6. GateTypes' /\ Comicvine!CoolingIsShown'
      BY <1>1, <3>2, <3>5 DEF GateTypes, Comicvine!CoolingIsShown
    <3> QED
      BY <2>1, <2>4, <3>1, <3>2, <3>5, <3>6, QueueStep
  <2> QED
    BY <2>2, <2>3, <2>4
<1>7. ASSUME NEW c \in Callers, Comicvine!Wake(c)
      PROVE  GateInv'
  <2>1. Comicvine!Admit(c) /\ cvCall[c].pc = "asleep" /\ cvNow >= cvCall[c].due
    BY <1>7 DEF Comicvine!Wake
  <2>2. /\ Len(cvQueue) > 0 /\ cvQueue[1] = c
        /\ cvCall[c].due >= cvLast + Comicvine!Interval /\ ~Comicvine!Refused(c)
    BY <2>1 DEF GateInv, Queued, Admissible
  <2>3. cvNow \in Int /\ cvLast \in Int /\ cvCall[c].due \in Int
    BY <1>1 DEF GateTypes, Asking
  <2> QED
    BY <2>1, <2>2, <2>3, GateNumbers, AdmitStep
<1>8. ASSUME NEW c \in Callers, Comicvine!Cancel(c)
      PROVE  GateInv'
  <2>1. PICK i \in DOMAIN cvQueue : cvQueue[i] = c /\ cvQueue' = Comicvine!RemoveAt(cvQueue, i)
    BY <1>8 DEF Comicvine!Cancel
  <2>2. i \in 1..Len(cvQueue) /\ cvQueue' \in Seq(Callers)
    BY <1>1, <2>1, PlaceRemoved
  <2>3. /\ cvCall' = [cvCall EXCEPT ![c] = Comicvine!NoCall]
        /\ UNCHANGED <<cvNow, cvLast, cvCooldown, cvConsecutive, cvDegraded, cvAuthFailed, cvLedger,
                       cvListing>>
    BY <1>8 DEF Comicvine!Cancel, Comicvine!Return
  <2>4. cvCall' \in [Callers -> Asking] /\ cvCall'[c].pc = "idle"
        /\ \A d \in Callers : d # c => cvCall'[d] = cvCall[d]
    BY <1>1, <1>2, <2>3
  <2>5. GateTypes' /\ Comicvine!CoolingIsShown'
    BY <1>1, <2>2, <2>3, <2>4 DEF GateTypes, Comicvine!CoolingIsShown
  <2> QED
    BY <2>1, <2>2, <2>3, <2>4, <2>5, QueueStep
<1>9. ASSUME NEW c \in Callers, Comicvine!Begin(c)
      PROVE  GateInv'
  <2> DEFINE walk == [Comicvine!NoCall EXCEPT !.was = Comicvine!Issues(cvListing)]
  <2>1. walk \in Asking
    BY <1>1, Gathers
  <2>2. /\ cvCall[c].pc = "idle" /\ (Ends(c) \/ Asks(c, walk))
        /\ UNCHANGED <<cvNow, cvLast, cvLedger, cvListing, cvCooldown, cvConsecutive, cvDegraded, cvAuthFailed>>
    BY <1>9 DEF Comicvine!Begin, Comicvine!Ask, Comicvine!Return, Ends, Asks
  <2> HIDE DEF walk
  <2> QED
    BY <1>1, <1>4, <1>5, <2>1, <2>2 DEF GateTypes, Comicvine!CoolingIsShown
<1>10. ASSUME NEW c \in Callers, Comicvine!Answered(c)
       PROVE  GateInv'
  <2> DEFINE w1 == [cvCall[c] EXCEPT !.items = Comicvine!Gathered(c), !.page = @ + 1]
             w2 == [cvCall[c] EXCEPT !.page = @ + 1]
  <2>1. w1 \in Asking /\ w2 \in Asking
    BY <1>1, Gathers
  <2>2. /\ cvCall[c].pc = "sent" /\ cvAuthFailed' = FALSE
        /\ UNCHANGED <<cvNow, cvLast, cvLedger, cvListing, cvCooldown, cvConsecutive, cvDegraded>>
    BY <1>10 DEF Comicvine!Answered
  <2>3. Ends(c) \/ Asks(c, w1) \/ Asks(c, w2)
    <3>1. Comicvine!PageArrives(c) => Ends(c) \/ Asks(c, w1)
      BY DEF Comicvine!PageArrives, Comicvine!Ask, Comicvine!Return, Ends, Asks
    <3>2. Comicvine!ChunkArrives(c) => Ends(c) \/ Asks(c, w2)
      BY DEF Comicvine!ChunkArrives, Comicvine!Ask, Comicvine!Return, Ends, Asks
    <3>3. Comicvine!Return(c, "complete", <<>>) /\ UNCHANGED cvQueue => Ends(c)
      BY DEF Comicvine!Return, Ends
    <3>4. Method[c] \in {"pages", "chunks", "single", "suggest"}
      BY ProvidersAssumption DEF Comicvine!GateAssumption
    <3> QED
      BY <1>10, <3>1, <3>2, <3>3, <3>4 DEF Comicvine!Answered
  <2> HIDE DEF w1, w2
  <2> QED
    BY <1>1, <1>4, <1>5, <2>1, <2>2, <2>3 DEF GateTypes, Comicvine!CoolingIsShown
<1>11. \A c \in Callers : Comicvine!Broken(c) => cvCall' = [cvCall EXCEPT ![c] = Comicvine!NoCall]
  BY ProvidersAssumption DEF Comicvine!GateAssumption, Comicvine!Broken, Comicvine!Return
<1>12. ASSUME NEW c \in Callers, Comicvine!RateLimited(c)
       PROVE  GateInv'
  <2>1. PICK asked \in RetryAfters \cup {0} :
          cvCooldown' = Comicvine!Bigger(cvCooldown, cvNow
            + Comicvine!Bigger(asked, Backoff[Comicvine!Smaller(cvConsecutive + 1, Len(Backoff))]))
    BY <1>12 DEF Comicvine!RateLimited
  <2>2. /\ cvCall[c].pc = "sent" /\ Ends(c) /\ cvConsecutive' = cvConsecutive + 1 /\ cvDegraded' = TRUE
        /\ UNCHANGED <<cvNow, cvLast, cvLedger, cvListing, cvAuthFailed>>
    BY <1>11, <1>12 DEF Comicvine!RateLimited, Comicvine!Fault, Ends
  <2>3. cvCooldown' \in Int
    <3> DEFINE k == Comicvine!Smaller(cvConsecutive + 1, Len(Backoff))
    <3>1. asked \in Nat /\ Backoff \in Seq(Nat) /\ Backoff # <<>>
      BY ProvidersAssumption DEF Comicvine!GateAssumption
    <3>2. k \in 1..Len(Backoff)
      BY <1>1, <3>1 DEF Comicvine!Smaller, GateTypes
    <3> HIDE DEF k
    <3>3. Backoff[k] \in Nat
      BY <3>1, <3>2
    <3>4. cvNow \in Int /\ cvCooldown \in Int
      BY <1>1 DEF GateTypes
    <3>5. cvCooldown' = Comicvine!Bigger(cvCooldown, cvNow + Comicvine!Bigger(asked, Backoff[k]))
      BY <2>1 DEF k
    <3> QED
      BY <3>1, <3>3, <3>4, <3>5 DEF Comicvine!Bigger
  <2> QED
    BY <1>1, <1>4, <2>2, <2>3 DEF GateTypes, Comicvine!CoolingIsShown
<1>13. ASSUME NEW c \in Callers, Comicvine!Denied(c) \/ Comicvine!Unavailable(c)
       PROVE  GateInv'
  <2>1. /\ cvCall[c].pc = "sent" /\ Ends(c) /\ cvAuthFailed' \in {TRUE, FALSE, cvAuthFailed}
        /\ UNCHANGED <<cvNow, cvLast, cvLedger, cvListing, cvCooldown, cvConsecutive, cvDegraded>>
    BY <1>11, <1>13 DEF Comicvine!Denied, Comicvine!Unavailable, Comicvine!Fault,
       Comicvine!Return, Ends,
       Comicvine!gate
  <2> QED
    BY <1>1, <1>4, <2>1 DEF GateTypes, Comicvine!CoolingIsShown
\* What moves neither a caller nor an admission.
<1>14. ASSUME UNCHANGED <<cvLast, cvLedger, cvQueue, cvCall, cvCooldown, cvAuthFailed>>,
              cvNow' \in 0..MaxNow, cvNow' >= cvNow, cvConsecutive' \in Nat, cvDegraded' \in BOOLEAN,
              cvListing' \in Seq(Listable), Comicvine!CoolingIsShown'
       PROVE  GateInv'
  <2>1. GateTypes'
    BY <1>1, <1>14 DEF GateTypes
  <2>2. Queued'
    BY <1>1, <1>14 DEF Queued
  <2>3. cvNow \in Int /\ cvNow' \in Int /\ cvLast \in Int
    BY <1>1, <1>14, ProvidersAssumption DEF GateTypes, Comicvine!GateAssumption
  <2>4. Comicvine!Interval' = Comicvine!Interval
    BY DEF Comicvine!Interval
  <2>5. Admissible'
    BY <1>1, <1>14, <2>3, <2>4, CountsShrink DEF GateInv, Admissible
  <2>6. Paced'
    BY <1>14, <2>3, <2>4 DEF GateInv, Paced
  <2>7. Afforded'
    <3> SUFFICES ASSUME NEW c \in Callers
                 PROVE  /\ Cardinality(Comicvine!Counted(Bucket[c])') <= Comicvine!Budget
                        /\ Cardinality(Comicvine!OfBatch(Comicvine!Counted(Bucket[c]))') <= Comicvine!BatchCeiling
      BY DEF Afforded, Comicvine!Budget, Comicvine!BatchCeiling
    <3>1. /\ Cardinality(Comicvine!Counted(Bucket[c])') <= Cardinality(Comicvine!Counted(Bucket[c]))
          /\ Cardinality(Comicvine!OfBatch(Comicvine!Counted(Bucket[c]))')
               <= Cardinality(Comicvine!OfBatch(Comicvine!Counted(Bucket[c])))
      BY <1>1, <1>14, <2>3, CountsShrink
    <3>2. /\ Cardinality(Comicvine!Counted(Bucket[c])) <= Comicvine!Budget
          /\ Cardinality(Comicvine!OfBatch(Comicvine!Counted(Bucket[c]))) <= Comicvine!BatchCeiling
      BY DEF GateInv, Afforded
    <3>3. /\ Cardinality(Comicvine!Counted(Bucket[c])) \in Nat
          /\ Cardinality(Comicvine!OfBatch(Comicvine!Counted(Bucket[c]))) \in Nat
      <4>1. /\ Comicvine!Counted(Bucket[c]) \in SUBSET (1..Len(cvLedger))
            /\ Comicvine!OfBatch(Comicvine!Counted(Bucket[c])) \in SUBSET (1..Len(cvLedger))
        BY <1>1, FiniteCounts
      <4> QED
        BY <1>1, <4>1, FiniteCounts
    <3>4. /\ Cardinality(Comicvine!Counted(Bucket[c])') \in Nat
          /\ Cardinality(Comicvine!OfBatch(Comicvine!Counted(Bucket[c]))') \in Nat
      <4> DEFINE A == Comicvine!Counted(Bucket[c])'
                 B == Comicvine!OfBatch(Comicvine!Counted(Bucket[c]))'
      <4>1. A \subseteq DOMAIN cvLedger /\ B \subseteq A
        BY <1>14 DEF Comicvine!Counted, Comicvine!OfBatch
      <4> HIDE DEF A, B
      <4>2. A \in SUBSET (1..Len(cvLedger)) /\ B \in SUBSET (1..Len(cvLedger))
        BY <1>1, <4>1, FiniteCounts
      <4>3. Cardinality(A) \in Nat /\ Cardinality(B) \in Nat
        BY <1>1, <4>2, FiniteCounts
      <4> QED
        BY <4>3 DEF A, B
    <3> QED
      BY <3>1, <3>2, <3>3, <3>4, GateNumbers
  <2> QED
    BY <1>14, <2>1, <2>2, <2>5, <2>6, <2>7 DEF GateInv
<1>15. CASE Comicvine!ReadHealth
  <2>1. /\ UNCHANGED <<cvNow, cvLast, cvLedger, cvQueue, cvCall, cvCooldown, cvAuthFailed, cvListing>>
        /\ cvConsecutive' = 0 /\ cvDegraded' = FALSE /\ cvNow >= cvCooldown
    BY <1>15 DEF Comicvine!ReadHealth
  <2>2. /\ cvNow \in 0..MaxNow /\ MaxNow \in Nat /\ cvCooldown \in Int /\ cvListing \in Seq(Listable)
        /\ cvNow' >= cvNow
    BY <1>1, <2>1, ProvidersAssumption DEF GateTypes, Comicvine!GateAssumption
  <2>3. Comicvine!CoolingIsShown'
    BY <2>1, <2>2 DEF Comicvine!CoolingIsShown
  <2> QED
    BY <1>14, <2>1, <2>2, <2>3
<1>16. CASE Comicvine!Shift
  <2>1. UNCHANGED <<cvNow, cvLast, cvLedger, cvQueue, cvCall, cvCooldown, cvAuthFailed, cvConsecutive, cvDegraded>>
    BY <1>16 DEF Comicvine!Shift, Comicvine!gate
  <2>2. PICK kind \in Shifts, i \in 1..Len(cvListing) :
          cvListing' = IF kind = "new" THEN Append(cvListing, kind) ELSE Comicvine!RemoveAt(cvListing, i)
    BY <1>16 DEF Comicvine!Shift
  <2>3. cvListing \in Seq(Listable)
    BY <1>1 DEF GateTypes
  <2>6. \A x \in Listable : Append(cvListing, x) \in Seq(Listable)
    BY <2>3, AppendProperties
  <2>7. "new" \in Listable
    BY DEF Listable
  <2>8. Append(cvListing, "new") \in Seq(Listable)
    BY <2>6, <2>7
  <2>4. Comicvine!RemoveAt(cvListing, i) \in Seq(Listable)
    BY <2>3, PlaceRemoved
  <2>5. cvListing' \in Seq(Listable)
    BY <2>2, <2>4, <2>8
  <2> QED
    BY <1>1, <1>14, <2>1, <2>5 DEF GateTypes, Comicvine!CoolingIsShown
<1>17. CASE Comicvine!Tick
  <2>1. /\ UNCHANGED <<cvLast, cvLedger, cvQueue, cvCall, cvCooldown, cvAuthFailed, cvConsecutive,
                       cvDegraded, cvListing>>
        /\ cvNow < MaxNow /\ cvNow' = cvNow + 1
    BY <1>17 DEF Comicvine!Tick, Comicvine!gate
  <2>2. /\ cvNow \in 0..MaxNow /\ MaxNow \in Nat /\ cvCooldown \in Int /\ cvConsecutive \in Nat
        /\ cvDegraded \in BOOLEAN /\ cvAuthFailed \in BOOLEAN /\ cvListing \in Seq(Listable)
    BY <1>1, ProvidersAssumption DEF GateTypes, Comicvine!GateAssumption
  <2>3. cvNow' \in 0..MaxNow /\ cvNow' >= cvNow
    BY <2>1, <2>2
  <2>4. Comicvine!CoolingIsShown'
    BY <1>1, <2>1, <2>2 DEF Comicvine!CoolingIsShown
  <2> QED
    BY <1>14, <2>1, <2>2, <2>3, <2>4
<1>18. CASE UNCHANGED cvVars
  BY <1>1, <1>14, <1>18, ProvidersAssumption
     DEF cvVars, GateTypes, Comicvine!CoolingIsShown, Comicvine!GateAssumption
<1> QED
  BY <1>6, <1>7, <1>8, <1>9, <1>10, <1>12, <1>13, <1>15, <1>16, <1>17, <1>18
     DEF Comicvine!Next, Comicvine!Pass, Comicvine!Request

\* However calls overlap, ComicVine is asked within the spacing and the budgets.
THEOREM GateIsSound == Spec => []GateSound
<1>1. Init => GateInv
  BY GateInit DEF Init
<1>2. GateInv /\ [Next]_vars => GateInv'
  BY OneActs, GateStep
<1>3. GateInv => GateSound
  <2> SUFFICES ASSUME GateInv
               PROVE  Comicvine!TypeOK /\ Comicvine!WithinLimits /\ Comicvine!CoolingIsShown
    BY DEF GateSound
  <2>1. Comicvine!WithinLimits
    BY GateNumbers DEF GateInv, Paced, Afforded, Comicvine!WithinLimits
  <2>2. \A i \in 1..Len(cvLedger) : cvLedger[i].lane \in {"batch", "interactive"}
    <3>1. \A i \in 1..Len(cvLedger) : cvLedger[i] \in Entries
      BY DEF GateInv, GateTypes
    <3> QED
      BY <3>1 DEF Entries
  <2>3. \A c \in Callers : cvCall[c].pc \in {"idle", "queued", "asleep", "sent"}
    BY DEF GateInv, GateTypes, Asking
  <2>4. Comicvine!TypeOK
    BY <2>2, <2>3 DEF GateInv, GateTypes, Queued, Comicvine!TypeOK
  <2> QED
    BY <2>1, <2>4 DEF GateInv
<1> QED
  BY <1>1, <1>2, <1>3, PTL DEF Spec

(***************************************************************************)
(* MetadataGate: what a complete walk returned.  The list is taken to grow *)
(* only, at its end, as one ordered by cover date does: an issue dropped   *)
(* from an earlier page moves the rest past the walk.                      *)
(***************************************************************************)
\* The pages of a walk are the beginning of what ComicVine lists.
Walked(c) == (cvCall[c].pc # "idle" /\ Method[c] = "pages") =>
  /\ Len(cvCall[c].items) = cvCall[c].page * PageSize
  /\ Len(cvCall[c].items) <= Len(cvListing)
  /\ \A i \in 1..Len(cvCall[c].items) : cvCall[c].items[i] = cvListing[i]
Whole(c) == (Method[c] = "pages" /\ cvResult[c].end = "complete") =>
  cvResult[c].was \subseteq Comicvine!Issues(cvResult[c].items)

WholeInv == GateInv /\ DOMAIN cvResult = Callers /\ \A c \in Callers : Walked(c) /\ Whole(c)

\* The page that arrives goes on where the last one ended.
LEMMA NextPage == \A p, z \in Nat : p * z \in Nat /\ (p + 1) * z \in Nat /\ (p + 1) * z = p * z + z
OBVIOUS

LEMMA PageFits ==
  ASSUME GateTypes, NEW c \in Callers, cvCall[c].pc # "idle", Method[c] = "pages", Walked(c)
  PROVE  LET g == Comicvine!Gathered(c)
             r == (cvCall[c].page + 1) * PageSize
         IN /\ Len(g) = Comicvine!Smaller(r, Len(cvListing))
            /\ \A i \in 1..Len(g) : g[i] = cvListing[i]
            /\ g \in Seq(Listable)
<1> DEFINE s == cvCall[c].items
           k == cvCall[c].page * PageSize
           r == (cvCall[c].page + 1) * PageSize
           n == Len(cvListing)
           m == Comicvine!Smaller(r, n)
           t == SubSeq(cvListing, k + 1, m)
<1>1. /\ s \in Seq(Listable) /\ cvCall[c].page \in Nat /\ PageSize \in Nat
      /\ cvListing \in Seq(Listable) /\ n \in Nat
  <2>1. cvCall[c] \in Asking /\ cvListing \in Seq(Listable) /\ n \in Nat
    BY DEF GateTypes
  <2>2. s \in Seq(Listable) /\ cvCall[c].page \in Nat
    BY <2>1 DEF Asking
  <2>3. PageSize \in Nat
    BY ProvidersAssumption DEF Comicvine!GateAssumption
  <2> QED
    BY <2>1, <2>2, <2>3
<1>2. k \in Nat /\ r \in Nat /\ r = k + PageSize
  BY <1>1, NextPage
<1>3. Len(s) = k /\ k <= n /\ \A i \in 1..k : s[i] = cvListing[i]
  BY DEF Walked
<1>4. Comicvine!Gathered(c) = s \o t
  BY DEF Comicvine!Gathered
<1>5. m = IF r < n THEN r ELSE n
  BY DEF Comicvine!Smaller
<1> HIDE DEF s, k, r, m, n
<1>7. m \in Nat /\ k <= m /\ m <= n
  BY <1>1, <1>2, <1>3, <1>5
<1>8. /\ t \in Seq(Listable) /\ Len(t) = m - k
      /\ \A i \in 1..(m - k) : t[i] = cvListing[k + i]
  <2>1. \A i \in (k + 1)..m : cvListing[i] \in Listable
    BY <1>1, <1>2, <1>7, ElementOfSeq DEF n
  <2>2. /\ t \in Seq(Listable)
        /\ Len(t) = IF k + 1 <= m THEN m - (k + 1) + 1 ELSE 0
        /\ \A i \in 1..(m - (k + 1) + 1) : t[i] = cvListing[(k + 1) + i - 1]
    BY <1>2, <1>7, <2>1, SubSeqProperties
  <2>3. m - (k + 1) + 1 = m - k /\ \A i \in Int : (k + 1) + i - 1 = k + i
    BY <1>2, <1>7
  <2> HIDE DEF t
  <2> QED
    BY <1>2, <1>7, <2>2, <2>3
<1> HIDE DEF t
<1>9. /\ s \o t \in Seq(Listable) /\ Len(s \o t) = m
      /\ \A i \in 1..m : (s \o t)[i] = cvListing[i]
  <2>4. /\ s \o t \in Seq(Listable) /\ Len(s \o t) = Len(s) + Len(t)
        /\ \A i \in 1..(Len(s) + Len(t)) :
             (s \o t)[i] = IF i <= Len(s) THEN s[i] ELSE t[i - Len(s)]
    BY <1>1, <1>8, ConcatProperties
  <2>5. Len(s) = k /\ Len(t) = m - k
    BY <1>3, <1>8
  <2>1. /\ s \o t \in Seq(Listable) /\ Len(s \o t) = k + (m - k)
        /\ \A i \in 1..(k + (m - k)) : (s \o t)[i] = IF i <= k THEN s[i] ELSE t[i - k]
    BY <2>4, <2>5
  <2>2. k + (m - k) = m
    BY <1>2, <1>7
  <2>3. ASSUME NEW i \in 1..m PROVE (s \o t)[i] = cvListing[i]
    <3>1. CASE i <= k
      BY <1>2, <1>3, <2>1, <2>2, <3>1
    <3>2. CASE ~(i <= k)
      <4>1. i - k \in 1..(m - k) /\ k + (i - k) = i
        BY <1>2, <1>7, <3>2
      <4> QED
        BY <1>8, <2>1, <2>2, <3>2, <4>1
    <3> QED
      BY <3>1, <3>2
  <2> QED
    BY <2>1, <2>2, <2>3
<1> QED
  BY <1>4, <1>9 DEF m, n, r

LEMMA WholeStep ==
  ASSUME WholeInv, GateInv', [Comicvine!Next]_cvVars, Shifts \subseteq {"new"}
  PROVE  WholeInv'
<1> DEFINE Same(c) == cvCall'[c] = cvCall[c] /\ cvResult'[c] = cvResult[c]
<1>1. /\ GateTypes /\ cvCall \in [Callers -> Asking] /\ DOMAIN cvResult = Callers
      /\ cvListing \in Seq(Listable) /\ Len(cvListing) \in Nat
  BY DEF WholeInv, GateInv, GateTypes
\* What a step of one caller leaves of the others.
<1>2. ASSUME NEW c \in Callers, UNCHANGED cvListing, \A d \in Callers \ {c} : Same(d),
             DOMAIN cvResult' = Callers, Walked(c)', Whole(c)'
      PROVE  WholeInv'
  <2>1. ASSUME NEW d \in Callers PROVE Walked(d)' /\ Whole(d)'
    <3>1. CASE d = c
      BY <1>2, <3>1
    <3>2. CASE d # c
      <4>1. Same(d) /\ UNCHANGED cvListing /\ Walked(d) /\ Whole(d)
        BY <1>2, <2>1, <3>2 DEF WholeInv
      <4> QED
        BY <4>1 DEF Walked, Whole, Comicvine!Issues
    <3> QED
      BY <3>1, <3>2
  <2> QED
    BY <1>2, <2>1 DEF WholeInv
\* A call ends.
<1>3. ASSUME NEW c \in Callers, NEW end, NEW items, UNCHANGED cvListing,
             Comicvine!Return(c, end, items),
             Method[c] # "pages" \/ end # "complete" \/ Comicvine!Issues(cvListing) \subseteq Comicvine!Issues(items)
      PROVE  WholeInv'
  <2>1. /\ cvCall'[c].pc = "idle" /\ \A d \in Callers \ {c} : Same(d)
        /\ DOMAIN cvResult' = Callers
        /\ cvResult'[c] = [end |-> end, items |-> items,
                           was |-> cvCall[c].was \intersect Comicvine!Issues(cvListing)]
    BY <1>1, <1>3 DEF Comicvine!Return, Comicvine!NoCall
  <2>2. Walked(c)'
    BY <2>1 DEF Walked
  <2>3. /\ cvResult'[c].end = end /\ cvResult'[c].items = items
        /\ cvResult'[c].was \subseteq Comicvine!Issues(cvListing)
    BY <2>1
  <2>4. Whole(c)'
    <3> DEFINE listed == Comicvine!Issues(cvListing)
               kept == Comicvine!Issues(items)
    <3>1. (Method[c] = "pages" /\ end = "complete") => listed \subseteq kept
      BY <1>3
    <3>2. (Method[c] = "pages" /\ end = "complete") => cvResult'[c].was \subseteq kept
      BY <2>3, <3>1
    <3>3. Comicvine!Issues(cvResult[c].items)' = kept
      BY <2>3 DEF Comicvine!Issues
    <3> HIDE DEF listed, kept
    <3> QED
      BY <2>3, <3>2, <3>3 DEF Whole
  <2> QED
    BY <1>2, <1>3, <2>1, <2>2, <2>4
\* A request is asked for.
<1>4. ASSUME NEW c \in Callers, NEW walk \in Asking, UNCHANGED cvListing, Comicvine!Ask(c, walk),
             Method[c] = "pages" =>
               /\ Len(walk.items) = walk.page * PageSize
               /\ Len(walk.items) <= Len(cvListing)
               /\ \A i \in 1..Len(walk.items) : walk.items[i] = cvListing[i]
      PROVE  WholeInv'
  <2>1. CASE Comicvine!Return(c, "budget", <<>>)
    BY <1>3, <1>4, <2>1
  <2>2. CASE UNCHANGED cvResult /\ cvCall' = [cvCall EXCEPT ![c] = [walk EXCEPT !.pc = "queued"]]
    <3>1. /\ [walk EXCEPT !.pc = "queued"].items = walk.items
          /\ [walk EXCEPT !.pc = "queued"].page = walk.page
      BY DEF Asking
    <3>2. /\ cvCall'[c].items = walk.items /\ cvCall'[c].page = walk.page
          /\ \A d \in Callers \ {c} : Same(d)
      BY <1>1, <2>2, <3>1
    <3>3. Walked(c)' /\ Whole(c)'
      <4>1. Walked(c)'
        BY <1>4, <3>2 DEF Walked
      <4>2. Whole(c)
        BY DEF WholeInv
      <4> QED
        BY <2>2, <4>1, <4>2 DEF Whole, Comicvine!Issues
    <3> QED
      BY <1>1, <1>2, <1>4, <2>2, <3>2, <3>3
  <2> QED
    BY <1>4, <2>1, <2>2 DEF Comicvine!Ask
\* A request is let through, or falls asleep before it.
<1>5. ASSUME NEW c \in Callers, UNCHANGED <<cvListing, cvResult>>, cvCall[c].pc # "idle",
             cvCall'[c].items = cvCall[c].items, cvCall'[c].page = cvCall[c].page,
             \A d \in Callers \ {c} : cvCall'[d] = cvCall[d]
      PROVE  WholeInv'
  <2>1. Walked(c) /\ Whole(c)
    BY DEF WholeInv
  <2>2. Walked(c)' /\ Whole(c)'
    BY <1>5, <2>1 DEF Walked, Whole, Comicvine!Issues
  <2> QED
    BY <1>1, <1>2, <1>5, <2>2
<1>6. ASSUME NEW c \in Callers, Comicvine!Admit(c), cvCall[c].pc # "idle"
      PROVE  WholeInv'
  <2>1. cvCall' = [cvCall EXCEPT ![c].pc = "sent"] /\ UNCHANGED <<cvListing, cvResult>>
    BY <1>6 DEF Comicvine!Admit
  <2>2. \A q \in Asking : [q EXCEPT !.pc = "sent"].items = q.items /\ [q EXCEPT !.pc = "sent"].page = q.page
    BY DEF Asking
  <2>3. cvCall' = [cvCall EXCEPT ![c] = [cvCall[c] EXCEPT !.pc = "sent"]]
    BY <2>1
  <2>4. /\ cvCall'[c].items = cvCall[c].items /\ cvCall'[c].page = cvCall[c].page
        /\ \A d \in Callers \ {c} : cvCall'[d] = cvCall[d]
    BY <1>1, <2>2, <2>3
  <2> QED
    BY <1>5, <1>6, <2>1, <2>4
<1>7. ASSUME NEW c \in Callers, Comicvine!Pass(c)
      PROVE  WholeInv'
  <2>1. CASE Comicvine!Cancel(c)
    BY <1>3, <2>1 DEF Comicvine!Cancel
  <2>2. CASE Comicvine!Wake(c)
    BY <1>6, <2>2 DEF Comicvine!Wake
  <2>3. CASE Comicvine!Take(c)
    <3>1. cvCall[c].pc = "queued"
      BY <2>3 DEF Comicvine!Take
    <3>2. CASE Comicvine!Refused(c)
      BY <1>3, <2>3, <3>2 DEF Comicvine!Take
    <3>3. CASE Comicvine!Admit(c)
      BY <1>6, <3>1, <3>3
    <3>4. CASE /\ cvCall' = [cvCall EXCEPT ![c].pc = "asleep", ![c].due = Comicvine!Due]
               /\ UNCHANGED <<cvListing, cvResult>>
      <4> DEFINE due == Comicvine!Due
                 q2 == [cvCall[c] EXCEPT !.pc = "asleep", !.due = due]
      <4>1. cvCall[c] \in Asking
        BY <1>1
      <4>2. q2.items = cvCall[c].items /\ q2.page = cvCall[c].page
        BY <4>1 DEF Asking
      <4>3. cvCall' = [cvCall EXCEPT ![c] = q2]
        BY <1>1, <3>4
      <4> HIDE DEF q2, due
      <4>4. /\ cvCall'[c].items = cvCall[c].items /\ cvCall'[c].page = cvCall[c].page
            /\ \A d \in Callers \ {c} : cvCall'[d] = cvCall[d]
        BY <1>1, <4>2, <4>3
      <4> QED
        BY <1>5, <3>1, <3>4, <4>4
    <3> QED
      BY <2>3, <3>2, <3>3, <3>4 DEF Comicvine!Take
  <2> QED
    BY <1>7, <2>1, <2>2, <2>3 DEF Comicvine!Pass
<1>8. ASSUME NEW c \in Callers, Comicvine!Begin(c)
      PROVE  WholeInv'
  <2> DEFINE w == [Comicvine!NoCall EXCEPT !.was = Comicvine!Issues(cvListing)]
  <2>1. w \in Asking
    BY <1>1, Gathers
  <2>2. w.items = <<>> /\ w.page = 0
    BY DEF Comicvine!NoCall
  <2>3. Comicvine!Ask(c, w) /\ UNCHANGED cvListing
    BY <1>8 DEF Comicvine!Begin
  <2> HIDE DEF w
  <2>4. Len(w.items) = 0 /\ w.page * PageSize = 0
    BY <2>2, ProvidersAssumption DEF Comicvine!GateAssumption
  <2>5. /\ Len(w.items) = w.page * PageSize
        /\ Len(w.items) <= Len(cvListing)
        /\ \A i \in 1..Len(w.items) : w.items[i] = cvListing[i]
    BY <1>1, <2>4
  <2> QED
    BY <1>4, <2>1, <2>3, <2>5
<1>9. ASSUME NEW c \in Callers, Comicvine!PageArrives(c), cvCall[c].pc = "sent", Method[c] = "pages",
             UNCHANGED cvListing
      PROVE  WholeInv'
  <2> DEFINE g == Comicvine!Gathered(c)
             r == (cvCall[c].page + 1) * PageSize
             n == Len(cvListing)
             w == [cvCall[c] EXCEPT !.items = g, !.page = @ + 1]
  <2>1. Len(g) = Comicvine!Smaller(r, n) /\ (\A i \in 1..Len(g) : g[i] = cvListing[i]) /\ g \in Seq(Listable)
    BY <1>1, <1>9, PageFits DEF WholeInv
  <2>2. w \in Asking /\ r \in Nat /\ n \in Nat
    <3>1. cvCall[c].page \in Nat /\ PageSize \in Nat
      <4>1. cvCall[c] \in Asking
        BY <1>1
      <4> QED
        BY <4>1, ProvidersAssumption DEF Asking, Comicvine!GateAssumption
    <3>2. r \in Nat
      BY <3>1
    <3>3. w \in Asking
      BY <1>1, Gathers
    <3> QED
      BY <1>1, <3>2, <3>3
  <2>3. w.items = g /\ w.page = cvCall[c].page + 1
    <3>1. cvCall[c] \in Asking
      BY <1>1
    <3> HIDE DEF g
    <3> QED
      BY <3>1 DEF Asking
  <2>4. CASE Comicvine!GoesOn(c)
    <3>1. Comicvine!Ask(c, w) /\ r < n
      BY <1>9, <2>4 DEF Comicvine!PageArrives, Comicvine!GoesOn
    <3> HIDE DEF w, g, n
    <3>2. Len(g) = r
      BY <2>1, <2>2, <3>1 DEF Comicvine!Smaller
    <3>3. /\ Len(w.items) = w.page * PageSize
          /\ Len(w.items) <= n
          /\ \A i \in 1..Len(w.items) : w.items[i] = cvListing[i]
      BY <2>1, <2>2, <2>3, <3>1, <3>2
    <3> HIDE DEF r
    <3> QED
      BY <1>4, <1>9, <2>2, <3>1, <3>3 DEF n
  <2>5. CASE ~Comicvine!GoesOn(c)
    <3> DEFINE end == IF ~Comicvine!Capped(c) /\ Len(g) >= Len(cvListing) THEN "complete" ELSE "partial"
               items == SubSeq(g, 1, Comicvine!Smaller(Len(g), ItemCap))
    <3>1. Comicvine!Return(c, end, items)
      BY <1>9, <2>5 DEF Comicvine!PageArrives
    <3>2. end = "complete" => Comicvine!Issues(cvListing) \subseteq Comicvine!Issues(items)
      <4> SUFFICES ASSUME ~(Len(g) >= ItemCap), Len(g) >= Len(cvListing)
                   PROVE  Comicvine!Issues(cvListing) \subseteq Comicvine!Issues(items)
        BY DEF Comicvine!Capped
      <4>1. Len(g) \in Nat /\ ItemCap \in Nat
        BY <2>1, LenProperties, ProvidersAssumption DEF Comicvine!GateAssumption
      <4> HIDE DEF g
      <4>2. items = SubSeq(g, 1, Len(g))
        BY <4>1 DEF Comicvine!Smaller
      <4>3. \A i \in 1..Len(g) : g[i] \in Listable
        BY <2>1, ElementOfSeq
      <4>4. Len(items) = Len(g) /\ \A i \in 1..Len(g) : items[i] = g[i]
        <5>1. /\ Len(SubSeq(g, 1, Len(g))) = IF 1 <= Len(g) THEN Len(g) - 1 + 1 ELSE 0
              /\ \A i \in 1..(Len(g) - 1 + 1) : SubSeq(g, 1, Len(g))[i] = g[1 + i - 1]
          BY <4>1, <4>3, SubSeqProperties
        <5> DEFINE l == Len(g)
        <5>2. /\ l - 1 + 1 = l /\ l \in Nat
              /\ \A i \in 1..l : 1 + i - 1 = i
          BY <4>1
        <5> HIDE DEF l
        <5>3. (IF 1 <= l THEN l - 1 + 1 ELSE 0) = l
          BY <5>2
        <5> QED
          BY <4>2, <5>1, <5>2, <5>3 DEF l
      <4> HIDE DEF items
      <4>5. \A i \in 1..Len(cvListing) : i \in 1..Len(items) /\ items[i] = cvListing[i]
        BY <1>1, <2>1, <4>1, <4>4
      <4> QED
        BY <4>5 DEF Comicvine!Issues
    <3> HIDE DEF end, items
    <3> QED
      BY <1>3, <1>9, <3>1, <3>2
  <2> QED
    BY <2>4, <2>5
<1>10. ASSUME NEW c \in Callers, Comicvine!Answered(c)
       PROVE  WholeInv'
  <2>1. cvCall[c].pc = "sent" /\ UNCHANGED cvListing
    BY <1>10 DEF Comicvine!Answered
  <2>2. CASE Method[c] = "pages"
    BY <1>9, <1>10, <2>1, <2>2 DEF Comicvine!Answered
  <2>3. CASE Method[c] = "chunks"
    <3> DEFINE w == [cvCall[c] EXCEPT !.page = @ + 1]
    <3>1. Comicvine!ChunkArrives(c)
      BY <1>10, <2>3 DEF Comicvine!Answered
    <3>2. w \in Asking
      BY <1>1, Gathers
    <3>3. Comicvine!Ask(c, w) \/ Comicvine!Return(c, "complete", Volume)
      BY <3>1 DEF Comicvine!ChunkArrives
    <3> HIDE DEF w
    <3> QED
      BY <1>3, <1>4, <2>1, <2>3, <3>2, <3>3
  <2>4. CASE Method[c] \in {"single", "suggest"}
    <3>1. Comicvine!Return(c, "complete", <<>>)
      BY <1>10, <2>4 DEF Comicvine!Answered
    <3> QED
      BY <1>3, <2>1, <2>4, <3>1
  <2>5. Method[c] \in {"pages", "chunks", "single", "suggest"}
    BY ProvidersAssumption DEF Comicvine!GateAssumption
  <2> QED
    BY <2>2, <2>3, <2>4, <2>5
<1>11. ASSUME NEW c \in Callers, Comicvine!Broken(c), UNCHANGED cvListing
       PROVE  WholeInv'
  <2>1. \/ Comicvine!Return(c, "partial", cvCall[c].items)
        \/ Comicvine!Return(c, "partial", <<>>)
        \/ Comicvine!Return(c, "error", <<>>)
    BY <1>11, ProvidersAssumption DEF Comicvine!GateAssumption, Comicvine!Broken
  <2> QED
    BY <1>3, <1>11, <2>1
<1>12. ASSUME NEW c \in Callers, Comicvine!RateLimited(c) \/ Comicvine!Denied(c) \/ Comicvine!Unavailable(c)
       PROVE  WholeInv'
  <2>1. UNCHANGED cvListing /\ (Comicvine!Broken(c) \/ Comicvine!Return(c, "auth", <<>>))
    BY <1>12 DEF Comicvine!RateLimited, Comicvine!Denied, Comicvine!Unavailable
  <2> QED
    BY <1>3, <1>11, <2>1
\* ComicVine lists one more.
<1>13. CASE Comicvine!Shift
  <2>1. cvListing' = Append(cvListing, "new") /\ UNCHANGED <<cvCall, cvResult>>
    BY <1>13 DEF Comicvine!Shift
  <2>2. /\ Len(cvListing') = Len(cvListing) + 1
        /\ \A i \in 1..Len(cvListing) : cvListing'[i] = cvListing[i]
    <3>1. "new" \in Listable
      BY DEF Listable
    <3> QED
      BY <1>1, <2>1, <3>1, AppendProperties
  <2>3. ASSUME NEW c \in Callers PROVE Walked(c)' /\ Whole(c)'
    <3>1. Walked(c) /\ Whole(c)
      BY DEF WholeInv
    <3>2. Len(cvCall[c].items) \in Nat
      BY <1>1 DEF Asking
    <3>3. Walked(c)'
      <4> SUFFICES ASSUME cvCall[c].pc # "idle", Method[c] = "pages"
                   PROVE  /\ Len(cvCall[c].items) = cvCall[c].page * PageSize
                          /\ Len(cvCall[c].items) <= Len(cvListing')
                          /\ \A i \in 1..Len(cvCall[c].items) : cvCall[c].items[i] = cvListing'[i]
        BY <2>1 DEF Walked
      <4>1. /\ Len(cvCall[c].items) = cvCall[c].page * PageSize
            /\ Len(cvCall[c].items) <= Len(cvListing)
            /\ \A i \in 1..Len(cvCall[c].items) : cvCall[c].items[i] = cvListing[i]
        BY <3>1 DEF Walked
      <4> QED
        BY <1>1, <2>2, <3>2, <4>1
    <3> QED
      BY <2>1, <3>1, <3>3 DEF Whole, Comicvine!Issues
  <2> QED
    BY <1>1, <2>1, <2>3 DEF WholeInv
<1>14. CASE UNCHANGED <<cvListing, cvCall, cvResult>>
  BY <1>14 DEF WholeInv, Walked, Whole, Comicvine!Issues
<1> QED
  BY <1>7, <1>8, <1>10, <1>12, <1>13, <1>14
     DEF Comicvine!Next, Comicvine!Request, Comicvine!ReadHealth, Comicvine!Tick, cvVars

\* While the list only grows at its end, a walk that calls itself complete
\* returned every issue that was listed from its first page to its last.
THEOREM CompleteWalksAreWhole ==
  ASSUME Shifts \subseteq {"new"}
  PROVE  Spec => []CompleteIsWhole
<1>1. Init => WholeInv
  <2> SUFFICES ASSUME Comicvine!Init PROVE WholeInv
    BY DEF Init
  <2>1. \A c \in Callers : cvCall[c].pc = "idle" /\ cvResult[c].end = "none"
    BY DEF Comicvine!Init, Comicvine!NoCall, Comicvine!NoResult
  <2>2. DOMAIN cvResult = Callers
    BY DEF Comicvine!Init
  <2> QED
    BY <2>1, <2>2, GateInit DEF WholeInv, Walked, Whole
<1>2. WholeInv /\ [Next]_vars => WholeInv'
  BY OneActs, GateStep, WholeStep DEF WholeInv
<1>3. WholeInv => CompleteIsWhole
  BY DEF WholeInv, Whole, CompleteIsWhole, Comicvine!CompleteIsWhole
<1> QED
  BY <1>1, <1>2, <1>3, PTL DEF Spec

(***************************************************************************)
(* PullList.                                                               *)
(***************************************************************************)
IsRow(r) == r \in [week : Weeks, e : {r.e}, type : {"id", "name_seq", "unmatched", "new_series"},
                   link : {r.link}]
IsLib(l) == l \in [watched : SUBSET Pull!Series, issue : {l.issue}, busy : {l.busy}, queue : {l.queue}]
IsJob(j) == j \in [at : {"idle", "fetch", "store", "ask"}, todo : Seq(Weeks), got : {j.got},
                   skipped : {j.skipped}, ask : {j.ask}, before : {j.before}]

PullTypes ==
  /\ pullSetting \in PullSettings /\ pullNow \in Weeks
  /\ DOMAIN pullFeed = Weeks /\ \A w \in Weeks : \A e \in pullFeed[w] : Pull!IsEntry(e)
  /\ IsLib(pullLib) /\ Pull!Known \subseteq Pull!IssueIds
  /\ IsJob(pullJob) /\ \A e \in pullJob.got : Pull!IsEntry(e)
  /\ \A r \in pullStore : IsRow(r)

\* A link leads to an issue of a series the entry names.
Sound(r) == r.link # Nobody => r.link \in Pull!Known /\ Key[r.link[1]] = r.e.key

\* While the weeks are fetched nothing but links is lost.
PullInv ==
  /\ PullTypes /\ \A r \in pullStore : Sound(r)
  /\ pullJob.at = "fetch" => Pull!Entries(pullStore) = Pull!Entries(pullJob.before)

LEMMA NoPullJob == IsJob(Pull!NoJob) /\ Pull!NoJob.got = {} /\ Pull!NoJob.at = "idle"
<1>1. <<>> \in Seq(Weeks)
  OBVIOUS
<1> QED
  BY <1>1 DEF IsJob, Pull!NoJob

LEMMA PullInit == ASSUME Pull!Init PROVE PullInv
<1>1. pullSetting \in PullSettings /\ pullNow \in Weeks /\ pullFeed = pullSetting.feed
  BY ProvidersAssumption DEF Pull!Init, Pull!PullAssumption
<1>2. DOMAIN pullFeed = Weeks /\ \A w \in Weeks : \A e \in pullFeed[w] : Pull!IsEntry(e)
  BY <1>1, ProvidersAssumption DEF Pull!PullAssumption
<1>3. IsLib(pullLib) /\ pullLib.issue = <<>>
  BY <1>1, ProvidersAssumption DEF Pull!Init, Pull!PullAssumption, IsLib
<1>4. Pull!Known = {}
  BY <1>3 DEF Pull!Known
<1>5. IsJob(pullJob) /\ pullJob.got = {} /\ pullJob.at = "idle" /\ pullStore = {}
  BY NoPullJob DEF Pull!Init
<1> QED
  BY <1>1, <1>2, <1>3, <1>4, <1>5 DEF PullInv, PullTypes

\* The weeks a run asks for are weeks of the calendar.
LEMMA AskedWeeks == ASSUME pullNow \in Weeks PROVE Pull!Asked \in Seq(Weeks)
<1> USE ProvidersAssumption DEF Pull!PullAssumption
<1>1. \A w : Pull!InCalendar(w) \in Seq(Weeks)
  BY DEF Pull!InCalendar
<1>2. pullNow \in Nat /\ 1..pullNow \subseteq Weeks
  OBVIOUS
<1> DEFINE m == IF pullNow - 2 < Back THEN pullNow - 2 ELSE Back
<1>3. m \in Int /\ m <= pullNow - 2 /\ Back \in Nat
  BY <1>2
<1>4. Pull!Older = [k \in 1..m |-> pullNow - 1 - k]
  BY DEF Pull!Older
<1> HIDE DEF m
<1>5. \A k \in 1..m : pullNow - 1 - k \in Weeks
  <2> TAKE k \in 1..m
  <2>1. pullNow - 1 - k \in 1..pullNow
    BY <1>2, <1>3
  <2> QED
    BY <1>2, <2>1
<1>6. Pull!Older \in Seq(Weeks)
  <2>1. CASE m >= 0
    <3>1. m \in Nat /\ Pull!Older \in [1..m -> Weeks]
      BY <1>3, <1>4, <1>5, <2>1
    <3> QED
      BY <3>1, SeqDef
  <2>2. CASE m < 0
    <3>1. 1..m = 1..0
      BY <1>3, <2>2
    <3>2. Pull!Older \in [1..0 -> Weeks]
      BY <1>4, <1>5, <3>1
    <3> QED
      BY <3>2, SeqDef
  <2> QED
    BY <1>3, <2>1, <2>2
<1>7. <<pullNow>> \in Seq(Weeks) /\ <<>> \in Seq(Weeks)
  OBVIOUS
<1>8. <<pullNow>> \o Pull!InCalendar(pullNow - 1) \in Seq(Weeks)
  BY <1>1, <1>7, ConcatProperties
<1>9. <<pullNow>> \o Pull!InCalendar(pullNow - 1) \o Pull!InCalendar(pullNow + 1) \in Seq(Weeks)
  BY <1>1, <1>8, ConcatProperties
<1> QED
  BY <1>6, <1>7, <1>9, ConcatProperties DEF Pull!Asked

\* However an entry is matched, its row is sound.
LEMMA RowSound ==
  ASSUME PullTypes, NEW e, Pull!IsEntry(e)
  PROVE  IsRow(Pull!RowOf(e)) /\ Sound(Pull!RowOf(e)) /\ Pull!RowOf(e).e = e
<1> DEFINE m == Pull!Matched(e)
<1>1. m.type \in {"id", "name_seq", "unmatched", "new_series"}
  BY DEF Pull!Matched
<1>2. m.link # Nobody => m.link \in Pull!Known /\ Key[m.link[1]] = e.key
  <2>1. CASE Pull!ById(e) # {}
    <3>1. m.link = e.id
      BY <2>1 DEF Pull!Matched
    <3> QED
      BY <2>1, <3>1 DEF Pull!ById, Pull!Named
  <2>2. CASE Pull!ById(e) = {} /\ Pull!ByName(e) # {}
    <3> DEFINE s == CHOOSE x \in Pull!ByName(e) : TRUE
    <3>1. s \in Pull!ByName(e)
      BY <2>2
    <3>2. m.link = IF <<s, e.n>> \in Pull!Known THEN <<s, e.n>> ELSE Nobody
      BY <2>2 DEF Pull!Matched
    <3> HIDE DEF s
    <3>3. Key[s] = e.key
      BY <3>1 DEF Pull!ByName, Pull!Named
    <3> QED
      BY <3>2, <3>3
  <2>3. CASE Pull!ById(e) = {} /\ Pull!ByName(e) = {}
    BY <2>3 DEF Pull!Matched
  <2> QED
    BY <2>1, <2>2, <2>3
<1> HIDE DEF m
<1>3. Pull!RowOf(e) = [week |-> e.ships, e |-> e, type |-> m.type, link |-> m.link]
  BY DEF Pull!RowOf, m
<1>4. e.ships \in Weeks
  BY DEF Pull!IsEntry
<1> QED
  BY <1>1, <1>2, <1>3, <1>4 DEF IsRow, Sound

\* What a step of the refresh of the list keeps, when it only moves the run.
LEMMA JobMoves ==
  ASSUME PullInv, UNCHANGED <<pullNow, pullFeed, pullStore, pullLib, pullSetting>>,
         IsJob(pullJob'), \A e \in pullJob'.got : Pull!IsEntry(e),
         pullJob'.at = "fetch" => Pull!Entries(pullStore) = Pull!Entries(pullJob'.before)
  PROVE  PullInv'
<1>1. UNCHANGED <<Pull!Known, Pull!Entries(pullStore)>>
  BY DEF Pull!Known, Pull!Entries
<1>2. PullTypes'
  BY <1>1 DEF PullInv, PullTypes, IsLib
<1>3. \A r \in pullStore' : Sound(r)'
  BY <1>1 DEF PullInv, Sound
<1> QED
  BY <1>1, <1>2, <1>3 DEF PullInv, Pull!Entries

\* The run itself: it is asked for, fetches, stores and ends.
LEMMA RunStep ==
  ASSUME PullInv,
         \/ Pull!Start \/ Pull!FetchWeek \/ Pull!FetchSkips \/ Pull!FetchFails \/ Pull!FetchEnds
         \/ Pull!Done \/ Pull!Crash
  PROVE  PullInv'
<1> USE DEF IsJob
<1>1. IsJob(pullJob) /\ \A e \in pullJob.got : Pull!IsEntry(e)
  BY DEF PullInv, PullTypes
<1>2. CASE pullJob' = Pull!NoJob /\ UNCHANGED <<pullNow, pullFeed, pullStore, pullLib, pullSetting>>
  BY <1>2, NoPullJob, JobMoves
<1>3. CASE Pull!Start
  <2>1. pullJob' = [Pull!NoJob EXCEPT !.at = "fetch", !.todo = Pull!Asked, !.before = pullStore]
    BY <1>3 DEF Pull!Start
  <2>2. Pull!Asked \in Seq(Weeks)
    BY AskedWeeks DEF PullInv, PullTypes
  <2>3. /\ pullJob'.got = {} /\ pullJob'.before = pullStore
        /\ IsJob(pullJob')
    BY <2>1, <2>2, NoPullJob
  <2> QED
    BY <1>3, <2>3, JobMoves DEF Pull!Start
<1>4. ASSUME Pull!Fetching PROVE Head(pullJob.todo) \in Weeks /\ Tail(pullJob.todo) \in Seq(Weeks)
  BY <1>1, <1>4 DEF Pull!Fetching
<1>5. CASE Pull!FetchWeek
  <2> DEFINE w == Head(pullJob.todo)
  <2>1. pullJob' = [pullJob EXCEPT !.todo = Tail(pullJob.todo), !.got = pullJob.got \cup pullFeed[w]]
    BY <1>5 DEF Pull!FetchWeek
  <2>2. Pull!Fetching
    BY <1>5 DEF Pull!FetchWeek
  <2>3. \A e \in pullFeed[w] : Pull!IsEntry(e)
    BY <1>4, <2>2 DEF PullInv, PullTypes
  <2>4. /\ pullJob'.at = "fetch" /\ pullJob'.before = pullJob.before
        /\ pullJob'.got = pullJob.got \cup pullFeed[w]
        /\ IsJob(pullJob')
    BY <1>1, <1>4, <2>1, <2>2 DEF Pull!Fetching
  <2>5. Pull!Entries(pullStore) = Pull!Entries(pullJob.before)
    BY <2>2 DEF PullInv, Pull!Fetching
  <2> HIDE DEF IsJob
  <2> QED
    BY <1>1, <1>5, <2>3, <2>4, <2>5, JobMoves DEF Pull!FetchWeek
<1>6. CASE Pull!FetchSkips
  <2>1. Pull!Fetching /\ Pull!Skipping
    BY <1>6 DEF Pull!FetchSkips
  <2>2. /\ pullJob'.at = "fetch" /\ pullJob'.before = pullJob.before
        /\ pullJob'.got = pullJob.got
        /\ IsJob(pullJob')
    BY <1>1, <1>4, <2>1 DEF Pull!Fetching, Pull!Skipping
  <2>3. Pull!Entries(pullStore) = Pull!Entries(pullJob.before)
    BY <2>1 DEF PullInv, Pull!Fetching
  <2> HIDE DEF IsJob
  <2> QED
    BY <1>1, <1>6, <2>2, <2>3, JobMoves DEF Pull!FetchSkips
<1>7. CASE Pull!FetchEnds
  <2>1. pullJob' = [pullJob EXCEPT !.at = "store"]
    BY <1>7 DEF Pull!FetchEnds
  <2>2. pullJob'.at = "store" /\ pullJob'.got = pullJob.got /\ IsJob(pullJob')
    BY <1>1, <2>1
  <2> HIDE DEF IsJob
  <2> QED
    BY <1>1, <1>7, <2>2, JobMoves DEF Pull!FetchEnds
<1> QED
  BY <1>2, <1>3, <1>5, <1>6, <1>7 DEF Pull!FetchFails, Pull!Done, Pull!Crash

\* The weeks that were fetched are replaced, and the series that lack an issue are asked for.
LEMMA ReplaceStep == ASSUME PullInv, Pull!Replace \/ Pull!AskRefresh PROVE PullInv'
<1> USE DEF IsJob
<1>1. IsJob(pullJob) /\ \A e \in pullJob.got : Pull!IsEntry(e)
  BY DEF PullInv, PullTypes
<1>2. CASE Pull!Replace
  <2>1. /\ pullStore' = {r \in pullStore : \A e \in pullJob.got : e.ships # r.week}
                        \cup {Pull!RowOf(e) : e \in pullJob.got}
        /\ UNCHANGED <<pullNow, pullFeed, pullLib, pullSetting>>
    BY <1>2 DEF Pull!Replace
  <2> DEFINE ask == UNION {Pull!Matched(e).lacks : e \in pullJob.got}
  <2>2. pullJob' = [pullJob EXCEPT !.at = "ask", !.ask = ask]
    BY <1>2 DEF Pull!Replace
  <2> HIDE DEF ask
  <2>3. pullJob'.at = "ask" /\ pullJob'.got = pullJob.got /\ IsJob(pullJob')
    BY <1>1, <2>2
  <2>4. \A r \in pullStore' : IsRow(r) /\ Sound(r)
    <3> TAKE r \in pullStore'
    <3>1. CASE r \in pullStore
      BY <3>1 DEF PullInv, PullTypes
    <3>2. CASE \E e \in pullJob.got : r = Pull!RowOf(e)
      BY <1>1, <3>2, RowSound DEF PullInv
    <3> QED
      BY <2>1, <3>1, <3>2
  <2>5. UNCHANGED Pull!Known
    BY <2>1 DEF Pull!Known
  <2> HIDE DEF IsJob
  <2>6. PullTypes'
    BY <1>1, <2>1, <2>3, <2>4, <2>5 DEF PullInv, PullTypes, IsLib, IsRow
  <2> QED
    BY <2>3, <2>4, <2>5, <2>6 DEF PullInv, Sound
<1>3. CASE Pull!AskRefresh
  <2> DEFINE s == CHOOSE x \in pullJob.ask : TRUE
             queue == pullLib.queue \cup {s}
             ask == pullJob.ask \ {s}
  <2>1. /\ pullLib' = [pullLib EXCEPT !.queue = queue]
        /\ pullJob' = [pullJob EXCEPT !.ask = ask]
        /\ UNCHANGED <<pullNow, pullFeed, pullStore, pullSetting>> /\ pullJob.at = "ask"
    BY <1>3 DEF Pull!AskRefresh
  <2> HIDE DEF queue, ask
  <2>2. pullJob'.at = "ask" /\ pullJob'.got = pullJob.got /\ IsJob(pullJob')
    BY <1>1, <2>1
  <2>3. IsLib(pullLib)
    BY DEF PullInv, PullTypes
  <2>4. pullLib'.issue = pullLib.issue /\ IsLib(pullLib')
    BY <2>1, <2>3 DEF IsLib
  <2>5. UNCHANGED Pull!Known
    BY <2>4 DEF Pull!Known
  <2> HIDE DEF IsJob
  <2>6. PullTypes'
    BY <1>1, <2>1, <2>2, <2>4, <2>5 DEF PullInv, PullTypes, IsRow
  <2> QED
    BY <2>1, <2>2, <2>5, <2>6 DEF PullInv, Sound
<1> QED
  BY <1>2, <1>3

\* What a step of the library keeps, when no issue leaves it.
LEMMA LibGrows ==
  ASSUME PullInv, UNCHANGED <<pullNow, pullFeed, pullStore, pullJob, pullSetting>>,
         IsLib(pullLib'), Pull!Known \subseteq Pull!Known', Pull!Known' \subseteq Pull!IssueIds
  PROVE  PullInv'
<1>1. PullTypes'
  BY DEF PullInv, PullTypes, IsRow, IsJob, Pull!IssueIds, Pull!Series
<1>2. \A r \in pullStore' : Sound(r)'
  BY DEF PullInv, Sound
<1> QED
  BY <1>1, <1>2 DEF PullInv, Pull!Entries

LEMMA LibraryStep ==
  ASSUME PullInv,
         \/ \E s \in Pull!Series : Pull!AddSeries(s) \/ Pull!Refresh(s)
         \/ \E i \in Pull!IssueIds : Pull!Flag(i) \/ Pull!Download(i) \/ Pull!Import(i)
  PROVE  PullInv'
<1> USE DEF IsLib
<1>1. IsLib(pullLib) /\ Pull!Known \subseteq Pull!IssueIds
  BY DEF PullInv, PullTypes
<1>2. ASSUME NEW s \in Pull!Series, Pull!AddSeries(s) PROVE PullInv'
  <2> DEFINE watched == pullLib.watched \cup {s}
             queue == pullLib.queue \cup {s}
  <2>1. pullLib' = [pullLib EXCEPT !.watched = watched, !.queue = queue]
    BY <1>2 DEF Pull!AddSeries
  <2>2. watched \in SUBSET Pull!Series
    BY <1>1
  <2> HIDE DEF watched, queue
  <2>3. pullLib'.issue = pullLib.issue /\ IsLib(pullLib')
    BY <1>1, <2>1, <2>2
  <2>4. UNCHANGED Pull!Known
    BY <2>3 DEF Pull!Known
  <2> HIDE DEF IsLib
  <2> QED
    BY <1>1, <1>2, <2>3, <2>4, LibGrows DEF Pull!AddSeries
<1>3. ASSUME NEW s \in Pull!Series, Pull!Refresh(s) PROVE PullInv'
  <2> DEFINE new == {i \in DOMAIN pullSetting.listed : i[1] = s /\ s \in pullLib.watched} \ Pull!Known
             issue == [i \in Pull!Known \cup new |->
                         IF i \in Pull!Known THEN pullLib.issue[i]
                         ELSE [date |-> pullSetting.listed[i], mon |-> TRUE, file |-> FALSE]]
             queue == pullLib.queue \ {s}
  <2>1. pullLib' = [pullLib EXCEPT !.queue = queue, !.issue = issue]
    BY <1>3 DEF Pull!Refresh
  <2>2. DOMAIN issue = Pull!Known \cup new
    OBVIOUS
  <2>3. new \subseteq Pull!IssueIds
    BY ProvidersAssumption DEF PullInv, PullTypes, Pull!PullAssumption
  <2> HIDE DEF new, issue, queue
  <2>4. pullLib'.issue = issue /\ IsLib(pullLib')
    BY <1>1, <2>1
  <2>5. Pull!Known' = Pull!Known \cup new
    BY <2>2, <2>4 DEF Pull!Known
  <2> HIDE DEF IsLib
  <2>6. Pull!Known \subseteq Pull!Known' /\ Pull!Known' \subseteq Pull!IssueIds
    BY <1>1, <2>3, <2>5
  <2> QED
    BY <1>3, <2>4, <2>6, LibGrows DEF Pull!Refresh
<1>4. ASSUME NEW i \in Pull!IssueIds, Pull!Flag(i) PROVE PullInv'
  <2> DEFINE issue == [pullLib.issue EXCEPT ![i].mon = ~@]
  <2>1. pullLib' = [pullLib EXCEPT !.issue = issue]
    BY <1>1, <1>4 DEF Pull!Flag
  <2>2. DOMAIN issue = DOMAIN pullLib.issue
    OBVIOUS
  <2> HIDE DEF issue
  <2>3. pullLib'.issue = issue /\ IsLib(pullLib')
    BY <1>1, <2>1
  <2>4. UNCHANGED Pull!Known
    BY <2>2, <2>3 DEF Pull!Known
  <2> HIDE DEF IsLib
  <2> QED
    BY <1>1, <1>4, <2>3, <2>4, LibGrows DEF Pull!Flag
<1>5. ASSUME NEW i \in Pull!IssueIds, Pull!Download(i) PROVE PullInv'
  <2> DEFINE busy == pullLib.busy \cup {i}
  <2>1. pullLib' = [pullLib EXCEPT !.busy = busy]
    BY <1>5 DEF Pull!Download
  <2> HIDE DEF busy
  <2>2. pullLib'.issue = pullLib.issue /\ IsLib(pullLib')
    BY <1>1, <2>1
  <2>3. UNCHANGED Pull!Known
    BY <2>2 DEF Pull!Known
  <2> HIDE DEF IsLib
  <2> QED
    BY <1>1, <1>5, <2>2, <2>3, LibGrows DEF Pull!Download
<1>6. ASSUME NEW i \in Pull!IssueIds, Pull!Import(i) PROVE PullInv'
  <2> DEFINE busy == pullLib.busy \ {i}
             issue == [pullLib.issue EXCEPT ![i].file = TRUE]
  <2>1. pullLib' = [pullLib EXCEPT !.busy = busy, !.issue = issue]
    BY <1>1, <1>6 DEF Pull!Import
  <2>2. DOMAIN issue = DOMAIN pullLib.issue
    OBVIOUS
  <2> HIDE DEF busy, issue
  <2>3. pullLib'.issue = issue /\ IsLib(pullLib')
    BY <1>1, <2>1
  <2>4. UNCHANGED Pull!Known
    BY <2>2, <2>3 DEF Pull!Known
  <2> HIDE DEF IsLib
  <2> QED
    BY <1>1, <1>6, <2>3, <2>4, LibGrows DEF Pull!Import
<1> QED
  BY <1>2, <1>3, <1>4, <1>5, <1>6

\* A series leaves with its issues, and no link is left to them.
LEMMA DeleteStep == ASSUME PullInv, NEW s \in Pull!Series, Pull!DeleteSeries(s) PROVE PullInv'
<1>1. IsLib(pullLib) /\ Pull!Known \subseteq Pull!IssueIds /\ \A r \in pullStore : IsRow(r) /\ Sound(r)
  BY DEF PullInv, PullTypes
<1> DEFINE kept == {x \in Pull!Known : x[1] # s}
           issue == [i \in kept |-> pullLib.issue[i]]
           watched == pullLib.watched \ {s}
           busy == {i \in pullLib.busy : i[1] # s}
<1>2. /\ pullLib' = [pullLib EXCEPT !.watched = watched, !.busy = busy, !.issue = issue]
      /\ pullStore' = {Pull!Unlinked(r, s) : r \in pullStore}
      /\ UNCHANGED <<pullNow, pullFeed, pullJob, pullSetting>>
  BY DEF Pull!DeleteSeries, Pull!Removed
<1>3. DOMAIN issue = kept /\ watched \subseteq Pull!Series
  BY <1>1 DEF IsLib
<1> HIDE DEF issue, watched, busy
<1>4. pullLib'.issue = issue /\ IsLib(pullLib')
  BY <1>1, <1>2, <1>3 DEF IsLib
<1>5. Pull!Known' = kept
  BY <1>3, <1>4 DEF Pull!Known
<1>6. ASSUME NEW r \in pullStore
      PROVE  /\ IsRow(Pull!Unlinked(r, s)) /\ Sound(Pull!Unlinked(r, s))'
             /\ Pull!Unlinked(r, s).week = r.week /\ Pull!Unlinked(r, s).e = r.e
  <2>1. CASE r.link # Nobody /\ r.link[1] = s
    <3>1. Pull!Unlinked(r, s) = [r EXCEPT !.link = Nobody]
      BY <2>1 DEF Pull!Unlinked
    <3> DEFINE u == [r EXCEPT !.link = Nobody]
    <3>2. u.week = r.week /\ u.e = r.e /\ u.link = Nobody /\ IsRow(u)
      BY <1>1 DEF IsRow
    <3> HIDE DEF u
    <3> QED
      BY <3>1, <3>2 DEF Sound, u
  <2>2. CASE ~(r.link # Nobody /\ r.link[1] = s)
    <3>1. Pull!Unlinked(r, s) = r
      BY <2>2 DEF Pull!Unlinked
    <3>2. r.link # Nobody => r.link \in kept /\ Key[r.link[1]] = r.e.key
      BY <1>1, <2>2 DEF Sound
    <3> HIDE DEF kept
    <3> QED
      BY <1>1, <1>5, <3>1, <3>2 DEF Sound
  <2> QED
    BY <2>1, <2>2
<1>7. UNCHANGED Pull!Entries(pullStore)
  BY <1>2, <1>6 DEF Pull!Entries
<1>8. \A r \in pullStore' : IsRow(r) /\ Sound(r)'
  <2> HIDE DEF kept
  <2> QED
    BY <1>2, <1>6
<1>9. Pull!Known' \subseteq Pull!IssueIds
  BY <1>1, <1>5
<1> HIDE DEF kept
<1>10. PullTypes'
  BY <1>2, <1>4, <1>8, <1>9
     DEF PullInv, PullTypes, IsRow, IsLib, IsJob, Pull!IssueIds, Pull!Series
<1> QED
  BY <1>2, <1>7, <1>8, <1>10 DEF PullInv, Sound, Pull!Entries

\* The weeks pass, and the feed moves what it announced.
LEMMA CalendarStep ==
  ASSUME PullInv, Pull!WeekPasses \/ Pull!Delayed \/ Pull!BackoffElapses PROVE PullInv'
<1>1. UNCHANGED <<pullStore, pullLib, pullJob, pullSetting>>
  BY DEF Pull!WeekPasses, Pull!Delayed, Pull!BackoffElapses
<1>2. pullNow' \in Weeks
  BY DEF PullInv, PullTypes, Pull!WeekPasses, Pull!Delayed, Pull!BackoffElapses
<1>3. DOMAIN pullFeed' = Weeks /\ \A w \in Weeks : \A e \in pullFeed'[w] : Pull!IsEntry(e)
  <2>1. DOMAIN pullFeed = Weeks /\ \A w \in Weeks : \A e \in pullFeed[w] : Pull!IsEntry(e)
    BY DEF PullInv, PullTypes
  <2>2. CASE UNCHANGED pullFeed
    BY <2>1, <2>2
  <2>3. CASE Pull!Delayed
    <3>1. PICK w \in Weeks : \E e \in pullFeed[w] :
            /\ e.ships + 1 \in Weeks
            /\ pullFeed' = [pullFeed EXCEPT ![w] = (pullFeed[w] \ {e}) \cup {[e EXCEPT !.ships = e.ships + 1]}]
      BY <2>3 DEF Pull!Delayed
    <3>2. PICK e \in pullFeed[w] :
            /\ e.ships + 1 \in Weeks
            /\ pullFeed' = [pullFeed EXCEPT ![w] = (pullFeed[w] \ {e}) \cup {[e EXCEPT !.ships = e.ships + 1]}]
      BY <3>1
    <3> DEFINE f == [e EXCEPT !.ships = e.ships + 1]
    <3>3. Pull!IsEntry(f)
      BY <2>1, <3>2 DEF Pull!IsEntry
    <3> HIDE DEF f
    <3>4. pullFeed' = [pullFeed EXCEPT ![w] = (pullFeed[w] \ {e}) \cup {f}]
      BY <3>2 DEF f
    <3> QED
      BY <2>1, <3>3, <3>4
  <2> QED
    BY <2>2, <2>3 DEF Pull!WeekPasses, Pull!BackoffElapses
<1>4. UNCHANGED Pull!Known
  BY <1>1 DEF Pull!Known
<1>5. PullTypes'
  BY <1>1, <1>2, <1>3, <1>4
     DEF PullInv, PullTypes, IsRow, IsLib, IsJob, Pull!IsEntry, Pull!IssueIds, Pull!Series
<1> QED
  BY <1>1, <1>4, <1>5 DEF PullInv, Sound, Pull!Entries

LEMMA PullStep == ASSUME PullInv, [Pull!Next]_pullVars PROVE PullInv'
<1>1. CASE UNCHANGED pullVars
  <2>1. UNCHANGED <<pullNow, pullFeed, pullStore, pullLib, pullJob, pullSetting>>
    BY <1>1 DEF pullVars
  <2>2. UNCHANGED Pull!Known
    BY <2>1 DEF Pull!Known
  <2>3. IsJob(pullJob') /\ \A e \in pullJob'.got : Pull!IsEntry(e)
    BY <2>1 DEF PullInv, PullTypes, IsJob
  <2> QED
    BY <2>1, <2>3, JobMoves DEF PullInv
<1> QED
  BY <1>1, RunStep, ReplaceStep, LibraryStep, DeleteStep, CalendarStep
     DEF Pull!Next, Pull!Run, Pull!Fetch, Pull!Operator

\* What a link of the list leads to is there, is of a series its entry names, and is listed
\* by the view; and a run that the feed fails leaves the entries of every week as they were.
THEOREM LinksLead == Spec => PullListSound
<1>1. Init => PullInv
  BY PullInit DEF Init
<1>2. PullInv /\ [Next]_vars => PullInv'
  BY OneActs, PullStep
<1>3. PullInv => (focus = "pull" => Pull!TypeOK /\ Pull!LinksHold)
  <2> SUFFICES ASSUME PullInv PROVE Pull!TypeOK /\ Pull!LinksHold
    OBVIOUS
  <2>1. Pull!TypeOK
    BY DEF PullInv, PullTypes, IsRow, IsLib, Pull!TypeOK
  <2>2. ASSUME NEW r \in pullStore, r.link # Nobody
        PROVE  [issue |-> r.link, state |-> Pull!StateOf(r.link)] \in Pull!Weekly(r.week)
    <3>1. r.link \in Pull!Primary(r.week)
      BY <2>2 DEF Pull!Primary, Pull!StoredIn
    <3> QED
      BY <3>1 DEF Pull!Weekly
  <2> QED
    BY <2>1, <2>2 DEF PullInv, Sound, Pull!LinksHold
<1>4. PullInv /\ [Next]_vars
      => [pullJob.at = "fetch" /\ pullJob'.at = "idle"
          => Pull!Entries(pullStore') = Pull!Entries(pullJob.before)]_(Pull!vars)
  <2> SUFFICES ASSUME PullInv, Pull!Next, pullJob.at = "fetch", pullJob'.at = "idle"
               PROVE  Pull!Entries(pullStore') = Pull!Entries(pullJob.before)
    BY OneActs DEF pullVars, Pull!vars
  <2>1. Pull!Entries(pullStore) = Pull!Entries(pullJob.before)
    BY DEF PullInv
  <2>2. UNCHANGED pullStore \/ UNCHANGED pullJob \/ Pull!Replace
    BY DEF Pull!Next, Pull!Run, Pull!Fetch, Pull!Operator, Pull!Start, Pull!FetchWeek, Pull!FetchSkips,
           Pull!FetchFails, Pull!FetchEnds, Pull!AskRefresh, Pull!Done, Pull!BackoffElapses,
           Pull!Crash, Pull!WeekPasses, Pull!Delayed, Pull!DeleteSeries, Pull!AddSeries, Pull!Flag,
           Pull!Download, Pull!Import, Pull!Refresh
  <2>3. UNCHANGED pullStore
    BY <2>2 DEF Pull!Replace
  <2> QED
    BY <2>1, <2>3
<1> QED
  BY <1>1, <1>2, <1>3, <1>4, PTL DEF Spec, PullListSound, Pull!OutageKeepsWeeks

(***************************************************************************)
(* StoreReview.                                                            *)
(***************************************************************************)
IsProposal(p) ==
  /\ p \in [s : StoreSeries \cup {Nobody}, vol : {p.vol}, kind : {"none", "marker", "library", "comicvine"},
            sure : {p.sure}, picked : {p.picked}]
  /\ p.kind \in {"library", "comicvine"} => p.s \in StoreSeries
IsEnt(r) ==
  /\ r \in [id : Nat, cls : {"comic", "other"}, via : {r.via},
            status : {"new", "matched", "ignored", "duplicate"}, dup : {r.dup}, out : {r.out},
            md5 : {r.md5}, prop : {r.prop}, rank : {r.rank}, error : {r.error}, series : {r.series}]
  /\ IsProposal(r.prop)
IsSource(s) == s \in [state : {"connected", "expired", "disconnected"}, cred : {s.cred}, auto : {s.auto}]
IsSyncJob(j) ==
  j \in [at : {j.at}, todo : SUBSET DOMAIN storeOffer, stored : {j.stored}, refused : {j.refused},
         auto : {j.auto}, cred : {j.cred}, tries : {j.tries}, accept : {j.accept}]
IsFlow(f) ==
  /\ f \in [at : {f.at}, e : {f.e}, s : {f.s}, strict : {f.strict}, sweep : {f.sweep}, rest : {f.rest},
            prop : {f.prop}]
  /\ IsProposal(f.prop)

\* What a job found out: of purchases that are known, and of a volume when it says so.
TriesSound(j) ==
  /\ \A e \in DOMAIN j.tries :
       /\ e \in DOMAIN storeEnt /\ IsProposal(j.tries[e].prop)
       /\ j.tries[e].prop.kind # "marker" => Best[e] \in StoreSeries
  /\ \A e \in j.accept : Best[e] \in StoreSeries
\* An acceptance names a volume; one of the auto-sync reads the status again.
FlowSound(a) == /\ IsFlow(storeFlow[a])
                /\ storeFlow[a].at \notin {"idle", "restore"} => storeFlow[a].s \in StoreSeries
                /\ a = "job" /\ storeFlow[a].at # "idle" => storeFlow[a].strict

\* What is parked is a comic behind an older row.
Parked(rs) ==
  \A e \in DOMAIN rs :
    /\ rs[e].dup \in DOMAIN rs \cup {0}
    /\ rs[e].status = "duplicate" =>
         rs[e].cls = "comic" /\ rs[e].dup \in DOMAIN rs /\ rs[rs[e].dup].id < rs[e].id
Numbered(rs) ==
  /\ DOMAIN rs \subseteq Purchases
  /\ \A e \in DOMAIN rs : rs[e].id \in Nat /\ rs[e].id <= Cardinality(DOMAIN rs)
  /\ \A e, x \in DOMAIN rs : e # x => rs[e].id # rs[x].id

EntInv == /\ \A e \in DOMAIN storeEnt : IsEnt(storeEnt[e])
          /\ Parked(storeEnt) /\ Numbered(storeEnt)
OfferInv == /\ DOMAIN storeOffer \subseteq Purchases
            /\ \A o \in DOMAIN storeOffer : storeOffer[o].cls \in {"comic", "other"}
ReviewInv ==
  /\ EntInv /\ OfferInv /\ IsSource(storeSource) /\ storeLibrary \subseteq StoreSeries
  /\ IsSyncJob(storeJob) /\ TriesSound(storeJob)
  /\ DOMAIN storeFlow = Review!Actors /\ \A a \in Review!Actors : FlowSound(a)

LEMMA NoReview == /\ IsProposal(Review!NoProposal) /\ IsFlow(Review!NoFlow) /\ IsSyncJob(Review!NoJob)
                  /\ TriesSound(Review!NoJob)
<1>1. IsProposal(Review!NoProposal)
  BY DEF IsProposal, Review!NoProposal
<1>2. IsFlow(Review!NoFlow)
  BY <1>1 DEF IsFlow, Review!NoFlow
<1>3. IsSyncJob(Review!NoJob)
  BY DEF IsSyncJob, Review!NoJob
<1>4. Review!NoJob.accept = {} /\ Review!NoJob.tries = <<>>
  BY DEF Review!NoJob
<1>5. TriesSound(Review!NoJob)
  BY <1>4 DEF TriesSound
<1> QED
  BY <1>1, <1>2, <1>3, <1>5

LEMMA ReviewInit == ASSUME Review!Init PROVE ReviewInv
<1>1. storeRegime \in StoreRegimes /\ storeOffer = storeRegime.offer /\ storeLibrary = storeRegime.tracked
  BY DEF Review!Init
<1>2. OfferInv /\ storeLibrary \subseteq StoreSeries
  BY <1>1, ProvidersAssumption DEF Review!ReviewAssumption, OfferInv
<1>3. DOMAIN storeEnt = {}
  BY DEF Review!Init
<1>4. EntInv
  BY <1>3 DEF EntInv, Parked, Numbered
<1>5. IsSource(storeSource)
  BY DEF Review!Init, IsSource
<1>6. IsSyncJob(storeJob) /\ TriesSound(storeJob)
  BY NoReview DEF Review!Init
<1>7. Review!NoFlow.at = "idle"
  BY DEF Review!NoFlow
<1>8. DOMAIN storeFlow = Review!Actors /\ \A a \in Review!Actors : FlowSound(a)
  BY <1>7, NoReview DEF Review!Init, FlowSound
<1> QED
  BY <1>2, <1>4, <1>5, <1>6, <1>8 DEF ReviewInv

\* A set of rows has an oldest one.
LEMMA OldestOf ==
  ASSUME NEW rs, NEW xs, xs # {}, \A x \in xs : rs[x].id \in Nat
  PROVE  /\ Review!Oldest(rs, xs) \in xs
         /\ \A y \in xs : rs[Review!Oldest(rs, xs)].id <= rs[y].id
<1> DEFINE ids == {rs[x].id : x \in xs}
           R == OpToRel(<, Nat)
<1>1. ids \subseteq Nat /\ ids # {}
  OBVIOUS
<1> HIDE DEF R
<1>2. PICK m \in ids : \A n \in ids : ~(<<n, m>> \in R)
  BY <1>1, NatLessThanWellFounded, WFMin DEF R
<1>3. \A n \in ids : ~(n < m)
  BY <1>1, <1>2 DEF R, OpToRel
<1>4. PICK x \in xs : m = rs[x].id
  OBVIOUS
<1>5. \A y \in xs : rs[x].id <= rs[y].id
  <2> TAKE y \in xs
  <2>1. rs[y].id \in ids /\ rs[y].id \in Nat /\ rs[x].id \in Nat
    OBVIOUS
  <2> HIDE DEF ids
  <2> QED
    BY <1>3, <1>4, <2>1
<1> QED
  BY <1>4, <1>5 DEF Review!Oldest

\* Rows that are rewritten in place.
LEMMA EntRewritten ==
  ASSUME EntInv, DOMAIN storeEnt' = DOMAIN storeEnt,
         \A e \in DOMAIN storeEnt :
           /\ IsEnt(storeEnt'[e]) /\ storeEnt'[e].id = storeEnt[e].id
           /\ storeEnt'[e].dup \in {storeEnt[e].dup, 0}
           /\ storeEnt'[e].status = "duplicate" =>
                /\ storeEnt[e].status = "duplicate" /\ storeEnt'[e].cls = storeEnt[e].cls
                /\ storeEnt'[e].dup = storeEnt[e].dup
  PROVE  EntInv'
<1>1. \A e \in DOMAIN storeEnt' : IsEnt(storeEnt'[e])
  OBVIOUS
<1>2. Parked(storeEnt)'
  BY DEF EntInv, Parked
<1>3. Numbered(storeEnt)'
  BY DEF EntInv, Numbered
<1> QED
  BY <1>1, <1>2, <1>3 DEF EntInv, IsEnt, IsProposal

\* What is not touched stays as it was, when rows and offers are only added.
LEMMA EntKept == ASSUME ReviewInv, UNCHANGED storeEnt PROVE EntInv'
BY DEF ReviewInv, EntInv, IsEnt, IsProposal, Parked, Numbered

LEMMA OfferKept == ASSUME ReviewInv, UNCHANGED storeOffer PROVE OfferInv'
BY DEF ReviewInv, OfferInv

LEMMA JobKept ==
  ASSUME ReviewInv, DOMAIN storeEnt \subseteq DOMAIN storeEnt',
         DOMAIN storeOffer \subseteq DOMAIN storeOffer', UNCHANGED storeJob
  PROVE  IsSyncJob(storeJob)' /\ TriesSound(storeJob)'
<1>1. IsSyncJob(storeJob)'
  BY DEF ReviewInv, IsSyncJob
<1>2. TriesSound(storeJob)'
  BY DEF ReviewInv, TriesSound, IsProposal
<1> QED
  BY <1>1, <1>2

\* What a job goes on with, when it only drops orders and keeps what it found.
LEMMA JobGoesOn ==
  ASSUME ReviewInv, DOMAIN storeEnt \subseteq DOMAIN storeEnt', UNCHANGED storeOffer,
         IsSyncJob(storeJob'), storeJob'.tries \in {storeJob.tries, <<>>},
         storeJob'.accept \subseteq storeJob.accept
  PROVE  IsSyncJob(storeJob)' /\ TriesSound(storeJob)'
<1>1. IsSyncJob(storeJob)'
  BY DEF IsSyncJob
<1>2. DOMAIN <<>> = {}
  OBVIOUS
<1>3. TriesSound(storeJob)'
  BY <1>2 DEF ReviewInv, TriesSound, IsProposal
<1> QED
  BY <1>1, <1>3

LEMMA FlowKept ==
  ASSUME ReviewInv, UNCHANGED storeFlow
  PROVE  DOMAIN storeFlow' = Review!Actors /\ \A a \in Review!Actors : FlowSound(a)'
BY DEF ReviewInv, FlowSound, IsFlow, IsProposal

LEMMA FlowMoves ==
  ASSUME ReviewInv, NEW a \in Review!Actors, NEW f, storeFlow' = [storeFlow EXCEPT ![a] = f],
         IsFlow(f), f.at \notin {"idle", "restore"} => f.s \in StoreSeries,
         a = "job" /\ f.at # "idle" => f.strict
  PROVE  DOMAIN storeFlow' = Review!Actors /\ \A b \in Review!Actors : FlowSound(b)'
<1>1. DOMAIN storeFlow = Review!Actors
  BY DEF ReviewInv
<1>2. \A b \in Review!Actors : storeFlow'[b] = IF b = a THEN f ELSE storeFlow[b]
  BY <1>1
<1>3. \A b \in Review!Actors : FlowSound(b)
  BY DEF ReviewInv
<1>4. ASSUME NEW b \in Review!Actors PROVE FlowSound(b)'
  <2>1. CASE b = a
    BY <1>2, <2>1 DEF FlowSound
  <2>2. CASE b # a
    <3>1. storeFlow'[b] = storeFlow[b]
      BY <1>2, <2>2
    <3> QED
      BY <1>3, <3>1 DEF FlowSound
  <2> QED
    BY <2>1, <2>2
<1> QED
  BY <1>1, <1>4

\* The purchases are read and stored.
LEMMA SyncStep ==
  ASSUME ReviewInv,
         \/ Review!SyncStart \/ Review!Refused \/ Review!OrdersEnd \/ Review!RecordSync
         \/ Review!JobEnds \/ \E o \in storeJob.todo : Review!SkipOrder(o)
  PROVE  ReviewInv'
<1>1. /\ UNCHANGED <<storeEnt, storeLibrary, storeOffer, storeFlow>>
      /\ UNCHANGED storeSource \/ Review!RecordSync
  BY DEF Review!SyncStart, Review!Refused, Review!OrdersEnd, Review!RecordSync, Review!JobEnds,
         Review!SkipOrder
<1>2. IsSyncJob(storeJob) /\ IsSource(storeSource)
  BY DEF ReviewInv
<1>3. IsSource(storeSource)'
  <2>1. CASE Review!RecordSync
    <3> DEFINE st == IF storeJob.at = "synced" THEN "connected" ELSE "expired"
    <3>1. storeSource' = [storeSource EXCEPT !.state = st] /\ st \in {"connected", "expired"}
      BY <2>1 DEF Review!RecordSync
    <3> HIDE DEF st
    <3> QED
      BY <1>2, <3>1 DEF IsSource
  <2>2. CASE UNCHANGED storeSource
    BY <1>2, <2>2 DEF IsSource
  <2> QED
    BY <1>1, <2>1, <2>2
<1>4. IsSyncJob(storeJob') /\ storeJob'.tries \in {storeJob.tries, <<>>} /\ storeJob'.accept \subseteq storeJob.accept
  <2>1. CASE storeJob' = Review!NoJob
    BY <2>1, NoReview DEF Review!NoJob
  <2>2. CASE Review!SyncStart
    <3>1. storeJob' = [Review!NoJob EXCEPT !.at = "orders", !.todo = DOMAIN storeOffer,
                                           !.auto = storeSource.auto, !.cred = storeSource.cred]
      BY <2>2 DEF Review!SyncStart
    <3> QED
      BY <3>1 DEF IsSyncJob, Review!NoJob
  <2>3. ASSUME NEW at, storeJob' = [storeJob EXCEPT !.at = at]
        PROVE  IsSyncJob(storeJob') /\ storeJob'.tries = storeJob.tries /\ storeJob'.accept = storeJob.accept
    BY <1>2, <2>3 DEF IsSyncJob
  <2>4. CASE Review!Refused
    <3> DEFINE at == IF storeJob.stored THEN "link" ELSE "expired"
    <3>1. storeJob' = [storeJob EXCEPT !.at = at, !.refused = TRUE, !.todo = {}]
      BY <2>4 DEF Review!Refused
    <3> HIDE DEF at
    <3> QED
      BY <1>2, <3>1 DEF IsSyncJob
  <2>5. ASSUME NEW o, Review!SkipOrder(o)
        PROVE  IsSyncJob(storeJob') /\ storeJob'.tries = storeJob.tries /\ storeJob'.accept = storeJob.accept
    <3> DEFINE todo == storeJob.todo \ {o}
    <3>1. storeJob' = [storeJob EXCEPT !.todo = todo]
      BY <2>5 DEF Review!SkipOrder
    <3>2. todo \in SUBSET DOMAIN storeOffer
      BY <1>2 DEF IsSyncJob
    <3> HIDE DEF todo
    <3> QED
      BY <1>2, <3>1, <3>2 DEF IsSyncJob
  <2>6. CASE Review!OrdersEnd
    BY <2>3, <2>6 DEF Review!OrdersEnd
  <2>7. CASE Review!RecordSync
    BY <2>1, <2>3, <2>7 DEF Review!RecordSync
  <2> QED
    BY <2>1, <2>2, <2>4, <2>5, <2>6, <2>7 DEF Review!JobEnds
<1>5. IsSyncJob(storeJob)' /\ TriesSound(storeJob)'
  BY <1>1, <1>4, JobGoesOn
<1>6. storeLibrary' \subseteq StoreSeries
  BY <1>1 DEF ReviewInv
<1> QED
  BY <1>1, <1>3, <1>5, <1>6, EntKept, OfferKept, FlowKept DEF ReviewInv

LEMMA PersistStep == ASSUME ReviewInv, NEW o \in storeJob.todo, Review!Persist(o) PROVE ReviewInv'
<1> DEFINE K == DOMAIN storeEnt
           row == IF o \in K THEN Review!Refreshed(o) ELSE Review!NewRow(o)
           todo == storeJob.todo \ {o}
<1>1. /\ storeEnt' = [x \in K \cup {o} |-> IF x # o THEN storeEnt[x] ELSE row]
      /\ storeJob' = [storeJob EXCEPT !.todo = todo, !.stored = TRUE]
      /\ UNCHANGED <<storeLibrary, storeSource, storeOffer, storeFlow>>
  BY DEF Review!Persist, Review!Known
<1>2. IsSyncJob(storeJob) /\ o \in DOMAIN storeOffer /\ o \in Purchases /\ storeOffer[o].cls \in {"comic", "other"}
  BY DEF ReviewInv, IsSyncJob, OfferInv
<1>3. EntInv
  BY DEF ReviewInv
<1>4. K \subseteq Purchases /\ IsFiniteSet(K) /\ Cardinality(K) \in Nat
  <2>1. K \subseteq Purchases
    BY <1>3 DEF EntInv, Numbered
  <2>2. IsFiniteSet(Purchases)
    BY ProvidersAssumption DEF Review!ReviewAssumption, Review!IsFiniteSet, IsFiniteSet
  <2> QED
    BY <2>1, <2>2, FS_Subset, FS_CardinalityType
<1>5. /\ IsEnt(row)
      /\ o \in K => /\ row.id = storeEnt[o].id /\ row.status = storeEnt[o].status /\ row.dup = storeEnt[o].dup
                    /\ row.status = "duplicate" => row.cls = storeEnt[o].cls
      /\ o \notin K => row.id = Cardinality(K) + 1 /\ row.status = "new" /\ row.dup = 0
  <2>1. CASE o \in K
    <3> DEFINE cls == IF Review!Owned(storeEnt[o]) THEN storeOffer[o].cls ELSE storeEnt[o].cls
               md5 == storeOffer[o].md5
    <3>1. row = [storeEnt[o] EXCEPT !.cls = cls, !.md5 = md5]
      BY <2>1 DEF Review!Refreshed
    <3>2. IsEnt(storeEnt[o])
      BY <1>3, <2>1 DEF EntInv
    <3>3. cls \in {"comic", "other"} /\ (storeEnt[o].status = "duplicate" => cls = storeEnt[o].cls)
      BY <1>2, <3>2 DEF Review!Owned, IsEnt
    <3> HIDE DEF cls, md5, row
    <3>4. /\ IsEnt(row) /\ row.cls = cls /\ row.id = storeEnt[o].id /\ row.status = storeEnt[o].status
          /\ row.dup = storeEnt[o].dup
      BY <3>1, <3>2, <3>3 DEF IsEnt
    <3> QED
      BY <2>1, <3>3, <3>4
  <2>2. CASE o \notin K
    <3> DEFINE md5 == storeOffer[o].md5
               cls == storeOffer[o].cls
               n == Cardinality(K) + 1
    <3>1. row = [id |-> n, cls |-> cls, via |-> "rules", status |-> "new", dup |-> 0, out |-> FALSE,
                 md5 |-> md5, prop |-> Review!NoProposal, rank |-> 0, error |-> FALSE, series |-> Nobody]
      BY <2>2 DEF Review!NewRow, Review!Known, Review!Cardinality, Cardinality
    <3>2. n \in Nat /\ cls \in {"comic", "other"}
      BY <1>2, <1>4
    <3> HIDE DEF n, cls, md5, row
    <3>3. IsEnt(row) /\ row.id = n /\ row.status = "new" /\ row.dup = 0
      BY <3>1, <3>2, NoReview DEF IsEnt
    <3> QED
      BY <2>2, <3>3 DEF n
  <2> QED
    BY <2>1, <2>2
<1> HIDE DEF row, todo
<1>6. IsSyncJob(storeJob') /\ storeJob'.tries = storeJob.tries /\ storeJob'.accept = storeJob.accept
  <2>1. todo \in SUBSET DOMAIN storeOffer
    BY <1>2 DEF IsSyncJob, todo
  <2> QED
    BY <1>1, <1>2, <2>1 DEF IsSyncJob
<1>7. DOMAIN storeEnt' = K \cup {o} /\ \A x \in K \cup {o} : storeEnt'[x] = IF x # o THEN storeEnt[x] ELSE row
  BY <1>1
<1>8. IsSyncJob(storeJob)' /\ TriesSound(storeJob)'
  BY <1>1, <1>6, <1>7, JobGoesOn
<1>9. EntInv'
  <2>1. CASE o \in K
    <3>1. DOMAIN storeEnt' = DOMAIN storeEnt
      BY <1>7, <2>1
    <3>2. ASSUME NEW e \in DOMAIN storeEnt
          PROVE  /\ IsEnt(storeEnt'[e]) /\ storeEnt'[e].id = storeEnt[e].id
                 /\ storeEnt'[e].dup = storeEnt[e].dup
                 /\ storeEnt'[e].status = storeEnt[e].status
                 /\ storeEnt'[e].status = "duplicate" => storeEnt'[e].cls = storeEnt[e].cls
      BY <1>3, <1>5, <1>7, <2>1 DEF EntInv
    <3> QED
      BY <1>3, <3>1, <3>2, EntRewritten
  <2>2. CASE o \notin K
    <3>1. Cardinality(K \cup {o}) = Cardinality(K) + 1
      BY <1>4, <2>2, FS_AddElement
    <3>2. DOMAIN storeEnt' = K \cup {o} /\ \A x \in K : storeEnt'[x] = storeEnt[x]
      BY <1>7, <2>2
    <3>3. storeEnt'[o] = row /\ row.id = Cardinality(K) + 1 /\ row.status = "new" /\ row.dup = 0
      BY <1>5, <1>7, <2>2
    <3>4. Numbered(storeEnt)'
      <4>1. \A e \in K : storeEnt[e].id \in Nat /\ storeEnt[e].id <= Cardinality(K)
        BY <1>3 DEF EntInv, Numbered
      <4>2. \A e, x \in K : e # x => storeEnt[e].id # storeEnt[x].id
        BY <1>3 DEF EntInv, Numbered
      <4>3. K \cup {o} \subseteq Purchases
        BY <1>2, <1>4
      <4> DEFINE n == Cardinality(K)
      <4>4. n \in Nat
        BY <1>4
      <4>5. Cardinality(DOMAIN storeEnt') = n + 1
        BY <3>1, <3>2
      <4> HIDE DEF n
      <4>6. \A e \in DOMAIN storeEnt' : storeEnt'[e].id \in Nat /\ storeEnt'[e].id <= n + 1
        BY <3>2, <3>3, <4>1, <4>4 DEF n
      <4>7. \A e, x \in DOMAIN storeEnt' : e # x => storeEnt'[e].id # storeEnt'[x].id
        BY <3>2, <3>3, <4>1, <4>2, <4>4 DEF n
      <4> QED
        BY <3>2, <4>3, <4>5, <4>6, <4>7 DEF Numbered
    <3>5. Parked(storeEnt)'
      BY <1>3, <3>2, <3>3 DEF EntInv, Parked
    <3>6. \A e \in DOMAIN storeEnt' : IsEnt(storeEnt'[e])
      BY <1>3, <1>5, <3>2, <3>3 DEF EntInv
    <3> QED
      BY <3>4, <3>5, <3>6 DEF EntInv, IsEnt, IsProposal
  <2> QED
    BY <2>1, <2>2
<1>10. IsSource(storeSource)' /\ storeLibrary' \subseteq StoreSeries
  BY <1>1 DEF ReviewInv, IsSource
<1> QED
  BY <1>1, <1>8, <1>9, <1>10, OfferKept, FlowKept DEF ReviewInv

(* The linking pass.                                                        *)
\* Only rows that lost their evidence are reviewable again.
LEMMA UnparkedRows ==
  ASSUME EntInv, NEW rs, rs = Review!Unparked
  PROVE  /\ DOMAIN rs = DOMAIN storeEnt
         /\ \A e \in DOMAIN storeEnt :
              /\ IsEnt(rs[e]) /\ rs[e].id = storeEnt[e].id /\ rs[e].cls = storeEnt[e].cls
              /\ rs[e].md5 = storeEnt[e].md5 /\ rs[e].out = storeEnt[e].out
              /\ rs[e].dup \in {storeEnt[e].dup, 0}
              /\ storeEnt[e].status # "duplicate" => rs[e] = storeEnt[e]
              /\ rs[e].status = "duplicate" =>
                   rs[e] = storeEnt[e] /\ storeEnt[e].status = "duplicate" /\ ~Review!Stale(e)
<1>1. /\ DOMAIN rs = DOMAIN storeEnt
      /\ \A e \in DOMAIN storeEnt :
           rs[e] = IF Review!Stale(e) THEN [storeEnt[e] EXCEPT !.status = "new", !.dup = 0]
                   ELSE storeEnt[e]
  BY DEF Review!Unparked, Review!Known
<1>2. ASSUME NEW e \in DOMAIN storeEnt
      PROVE  /\ IsEnt(rs[e]) /\ rs[e].id = storeEnt[e].id /\ rs[e].cls = storeEnt[e].cls
             /\ rs[e].md5 = storeEnt[e].md5 /\ rs[e].out = storeEnt[e].out
             /\ rs[e].dup \in {storeEnt[e].dup, 0}
             /\ storeEnt[e].status # "duplicate" => rs[e] = storeEnt[e]
             /\ rs[e].status = "duplicate" =>
                  rs[e] = storeEnt[e] /\ storeEnt[e].status = "duplicate" /\ ~Review!Stale(e)
  <2>1. IsEnt(storeEnt[e])
    BY DEF EntInv
  <2>2. CASE Review!Stale(e)
    <3>1. rs[e] = [storeEnt[e] EXCEPT !.status = "new", !.dup = 0]
      BY <1>1, <2>2
    <3>2. storeEnt[e].status = "duplicate"
      BY <2>2 DEF Review!Stale
    <3>3. /\ rs[e].status = "new" /\ rs[e].dup = 0 /\ IsEnt(rs[e])
          /\ rs[e].id = storeEnt[e].id /\ rs[e].cls = storeEnt[e].cls
          /\ rs[e].md5 = storeEnt[e].md5 /\ rs[e].out = storeEnt[e].out
      BY <2>1, <3>1 DEF IsEnt
    <3> QED
      BY <3>2, <3>3
  <2>3. CASE ~Review!Stale(e)
    BY <1>1, <2>1, <2>3
  <2> QED
    BY <2>2, <2>3
<1> QED
  BY <1>1, <1>2

\* The rows of one file agree on what their set is.
LEMMA SameSet ==
  ASSUME NEW rs, NEW e, NEW x \in Review!Set(rs, e), rs[e].md5 = rs[x].md5
  PROVE  /\ Review!Set(rs, x) = Review!Set(rs, e) /\ Review!OpenOf(rs, x) = Review!OpenOf(rs, e)
         /\ Review!Frozen(rs, x) = Review!Frozen(rs, e)
<1>1. Review!Set(rs, x) = Review!Set(rs, e)
  BY DEF Review!Set
<1>2. Review!OpenOf(rs, x) = Review!OpenOf(rs, e)
  BY <1>1 DEF Review!OpenOf
<1> QED
  BY <1>1, <1>2 DEF Review!Frozen

\* What the pass makes of the rows.
LEMMA LinkedRows ==
  ASSUME EntInv, NEW rs, rs = Review!Unparked, Review!Link
  PROVE  /\ DOMAIN storeEnt' = DOMAIN storeEnt
         /\ \A e \in DOMAIN storeEnt :
              /\ IsEnt(storeEnt'[e]) /\ storeEnt'[e].id = rs[e].id /\ storeEnt'[e].cls = rs[e].cls
              /\ storeEnt'[e].md5 = rs[e].md5 /\ storeEnt'[e].out = rs[e].out
              /\ ~Review!Parks(rs, e) => storeEnt'[e] = rs[e]
              /\ Review!Parks(rs, e) =>
                   /\ storeEnt'[e].status = "duplicate" /\ rs[e].status = "new"
                   /\ storeEnt'[e].dup = Review!Oldest(rs, Review!OpenOf(rs, e))
<1>1. /\ DOMAIN storeEnt' = DOMAIN storeEnt
      /\ \A e \in DOMAIN storeEnt :
           storeEnt'[e] = IF Review!Parks(rs, e)
                          THEN [rs[e] EXCEPT !.status = "duplicate",
                                             !.dup = Review!Oldest(rs, Review!OpenOf(rs, e))]
                          ELSE rs[e]
  BY DEF Review!Link, Review!Known
<1>2. ASSUME NEW e \in DOMAIN storeEnt
      PROVE  /\ IsEnt(storeEnt'[e]) /\ storeEnt'[e].id = rs[e].id /\ storeEnt'[e].cls = rs[e].cls
             /\ storeEnt'[e].md5 = rs[e].md5 /\ storeEnt'[e].out = rs[e].out
             /\ ~Review!Parks(rs, e) => storeEnt'[e] = rs[e]
             /\ Review!Parks(rs, e) =>
                  /\ storeEnt'[e].status = "duplicate" /\ rs[e].status = "new"
                  /\ storeEnt'[e].dup = Review!Oldest(rs, Review!OpenOf(rs, e))
  <2>1. IsEnt(rs[e])
    BY UnparkedRows
  <2>2. CASE Review!Parks(rs, e)
    <3> DEFINE d == Review!Oldest(rs, Review!OpenOf(rs, e))
    <3>1. storeEnt'[e] = [rs[e] EXCEPT !.status = "duplicate", !.dup = d]
      BY <1>1, <2>2
    <3>2. rs[e].status = "new"
      BY <2>2 DEF Review!Parks, Review!OpenOf
    <3> HIDE DEF d
    <3>3. /\ storeEnt'[e].status = "duplicate" /\ storeEnt'[e].dup = d /\ IsEnt(storeEnt'[e])
          /\ storeEnt'[e].id = rs[e].id /\ storeEnt'[e].cls = rs[e].cls
          /\ storeEnt'[e].md5 = rs[e].md5 /\ storeEnt'[e].out = rs[e].out
      BY <2>1, <3>1 DEF IsEnt
    <3> QED
      BY <2>2, <3>2, <3>3 DEF d
  <2>3. CASE ~Review!Parks(rs, e)
    BY <1>1, <2>1, <2>3
  <2> QED
    BY <2>2, <2>3
<1> QED
  BY <1>1, <1>2

\* The oldest open row of a set stays open.
LEMMA OldestStays ==
  ASSUME EntInv, NEW rs, rs = Review!Unparked, Review!Link, NEW e \in DOMAIN storeEnt,
         Review!OpenOf(rs, e) # {}
  PROVE  LET d == Review!Oldest(rs, Review!OpenOf(rs, e)) IN
         /\ d \in Review!OpenOf(rs, e) /\ d \in DOMAIN storeEnt /\ storeEnt'[d] = rs[d]
         /\ \A y \in Review!OpenOf(rs, e) : rs[d].id <= rs[y].id
<1> DEFINE d == Review!Oldest(rs, Review!OpenOf(rs, e))
<1>1. \A x \in Review!OpenOf(rs, e) : x \in DOMAIN storeEnt /\ x \in Review!Set(rs, e) /\ rs[x].md5 = rs[e].md5
  BY DEF Review!OpenOf, Review!Set, Review!Known
<1>2. \A x \in Review!OpenOf(rs, e) : rs[x].id \in Nat
  BY <1>1, UnparkedRows DEF IsEnt
<1>3. d \in Review!OpenOf(rs, e) /\ \A y \in Review!OpenOf(rs, e) : rs[d].id <= rs[y].id
  BY <1>2, OldestOf
<1>4. Review!OpenOf(rs, d) = Review!OpenOf(rs, e)
  <2> HIDE DEF d
  <2> QED
    BY <1>1, <1>3, SameSet
<1>5. ~Review!Parks(rs, d)
  BY <1>4 DEF Review!Parks
<1> HIDE DEF d
<1>6. storeEnt'[d] = rs[d]
  BY <1>1, <1>3, <1>5, LinkedRows
<1> QED
  BY <1>1, <1>3, <1>6 DEF d

\* After the pass a set still has a row that is not parked, if it had one.
LEMMA SetKeepsOne ==
  ASSUME EntInv, NEW rs, rs = Review!Unparked, Review!Link, NEW e \in DOMAIN storeEnt,
         NEW m \in Review!Set(rs, e), rs[m].status # "duplicate"
  PROVE  \E x \in Review!Set(rs, e) : storeEnt'[x].status # "duplicate"
<1>1. m \in DOMAIN storeEnt /\ rs[m].md5 = rs[e].md5
  BY DEF Review!Set, Review!Known
<1>2. CASE rs[m].status = "new"
  <2>1. Review!OpenOf(rs, e) # {}
    BY <1>2 DEF Review!OpenOf
  <2> DEFINE d == Review!Oldest(rs, Review!OpenOf(rs, e))
  <2>2. d \in Review!OpenOf(rs, e) /\ storeEnt'[d] = rs[d]
    BY <2>1, OldestStays
  <2> HIDE DEF d
  <2> QED
    BY <2>2 DEF Review!OpenOf
<1>3. CASE rs[m].status # "new"
  <2>1. ~Review!Parks(rs, m)
    BY <1>3 DEF Review!Parks, Review!OpenOf
  <2> QED
    BY <1>1, <2>1, LinkedRows
<1> QED
  BY <1>2, <1>3

\* A parked row that keeps its evidence is of a set with a row that is not parked: its oldest.
LEMMA EvidenceOpen ==
  ASSUME EntInv, NEW rs, rs = Review!Unparked, NEW e \in DOMAIN storeEnt, rs[e].status = "duplicate"
  PROVE  e \in Review!Set(rs, e) /\ \E m \in Review!Set(rs, e) : rs[m].status # "duplicate"
<1>1. ASSUME NEW x \in DOMAIN storeEnt, rs[x].status = "duplicate"
      PROVE  LET d == storeEnt[x].dup IN
             /\ x \in Review!Set(rs, x) /\ d \in Review!Set(rs, x) /\ rs[d].id < rs[x].id
  <2> DEFINE d == storeEnt[x].dup
  <2>1. rs[x] = storeEnt[x] /\ storeEnt[x].status = "duplicate" /\ ~Review!Stale(x)
    BY <1>1, UnparkedRows
  <2>2. /\ d \in DOMAIN storeEnt /\ storeEnt[x].cls = "comic" /\ storeEnt[x].md5 # "none"
        /\ storeEnt[d].md5 = storeEnt[x].md5
        /\ storeEnt[d].cls = "comic" \/ storeEnt[d].status = "duplicate"
    BY <2>1 DEF Review!Stale, Review!Known
  <2>3. storeEnt[d].cls = "comic" /\ storeEnt[d].id < storeEnt[x].id
    BY <2>1, <2>2 DEF EntInv, Parked
  <2> HIDE DEF d
  <2>4. rs[d].cls = storeEnt[d].cls /\ rs[d].md5 = storeEnt[d].md5 /\ rs[d].id = storeEnt[d].id
    BY <2>2, UnparkedRows
  <2> QED
    BY <2>1, <2>2, <2>3, <2>4 DEF Review!Set, Review!Known, d
<1> DEFINE S == Review!Set(rs, e)
           m == Review!Oldest(rs, S)
<1>2. e \in S
  BY <1>1
<1>3. \A x \in S : x \in DOMAIN storeEnt /\ rs[x].md5 = rs[e].md5 /\ rs[x].id \in Nat
  BY UnparkedRows DEF Review!Set, Review!Known, IsEnt
<1>4. m \in S /\ \A y \in S : rs[m].id <= rs[y].id
  <2> HIDE DEF S
  <2> QED
    BY <1>2, <1>3, OldestOf
<1> HIDE DEF m
<1>5. rs[m].status # "duplicate"
  <2> SUFFICES ASSUME rs[m].status = "duplicate" PROVE FALSE
    OBVIOUS
  <2> DEFINE d == storeEnt[m].dup
  <2>1. d \in Review!Set(rs, m) /\ rs[d].id < rs[m].id
    BY <1>1, <1>3, <1>4
  <2>2. Review!Set(rs, m) = S
    BY <1>3, <1>4, SameSet
  <2> HIDE DEF d, S
  <2>3. rs[m].id <= rs[d].id /\ rs[m].id \in Nat /\ rs[d].id \in Nat
    BY <1>3, <1>4, <2>1, <2>2
  <2> QED
    BY <2>1, <2>3
<1> QED
  BY <1>2, <1>4, <1>5

\* The rows of a set are the same after the pass, and none that was decided is touched.
LEMMA SetsStay ==
  ASSUME EntInv, NEW rs, rs = Review!Unparked, Review!Link, NEW e \in DOMAIN storeEnt
  PROVE  /\ Review!Set(storeEnt, e)' = Review!Set(rs, e)
         /\ Review!Frozen(rs, e) => Review!Frozen(storeEnt, e)'
<1>1. DOMAIN storeEnt' = DOMAIN storeEnt
  BY LinkedRows
<1>2. \A x \in DOMAIN storeEnt : storeEnt'[x].cls = rs[x].cls /\ storeEnt'[x].md5 = rs[x].md5
  BY LinkedRows
<1>3. Review!Set(storeEnt, e)' = Review!Set(rs, e)
  BY <1>1, <1>2 DEF Review!Set, Review!Known
<1>4. ASSUME Review!Frozen(rs, e) PROVE Review!Frozen(storeEnt, e)'
  <2>1. PICK x \in Review!Set(rs, e) : rs[x].status \in {"matched", "ignored"}
    BY <1>4 DEF Review!Frozen
  <2>2. x \in DOMAIN storeEnt /\ ~Review!Parks(rs, x)
    BY <2>1 DEF Review!Parks, Review!OpenOf, Review!Set, Review!Known
  <2>3. storeEnt'[x] = rs[x]
    BY <2>2, LinkedRows
  <2> QED
    BY <1>3, <2>1, <2>3 DEF Review!Frozen
<1> QED
  BY <1>3, <1>4

LEMMA LinkStep == ASSUME ReviewInv, Review!Link PROVE ReviewInv'
<1> DEFINE rs == Review!Unparked
<1>1. EntInv
  BY DEF ReviewInv
<1>2. /\ DOMAIN rs = DOMAIN storeEnt
      /\ \A e \in DOMAIN storeEnt :
           /\ IsEnt(rs[e]) /\ rs[e].id = storeEnt[e].id /\ rs[e].dup \in {storeEnt[e].dup, 0}
           /\ rs[e].status = "duplicate" => rs[e] = storeEnt[e]
  BY <1>1, UnparkedRows
<1>3. /\ DOMAIN storeEnt' = DOMAIN storeEnt
      /\ \A e \in DOMAIN storeEnt :
           /\ IsEnt(storeEnt'[e]) /\ storeEnt'[e].id = rs[e].id /\ storeEnt'[e].cls = rs[e].cls
           /\ ~Review!Parks(rs, e) => storeEnt'[e] = rs[e]
           /\ Review!Parks(rs, e) => storeEnt'[e].dup = Review!Oldest(rs, Review!OpenOf(rs, e))
  BY <1>1, LinkedRows
<1>4. ASSUME NEW e \in DOMAIN storeEnt
      PROVE  /\ storeEnt'[e].dup \in DOMAIN storeEnt \cup {0}
             /\ storeEnt'[e].status = "duplicate" =>
                  /\ storeEnt'[e].cls = "comic" /\ storeEnt'[e].dup \in DOMAIN storeEnt
                  /\ storeEnt'[storeEnt'[e].dup].id < storeEnt'[e].id
  <2>1. CASE Review!Parks(rs, e)
    <3> DEFINE d == Review!Oldest(rs, Review!OpenOf(rs, e))
    <3>1. e \in Review!OpenOf(rs, e) /\ e # d
      BY <2>1 DEF Review!Parks
    <3>2. d \in DOMAIN storeEnt /\ rs[d].id <= rs[e].id
      BY <1>1, <3>1, OldestStays
    <3>3. rs[e].cls = "comic"
      BY <3>1 DEF Review!OpenOf, Review!Set
    <3>4. storeEnt'[e].dup = d
      BY <1>3, <2>1
    <3> HIDE DEF d, rs
    <3>5. rs[d].id # rs[e].id /\ rs[d].id \in Nat /\ rs[e].id \in Nat
      BY <1>1, <1>2, <3>1, <3>2 DEF EntInv, Numbered
    <3>6. storeEnt'[d].id = rs[d].id /\ storeEnt'[e].id = rs[e].id /\ storeEnt'[e].cls = "comic"
      BY <1>3, <3>2, <3>3
    <3> QED
      BY <3>2, <3>4, <3>5, <3>6
  <2>2. CASE ~Review!Parks(rs, e)
    <3>1. storeEnt'[e] = rs[e]
      BY <1>3, <2>2
    <3> HIDE DEF rs
    <3>2. storeEnt[e].dup \in DOMAIN storeEnt \cup {0}
      BY <1>1 DEF EntInv, Parked
    <3>3. rs[e].dup \in DOMAIN storeEnt \cup {0}
      BY <1>2, <3>2
    <3>4. ASSUME rs[e].status = "duplicate"
          PROVE  /\ rs[e].cls = "comic" /\ rs[e].dup \in DOMAIN storeEnt
                 /\ storeEnt'[rs[e].dup].id < rs[e].id
      <4>1. rs[e] = storeEnt[e]
        BY <1>2, <3>4
      <4>2. /\ storeEnt[e].cls = "comic" /\ storeEnt[e].dup \in DOMAIN storeEnt
            /\ storeEnt[storeEnt[e].dup].id < storeEnt[e].id
        BY <1>1, <3>4, <4>1 DEF EntInv, Parked
      <4> QED
        BY <1>2, <1>3, <4>1, <4>2
    <3> QED
      BY <3>1, <3>3, <3>4
  <2> QED
    BY <2>1, <2>2
<1> HIDE DEF rs
<1>5. Parked(storeEnt)'
  BY <1>3, <1>4 DEF Parked
<1>6. Numbered(storeEnt)'
  BY <1>1, <1>2, <1>3 DEF EntInv, Numbered
<1>7. EntInv'
  BY <1>3, <1>5, <1>6 DEF EntInv, IsEnt, IsProposal
<1> DEFINE at == IF storeJob.refused THEN "expired" ELSE "synced"
<1>8. storeJob' = [storeJob EXCEPT !.at = at] /\ UNCHANGED <<storeLibrary, storeSource, storeOffer, storeFlow>>
  BY DEF Review!Link
<1> HIDE DEF at
<1>9. IsSyncJob(storeJob') /\ storeJob'.tries = storeJob.tries /\ storeJob'.accept = storeJob.accept
  BY <1>8 DEF ReviewInv, IsSyncJob
<1>10. IsSyncJob(storeJob)' /\ TriesSound(storeJob)'
  BY <1>3, <1>8, <1>9, JobGoesOn
<1>11. IsSource(storeSource)' /\ storeLibrary' \subseteq StoreSeries
  BY <1>8 DEF ReviewInv, IsSource
<1> QED
  BY <1>7, <1>8, <1>10, <1>11, OfferKept, FlowKept DEF ReviewInv

\* What LinkSound asks of the pass.
LEMMA LinkHidesNothing ==
  ASSUME EntInv, Review!Link
  PROVE  /\ \A e \in Review!Known : storeEnt'[e].status = "duplicate" =>
              \E x \in Review!Set(storeEnt', e) : storeEnt'[x].status # "duplicate"
         /\ \A e \in Review!Known, x \in Review!Known :
              (e # x /\ {e, x} \subseteq Review!OpenOf(storeEnt', e)) =>
                storeEnt'[e].out \/ storeEnt'[x].out \/ Review!Frozen(storeEnt', e)
<1> DEFINE rs == Review!Unparked
<1>1. DOMAIN storeEnt' = DOMAIN storeEnt
  BY LinkedRows
<1> USE DEF Review!Known
<1>2. \A e \in DOMAIN storeEnt :
         /\ Review!Set(storeEnt', e) = Review!Set(rs, e)
         /\ Review!Frozen(rs, e) => Review!Frozen(storeEnt', e)
  <2>1. ASSUME NEW e \in DOMAIN storeEnt
        PROVE  /\ Review!Set(storeEnt, e)' = Review!Set(rs, e)
               /\ Review!Frozen(rs, e) => Review!Frozen(storeEnt, e)'
    BY SetsStay
  <2> QED
    BY <1>1, <2>1 DEF Review!Set, Review!Frozen
<1>3. ASSUME NEW e \in DOMAIN storeEnt, storeEnt'[e].status = "duplicate"
      PROVE  \E x \in Review!Set(storeEnt', e) : storeEnt'[x].status # "duplicate"
  <2>1. CASE Review!Parks(rs, e)
    <3>1. e \in Review!Set(rs, e) /\ rs[e].status # "duplicate"
      BY <2>1 DEF Review!Parks, Review!OpenOf
    <3> QED
      BY <1>2, <3>1, SetKeepsOne
  <2>2. CASE ~Review!Parks(rs, e)
    <3>1. rs[e].status = "duplicate"
      BY <1>3, <2>2, LinkedRows
    <3>2. \E m \in Review!Set(rs, e) : rs[m].status # "duplicate"
      BY <3>1, EvidenceOpen
    <3> QED
      BY <1>2, <3>2, SetKeepsOne
  <2> QED
    BY <2>1, <2>2
<1>4. ASSUME NEW e \in DOMAIN storeEnt, NEW x \in DOMAIN storeEnt, e # x,
             {e, x} \subseteq Review!OpenOf(storeEnt', e)
      PROVE  storeEnt'[e].out \/ storeEnt'[x].out \/ Review!Frozen(storeEnt', e)
  <2>1. /\ e \in Review!Set(rs, e) /\ x \in Review!Set(rs, e)
        /\ storeEnt'[e].status = "new" /\ storeEnt'[x].status = "new"
    BY <1>2, <1>4 DEF Review!OpenOf
  <2>2. ASSUME NEW y \in {e, x} PROVE ~Review!Parks(rs, y) /\ rs[y].status = "new" /\ storeEnt'[y] = rs[y]
    BY <2>1, <2>2, LinkedRows
  <2>3. rs[x].md5 = rs[e].md5
    BY <2>1 DEF Review!Set
  <2>4. Review!OpenOf(rs, x) = Review!OpenOf(rs, e) /\ Review!Frozen(rs, x) = Review!Frozen(rs, e)
    BY <2>1, <2>3, SameSet
  <2>5. e \in Review!OpenOf(rs, e) /\ x \in Review!OpenOf(rs, e)
    BY <2>1, <2>2 DEF Review!OpenOf
  <2>6. /\ rs[e].out \/ Review!Frozen(rs, e) \/ e = Review!Oldest(rs, Review!OpenOf(rs, e))
        /\ rs[x].out \/ Review!Frozen(rs, e) \/ x = Review!Oldest(rs, Review!OpenOf(rs, e))
    BY <2>2, <2>4, <2>5 DEF Review!Parks
  <2> QED
    BY <1>2, <1>4, <2>2, <2>6
<1> QED
  BY <1>3, <1>4

(* Proposals and acceptances.                                               *)
LEMMA ProposalSound ==
  ASSUME NEW e \in Purchases, storeLibrary \subseteq StoreSeries
  PROVE  /\ IsProposal(Review!Proposal(e))
         /\ Review!Proposal(e).kind # "marker" => Best[e] \in StoreSeries
<1>1. Best[e] \in StoreSeries \cup {Nobody}
  BY ProvidersAssumption DEF Review!ReviewAssumption
<1>2. CASE Best[e] = Nobody
  <2>1. Review!Proposal(e) = [Review!NoProposal EXCEPT !.kind = "marker"]
    BY <1>2 DEF Review!Proposal
  <2> QED
    BY <2>1 DEF IsProposal, Review!NoProposal
<1>3. CASE Best[e] # Nobody
  <2> DEFINE kind == IF Best[e] \in storeLibrary THEN "library" ELSE "comicvine"
             sure == e \in Sure
  <2>1. Review!Proposal(e) = [s |-> Best[e], vol |-> Best[e], kind |-> kind, sure |-> sure,
                              picked |-> FALSE]
    BY <1>3 DEF Review!Proposal
  <2>2. kind \in {"library", "comicvine"} /\ Best[e] \in StoreSeries
    BY <1>1, <1>3
  <2> HIDE DEF kind, sure
  <2> QED
    BY <2>1, <2>2 DEF IsProposal
<1> QED
  BY <1>2, <1>3

LEMMA TriesOf ==
  ASSUME ReviewInv, NEW es, es \subseteq DOMAIN storeEnt
  PROVE  \A e \in DOMAIN Review!Attempts(es) :
           /\ e \in DOMAIN storeEnt /\ IsProposal(Review!Attempts(es)[e].prop)
           /\ Review!Attempts(es)[e].prop.kind # "marker" => Best[e] \in StoreSeries
<1>1. DOMAIN storeEnt \subseteq Purchases /\ storeLibrary \subseteq StoreSeries
  BY DEF ReviewInv, EntInv, Numbered
<1>2. \A e \in DOMAIN Review!Attempts(es) : e \in es /\ Review!Attempts(es)[e].prop = Review!Proposal(e)
  BY DEF Review!Attempts
<1> QED
  BY <1>1, <1>2, ProposalSound

LEMMA ProposeStep == ASSUME ReviewInv, Review!Enrich \/ Review!Recompute PROVE ReviewInv'
<1>1. UNCHANGED <<storeEnt, storeLibrary, storeSource, storeOffer, storeFlow>>
  BY DEF Review!Enrich, Review!Recompute
<1>2. \E es, j :
        /\ es \in SUBSET DOMAIN storeEnt
        /\ IsSyncJob(j) /\ j.accept \subseteq storeJob.accept
        /\ storeJob' = [j EXCEPT !.at = "record", !.tries = Review!Attempts(es)]
  <2>1. CASE Review!Enrich
    <3>1. Review!Pending \in SUBSET DOMAIN storeEnt
      BY DEF Review!Pending, Review!Reviewable, Review!Known
    <3>2. storeJob' = [storeJob EXCEPT !.at = "record", !.tries = Review!Attempts(Review!Pending)]
      BY <2>1 DEF Review!Enrich
    <3> QED
      BY <3>1, <3>2 DEF ReviewInv
  <2>2. CASE Review!Recompute
    <3>1. Review!Markers \in SUBSET DOMAIN storeEnt
      BY DEF Review!Markers, Review!Reviewable, Review!Known
    <3>2. storeJob' = [Review!NoJob EXCEPT !.at = "record", !.tries = Review!Attempts(Review!Markers)]
      BY <2>2 DEF Review!Recompute
    <3>3. Review!NoJob.accept = {}
      BY DEF Review!NoJob
    <3> QED
      BY <3>1, <3>2, <3>3, NoReview
  <2> QED
    BY <2>1, <2>2
<1>3. PICK es, j :
        /\ es \in SUBSET DOMAIN storeEnt
        /\ IsSyncJob(j) /\ j.accept \subseteq storeJob.accept
        /\ storeJob' = [j EXCEPT !.at = "record", !.tries = Review!Attempts(es)]
  BY <1>2
<1> DEFINE tries == Review!Attempts(es)
<1>4. \A e \in DOMAIN tries :
        /\ e \in DOMAIN storeEnt /\ IsProposal(tries[e].prop)
        /\ tries[e].prop.kind # "marker" => Best[e] \in StoreSeries
  BY <1>3, TriesOf
<1>5. storeJob' = [j EXCEPT !.at = "record", !.tries = tries]
  BY <1>3
<1> HIDE DEF tries
<1>6. IsSyncJob(storeJob') /\ storeJob'.tries = tries /\ storeJob'.accept = j.accept
  BY <1>3, <1>5 DEF IsSyncJob
<1>7. IsSyncJob(storeJob)'
  BY <1>1, <1>6 DEF IsSyncJob
<1>8. TriesSound(storeJob)'
  BY <1>1, <1>3, <1>4, <1>6 DEF ReviewInv, TriesSound, IsProposal
<1>9. IsSource(storeSource)' /\ storeLibrary' \subseteq StoreSeries
  BY <1>1 DEF ReviewInv, IsSource
<1> QED
  BY <1>1, <1>7, <1>8, <1>9, EntKept, OfferKept, FlowKept DEF ReviewInv

\* What the recording of the attempts makes of the rows.
LEMMA RecordedRows ==
  ASSUME ReviewInv, Review!Record
  PROVE  /\ DOMAIN storeEnt' = DOMAIN storeEnt
         /\ \A e \in DOMAIN storeEnt :
              /\ IsEnt(storeEnt'[e]) /\ storeEnt'[e].id = storeEnt[e].id
              /\ storeEnt'[e].dup = storeEnt[e].dup /\ storeEnt'[e].status = storeEnt[e].status
              /\ storeEnt'[e].cls = storeEnt[e].cls /\ storeEnt'[e].series = storeEnt[e].series
              /\ (e \in DOMAIN storeJob.tries /\ storeEnt[e].prop # storeJob.tries[e].expect)
                 => storeEnt'[e].prop = storeEnt[e].prop
<1> DEFINE rs == [e \in DOMAIN storeEnt |->
                    IF e \in DOMAIN storeJob.tries /\ Review!Open(e)
                    THEN Review!Stamped(e, storeJob.tries[e], storeEnt[e].prop = storeJob.tries[e].expect)
                    ELSE storeEnt[e]]
           Agrees(r, e) == /\ IsEnt(r) /\ r.id = storeEnt[e].id /\ r.dup = storeEnt[e].dup
                           /\ r.status = storeEnt[e].status /\ r.cls = storeEnt[e].cls
                           /\ r.series = storeEnt[e].series
                           /\ (e \in DOMAIN storeJob.tries /\ storeEnt[e].prop # storeJob.tries[e].expect)
                              => r.prop = storeEnt[e].prop
<1>1. storeEnt' = Review!Dense(rs) /\ DOMAIN rs = DOMAIN storeEnt
  BY DEF Review!Record, Review!Known
<1>2. ASSUME NEW e \in DOMAIN storeEnt PROVE Agrees(rs[e], e)
  <2>1. IsEnt(storeEnt[e])
    BY DEF ReviewInv, EntInv
  <2>2. CASE e \in DOMAIN storeJob.tries /\ Review!Open(e)
    <3> DEFINE t == storeJob.tries[e]
               fits == storeEnt[e].prop = t.expect
               p == IF t.stores /\ fits THEN t.prop ELSE storeEnt[e].prop
               latest == Review!Latest
    <3>1. rs[e] = Review!Stamped(e, t, fits)
      BY <2>2
    <3>2. Review!Stamped(e, t, fits) = [storeEnt[e] EXCEPT !.rank = latest, !.error = t.error, !.prop = p]
      BY DEF Review!Stamped
    <3>3. IsProposal(t.prop)
      BY <2>2 DEF ReviewInv, TriesSound
    <3>4. IsProposal(storeEnt[e].prop)
      BY <2>1 DEF IsEnt
    <3>5. IsProposal(p) /\ (storeEnt[e].prop # t.expect => p = storeEnt[e].prop)
      BY <3>3, <3>4
    <3> DEFINE error == t.error
    <3>6. rs[e] = [storeEnt[e] EXCEPT !.rank = latest, !.error = error, !.prop = p]
      BY <3>1, <3>2
    <3> HIDE DEF p, latest, error, rs
    <3>7. /\ IsEnt(rs[e]) /\ rs[e].id = storeEnt[e].id /\ rs[e].dup = storeEnt[e].dup
          /\ rs[e].status = storeEnt[e].status /\ rs[e].cls = storeEnt[e].cls
          /\ rs[e].series = storeEnt[e].series /\ rs[e].prop = p
      BY <2>1, <3>5, <3>6 DEF IsEnt
    <3> QED
      BY <3>5, <3>7
  <2>3. CASE ~(e \in DOMAIN storeJob.tries /\ Review!Open(e))
    <3>1. rs[e] = storeEnt[e]
      BY <2>3
    <3> HIDE DEF rs
    <3> QED
      BY <2>1, <3>1
  <2> QED
    BY <2>2, <2>3
<1> DEFINE Rank(e) == Cardinality({rs[x].rank : x \in DOMAIN rs} \cap 1..rs[e].rank)
<1>3. /\ DOMAIN storeEnt' = DOMAIN storeEnt
      /\ \A e \in DOMAIN storeEnt : storeEnt'[e] = [rs[e] EXCEPT !.rank = Rank(e)]
  BY <1>1 DEF Review!Dense, Review!Cardinality, Cardinality
<1> HIDE DEF rs, Rank
<1>4. ASSUME NEW e \in DOMAIN storeEnt PROVE Agrees(storeEnt'[e], e)
  <2> DEFINE k == Rank(e)
             r == rs[e]
  <2>1. storeEnt'[e] = [r EXCEPT !.rank = k]
    BY <1>3
  <2>2. IsEnt(r)
    BY <1>2
  <2> HIDE DEF k, r
  <2>3. /\ IsEnt(storeEnt'[e]) /\ storeEnt'[e].id = r.id /\ storeEnt'[e].dup = r.dup
        /\ storeEnt'[e].status = r.status /\ storeEnt'[e].cls = r.cls
        /\ storeEnt'[e].series = r.series /\ storeEnt'[e].prop = r.prop
    BY <2>1, <2>2 DEF IsEnt
  <2> QED
    BY <1>2, <2>3 DEF r
<1> QED
  BY <1>3, <1>4

LEMMA RecordStep == ASSUME ReviewInv, Review!Record PROVE ReviewInv'
<1>1. EntInv
  BY DEF ReviewInv
<1>2. EntInv'
  BY <1>1, RecordedRows, EntRewritten
<1> DEFINE found == {e \in DOMAIN storeJob.tries :
                       storeJob.tries[e].stores /\ storeJob.tries[e].prop.sure
                       /\ storeJob.tries[e].prop.kind # "marker"}
           accept == IF ~storeJob.auto THEN {} ELSE found
<1>3. /\ storeJob' = [storeJob EXCEPT !.at = "accept", !.tries = <<>>, !.accept = accept]
      /\ UNCHANGED <<storeLibrary, storeSource, storeOffer, storeFlow>>
  BY DEF Review!Record, Review!Recorded
<1>4. \A e \in accept : Best[e] \in StoreSeries
  BY DEF ReviewInv, TriesSound
<1> HIDE DEF found, accept
<1>5. IsSyncJob(storeJob') /\ storeJob'.tries = <<>> /\ storeJob'.accept = accept
  BY <1>3 DEF ReviewInv, IsSyncJob
<1>6. IsSyncJob(storeJob)'
  BY <1>3, <1>5 DEF IsSyncJob
<1>7. DOMAIN <<>> = {}
  OBVIOUS
<1>8. TriesSound(storeJob)'
  BY <1>4, <1>5, <1>7 DEF TriesSound
<1>9. IsSource(storeSource)' /\ storeLibrary' \subseteq StoreSeries
  BY <1>3 DEF ReviewInv, IsSource
<1> QED
  BY <1>2, <1>3, <1>6, <1>8, <1>9, OfferKept, FlowKept DEF ReviewInv

LEMMA AutoAcceptStep == ASSUME ReviewInv, NEW e \in storeJob.accept, Review!AutoAccept(e) PROVE ReviewInv'
<1> DEFINE at == IF Best[e] \in storeLibrary THEN "match" ELSE "add"
           f == [Review!NoFlow EXCEPT !.at = at, !.e = e, !.s = Best[e], !.strict = TRUE]
           accept == storeJob.accept \ {e}
<1>1. /\ storeFlow' = [storeFlow EXCEPT !["job"] = f] \/ UNCHANGED storeFlow
      /\ storeJob' = [storeJob EXCEPT !.accept = accept]
      /\ UNCHANGED <<storeEnt, storeLibrary, storeSource, storeOffer>>
  BY DEF Review!AutoAccept
<1>2. at \in {"match", "add"} /\ Best[e] \in StoreSeries
  BY DEF ReviewInv, TriesSound
<1> HIDE DEF at
<1>3. IsFlow(f) /\ f.s \in StoreSeries /\ f.strict
  BY <1>2, NoReview DEF IsFlow, Review!NoFlow
<1> HIDE DEF f
<1>4. "job" \in Review!Actors
  BY DEF Review!Actors
<1>5. DOMAIN storeFlow' = Review!Actors /\ \A a \in Review!Actors : FlowSound(a)'
  BY <1>1, <1>3, <1>4, FlowMoves, FlowKept
<1>6. accept \subseteq storeJob.accept
  OBVIOUS
<1> HIDE DEF accept
<1>7. IsSyncJob(storeJob') /\ storeJob'.tries = storeJob.tries /\ storeJob'.accept = accept
  BY <1>1 DEF ReviewInv, IsSyncJob
<1>8. IsSyncJob(storeJob)' /\ TriesSound(storeJob)'
  BY <1>1, <1>6, <1>7, JobGoesOn
<1>9. IsSource(storeSource)' /\ storeLibrary' \subseteq StoreSeries
  BY <1>1 DEF ReviewInv, IsSource
<1> QED
  BY <1>1, <1>5, <1>8, <1>9, EntKept, OfferKept DEF ReviewInv

LEMMA StepTo ==
  ASSUME ReviewInv, NEW a \in Review!Actors, NEW at, Review!Step(a, at),
         storeFlow[a].at \notin {"idle", "restore"}
  PROVE  DOMAIN storeFlow' = Review!Actors /\ \A b \in Review!Actors : FlowSound(b)'
<1> DEFINE f == [storeFlow[a] EXCEPT !.at = at]
<1>1. storeFlow' = [storeFlow EXCEPT ![a] = f]
  BY DEF Review!Step
<1>2. FlowSound(a)
  BY DEF ReviewInv
<1>3. IsFlow(f) /\ f.s \in StoreSeries /\ (a = "job" => f.strict)
  BY <1>2 DEF FlowSound, IsFlow
<1> HIDE DEF f
<1> QED
  BY <1>1, <1>3, FlowMoves

LEMMA NextSound ==
  ASSUME ReviewInv, NEW a \in Review!Actors, NEW f, f \in {Review!NextOf(a), Review!NoFlow},
         storeFlow' = [storeFlow EXCEPT ![a] = f], storeFlow[a].at = "match"
  PROVE  DOMAIN storeFlow' = Review!Actors /\ \A b \in Review!Actors : FlowSound(b)'
<1> DEFINE now == storeFlow[a]
           e == Review!Oldest(storeEnt, now.rest)
           rest == now.rest \ {Review!Oldest(storeEnt, now.rest)}
<1>1. IsFlow(now) /\ now.s \in StoreSeries /\ (a = "job" => now.strict)
  BY DEF ReviewInv, FlowSound
<1>2. \/ f = [now EXCEPT !.e = e, !.rest = rest]
      \/ f = [now EXCEPT !.at = "sweep"] \/ f = Review!NoFlow
  BY DEF Review!NextOf
<1> HIDE DEF now, e, rest
<1>3. CASE f = Review!NoFlow
  <2>1. IsFlow(f) /\ f.at = "idle"
    BY <1>3, NoReview DEF Review!NoFlow
  <2> QED
    BY <2>1, FlowMoves
<1>4. CASE f = [now EXCEPT !.at = "sweep"]
  <2>1. IsFlow(f) /\ f.s = now.s /\ f.strict = now.strict
    BY <1>1, <1>4 DEF IsFlow
  <2> QED
    BY <1>1, <2>1, FlowMoves
<1>5. CASE f = [now EXCEPT !.e = e, !.rest = rest]
  <2>1. IsFlow(f) /\ f.s = now.s /\ f.strict = now.strict
    BY <1>1, <1>5 DEF IsFlow
  <2> QED
    BY <1>1, <2>1, FlowMoves
<1> QED
  BY <1>2, <1>3, <1>4, <1>5

\* A proposal that is rewritten leaves the rest of its row alone.
LEMMA RewrittenRow ==
  ASSUME NEW e, IsEnt(storeEnt[e]), NEW s \in StoreSeries
  PROVE  LET r == Review!Rewritten(e, s) IN
         /\ IsEnt(r) /\ r.id = storeEnt[e].id /\ r.dup = storeEnt[e].dup
         /\ r.status = storeEnt[e].status /\ r.cls = storeEnt[e].cls /\ r.series = storeEnt[e].series
<1> DEFINE r == Review!Rewritten(e, s)
           p == [storeEnt[e].prop EXCEPT !.s = s, !.kind = "library", !.sure = FALSE, !.picked = TRUE]
<1>1. r = storeEnt[e] \/ r = [storeEnt[e] EXCEPT !.prop = p]
  BY DEF Review!Rewritten
<1>2. IsProposal(storeEnt[e].prop)
  BY DEF IsEnt
<1>3. IsProposal(p)
  BY <1>2 DEF IsProposal
<1> HIDE DEF r, p
<1>4. CASE r = [storeEnt[e] EXCEPT !.prop = p]
  <2>1. /\ IsEnt(r) /\ r.id = storeEnt[e].id /\ r.dup = storeEnt[e].dup
        /\ r.status = storeEnt[e].status /\ r.cls = storeEnt[e].cls /\ r.series = storeEnt[e].series
    BY <1>3, <1>4 DEF IsEnt
  <2> QED
    BY <2>1 DEF r
<1>5. CASE r = storeEnt[e]
  BY <1>5 DEF r
<1> QED
  BY <1>1, <1>4, <1>5

\* What a sweep, of a volume or of a group, makes of the rows.
LEMMA SweptRows ==
  ASSUME ReviewInv, NEW a \in Review!Actors, Review!SweepVolume(a) \/ Review!SweepGroup(a)
  PROVE  /\ DOMAIN storeEnt' = DOMAIN storeEnt
         /\ \A e \in DOMAIN storeEnt :
              /\ IsEnt(storeEnt'[e]) /\ storeEnt'[e].id = storeEnt[e].id
              /\ storeEnt'[e].dup = storeEnt[e].dup /\ storeEnt'[e].status = storeEnt[e].status
              /\ storeEnt'[e].cls = storeEnt[e].cls /\ storeEnt'[e].series = storeEnt[e].series
<1>1. FlowSound(a)
  BY DEF ReviewInv
<1>2. storeFlow[a].s \in StoreSeries
  BY <1>1 DEF FlowSound, Review!SweepVolume, Review!SweepGroup
<1>3. /\ DOMAIN storeEnt' = DOMAIN storeEnt
      /\ \A e \in DOMAIN storeEnt :
           storeEnt'[e] = storeEnt[e] \/ storeEnt'[e] = Review!Rewritten(e, storeFlow[a].s)
  BY DEF Review!SweepVolume, Review!SweepGroup, Review!Known
<1>4. \A e \in DOMAIN storeEnt : IsEnt(storeEnt[e])
  BY DEF ReviewInv, EntInv
<1>5. ASSUME NEW e \in DOMAIN storeEnt
      PROVE  /\ IsEnt(storeEnt'[e]) /\ storeEnt'[e].id = storeEnt[e].id
             /\ storeEnt'[e].dup = storeEnt[e].dup /\ storeEnt'[e].status = storeEnt[e].status
             /\ storeEnt'[e].cls = storeEnt[e].cls /\ storeEnt'[e].series = storeEnt[e].series
  BY <1>2, <1>3, <1>4, RewrittenRow
<1> QED
  BY <1>3, <1>5

\* What a match, or the operator's word on a row, makes of it.
LEMMA RowChanged ==
  ASSUME EntInv, NEW e \in DOMAIN storeEnt, NEW r, storeEnt' = [storeEnt EXCEPT ![e] = r],
         IsEnt(r), r.id = storeEnt[e].id, r.dup \in {storeEnt[e].dup, 0}, r.status # "duplicate"
  PROVE  EntInv' /\ DOMAIN storeEnt' = DOMAIN storeEnt
<1>1. DOMAIN storeEnt' = DOMAIN storeEnt
  OBVIOUS
<1>2. \A x \in DOMAIN storeEnt : storeEnt'[x] = IF x = e THEN r ELSE storeEnt[x]
  OBVIOUS
<1>3. ASSUME NEW x \in DOMAIN storeEnt
      PROVE  /\ IsEnt(storeEnt'[x]) /\ storeEnt'[x].id = storeEnt[x].id
             /\ storeEnt'[x].dup \in {storeEnt[x].dup, 0}
             /\ storeEnt'[x].status = "duplicate" =>
                  /\ storeEnt[x].status = "duplicate" /\ storeEnt'[x].cls = storeEnt[x].cls
                  /\ storeEnt'[x].dup = storeEnt[x].dup
  <2>1. IsEnt(storeEnt[x])
    BY DEF EntInv
  <2>2. CASE x = e
    BY <1>2, <2>2
  <2>3. CASE x # e
    BY <1>2, <2>1, <2>3
  <2> QED
    BY <2>2, <2>3
<1> QED
  BY <1>1, <1>3, EntRewritten

LEMMA MatchedRow ==
  ASSUME ReviewInv, NEW a \in Review!Actors, Review!Match(a)
  PROVE  /\ EntInv' /\ DOMAIN storeEnt' = DOMAIN storeEnt
         /\ \A x \in DOMAIN storeEnt : storeEnt'[x].cls = storeEnt[x].cls
         /\ \A x \in DOMAIN storeEnt : x # storeFlow[a].e => storeEnt'[x] = storeEnt[x]
<1> DEFINE e == storeFlow[a].e
           s == storeFlow[a].s
<1>1. storeEnt' = [storeEnt EXCEPT ![e].status = "matched", ![e].series = s]
  BY DEF Review!Match, Review!Matched
<1>2. EntInv
  BY DEF ReviewInv
<1> HIDE DEF e, s
<1>3. CASE e \notin DOMAIN storeEnt
  <2>1. DOMAIN storeEnt' = DOMAIN storeEnt /\ \A x \in DOMAIN storeEnt : storeEnt'[x] = storeEnt[x]
    BY <1>1, <1>3
  <2>2. \A x \in DOMAIN storeEnt : IsEnt(storeEnt[x])
    BY <1>2 DEF EntInv
  <2> QED
    BY <1>2, <2>1, <2>2, EntRewritten DEF e
<1>4. CASE e \in DOMAIN storeEnt
  <2> DEFINE r == [storeEnt[e] EXCEPT !.status = "matched", !.series = s]
  <2>1. storeEnt' = [storeEnt EXCEPT ![e] = r]
    BY <1>1, <1>4
  <2>2. IsEnt(storeEnt[e])
    BY <1>2, <1>4 DEF EntInv
  <2>3. /\ IsEnt(r) /\ r.id = storeEnt[e].id /\ r.dup = storeEnt[e].dup /\ r.status = "matched"
        /\ r.cls = storeEnt[e].cls
    BY <2>2 DEF IsEnt
  <2> HIDE DEF r
  <2>4. EntInv' /\ DOMAIN storeEnt' = DOMAIN storeEnt
    BY <1>2, <1>4, <2>1, <2>3, RowChanged
  <2> QED
    BY <1>4, <2>1, <2>3, <2>4 DEF e
<1> QED
  BY <1>3, <1>4

LEMMA AcceptanceStep == ASSUME ReviewInv, NEW a \in Review!Actors, Review!Acceptance(a) PROVE ReviewInv'
<1>1. EntInv /\ FlowSound(a)
  BY DEF ReviewInv
<1>2. UNCHANGED <<storeSource, storeOffer, storeJob>>
  BY DEF Review!Acceptance, Review!AddSeries, Review!SweepVolume, Review!Match, Review!MatchRefused,
         Review!SweepGroup
<1>3. IsSource(storeSource)'
  BY <1>2 DEF ReviewInv, IsSource
<1>4. storeLibrary' \subseteq StoreSeries
  <2>1. CASE Review!AddSeries(a)
    BY <1>1, <2>1 DEF ReviewInv, FlowSound, Review!AddSeries
  <2>2. CASE UNCHANGED storeLibrary
    BY <2>2 DEF ReviewInv
  <2> QED
    BY <2>1, <2>2 DEF Review!Acceptance, Review!SweepVolume, Review!Match, Review!MatchRefused,
                      Review!SweepGroup
<1>5. EntInv' /\ DOMAIN storeEnt' = DOMAIN storeEnt
  <2>1. CASE UNCHANGED storeEnt
    BY <2>1, EntKept
  <2>2. CASE Review!SweepVolume(a) \/ Review!SweepGroup(a)
    BY <1>1, <2>2, SweptRows, EntRewritten
  <2>3. CASE Review!Match(a)
    BY <2>3, MatchedRow
  <2> QED
    BY <2>1, <2>2, <2>3 DEF Review!Acceptance, Review!AddSeries, Review!MatchRefused
<1>6. DOMAIN storeFlow' = Review!Actors /\ \A b \in Review!Actors : FlowSound(b)'
  <2>1. CASE Review!AddSeries(a) \/ Review!SweepVolume(a) \/ Review!SweepGroup(a)
    BY <2>1, StepTo DEF Review!AddSeries, Review!SweepVolume, Review!SweepGroup
  <2>2. CASE Review!Match(a) \/ Review!MatchRefused(a)
    <3>1. \E g \in {Review!NextOf(a), Review!NoFlow} : storeFlow' = [storeFlow EXCEPT ![a] = g]
      BY <2>2 DEF Review!Match, Review!MatchRefused
    <3>2. storeFlow[a].at = "match"
      BY <2>2 DEF Review!Match, Review!MatchRefused
    <3> QED
      BY <3>1, <3>2, NextSound
  <2> QED
    BY <2>1, <2>2 DEF Review!Acceptance
<1> QED
  BY <1>2, <1>3, <1>4, <1>5, <1>6, JobKept, OfferKept DEF ReviewInv

(* Requests of the operator, and the shop.                                  *)
\* A request starts a flow.
LEMMA AskStep ==
  ASSUME ReviewInv, NEW f, Review!Ask(f), UNCHANGED <<storeEnt, storeLibrary, storeSource, storeOffer, storeJob>>,
         IsFlow(f), f.at \notin {"idle", "restore"} => f.s \in StoreSeries
  PROVE  ReviewInv'
<1>1. "operator" \in Review!Actors /\ "operator" # "job"
  BY DEF Review!Actors
<1>2. DOMAIN storeFlow' = Review!Actors /\ \A b \in Review!Actors : FlowSound(b)'
  BY <1>1, FlowMoves DEF Review!Ask
<1>3. IsSource(storeSource)' /\ storeLibrary' \subseteq StoreSeries
  BY DEF ReviewInv, IsSource
<1> QED
  BY <1>2, <1>3, JobKept, EntKept, OfferKept DEF ReviewInv

LEMMA RequestStep ==
  ASSUME ReviewInv,
         \/ \E es \in SUBSET Review!Known, s \in storeLibrary, strict, sweep \in BOOLEAN :
              Review!Pick(es, s, strict, sweep)
         \/ \E e \in Review!Known : \/ Review!Accept(e) \/ Review!RestoreAsk(e)
                                    \/ \E s \in StoreSeries : Review!Add(e, s)
  PROVE  ReviewInv'
<1> USE DEF Review!Known
<1>1. ASSUME NEW es, NEW s \in storeLibrary, NEW strict, NEW sweep, Review!Pick(es, s, strict, sweep)
      PROVE  ReviewInv'
  <2> DEFINE e == Review!Oldest(storeEnt, es)
             rest == es \ {Review!Oldest(storeEnt, es)}
             f == [Review!NoFlow EXCEPT !.at = "match", !.e = e, !.rest = rest, !.s = s,
                                        !.strict = strict, !.sweep = sweep]
  <2>1. Review!Ask(f) /\ UNCHANGED <<storeEnt, storeLibrary, storeSource, storeOffer, storeJob>>
    BY <1>1 DEF Review!Pick
  <2> HIDE DEF e, rest
  <2>2. IsFlow(f) /\ f.s = s
    BY NoReview DEF IsFlow, Review!NoFlow
  <2> HIDE DEF f
  <2>3. s \in StoreSeries
    BY DEF ReviewInv
  <2> QED
    BY <2>1, <2>2, <2>3, AskStep
<1>2. ASSUME NEW e \in DOMAIN storeEnt, Review!Accept(e) PROVE ReviewInv'
  <2> DEFINE at == IF storeEnt[e].prop.kind = "library" THEN "match"
                   ELSE IF storeEnt[e].prop.s \in storeLibrary THEN "resolve" ELSE "add"
             s == storeEnt[e].prop.s
             f == [Review!NoFlow EXCEPT !.at = at, !.e = e, !.s = s, !.strict = TRUE, !.sweep = TRUE]
  <2>1. Review!Ask(f) /\ UNCHANGED <<storeEnt, storeLibrary, storeSource, storeOffer, storeJob>>
    BY <1>2 DEF Review!Accept
  <2>2. s \in StoreSeries
    BY <1>2 DEF Review!Accept, ReviewInv, EntInv, IsEnt, IsProposal
  <2> HIDE DEF at, s
  <2>3. IsFlow(f) /\ f.s = s
    BY NoReview DEF IsFlow, Review!NoFlow
  <2> HIDE DEF f
  <2> QED
    BY <2>1, <2>2, <2>3, AskStep
<1>3. ASSUME NEW e \in DOMAIN storeEnt, NEW s \in StoreSeries, Review!Add(e, s) PROVE ReviewInv'
  <2> DEFINE at == IF s \in storeLibrary THEN "resolve" ELSE "add"
             f == [Review!NoFlow EXCEPT !.at = at, !.e = e, !.s = s, !.sweep = TRUE]
  <2>1. Review!Ask(f) /\ UNCHANGED <<storeEnt, storeLibrary, storeSource, storeOffer, storeJob>>
    BY <1>3 DEF Review!Add
  <2> HIDE DEF at
  <2>2. IsFlow(f) /\ f.s = s
    BY NoReview DEF IsFlow, Review!NoFlow
  <2> HIDE DEF f
  <2> QED
    BY <2>1, <2>2, AskStep
<1>4. ASSUME NEW e \in DOMAIN storeEnt, Review!RestoreAsk(e) PROVE ReviewInv'
  <2> DEFINE p == IF e \in Unanswered THEN Review!NoProposal ELSE Review!Proposal(e)
             f == [Review!NoFlow EXCEPT !.at = "restore", !.e = e, !.prop = p]
  <2>1. Review!Ask(f) /\ UNCHANGED <<storeEnt, storeLibrary, storeSource, storeOffer, storeJob>>
    BY <1>4 DEF Review!RestoreAsk
  <2>2. e \in Purchases /\ storeLibrary \subseteq StoreSeries
    BY DEF ReviewInv, EntInv, Numbered
  <2>3. IsProposal(p)
    BY <2>2, ProposalSound, NoReview
  <2> HIDE DEF p
  <2>4. IsFlow(f) /\ f.at = "restore"
    BY <2>3, NoReview DEF IsFlow, Review!NoFlow
  <2> HIDE DEF f
  <2> QED
    BY <2>1, <2>4, AskStep
<1> QED
  BY <1>1, <1>2, <1>3, <1>4

\* The operator decides about one row at once.
LEMMA RestoredRow ==
  ASSUME NEW e, IsEnt(storeEnt[e]), NEW p, IsProposal(p)
  PROVE  LET r == Review!Restored(e, p) IN
         IsEnt(r) /\ r.id = storeEnt[e].id /\ r.dup = 0 /\ r.status = "new"
<1> DEFINE out == storeEnt[e].out \/ storeEnt[e].status = "duplicate"
           q == IF storeEnt[e].cls = "comic" THEN p ELSE storeEnt[e].prop
           r == [storeEnt[e] EXCEPT !.status = "new", !.series = Nobody, !.dup = 0, !.out = out, !.prop = q]
<1>1. Review!Restored(e, p) = r
  BY DEF Review!Restored
<1>2. IsProposal(q)
  BY DEF IsEnt
<1> HIDE DEF out, q
<1>3. IsEnt(r) /\ r.id = storeEnt[e].id /\ r.dup = 0 /\ r.status = "new"
  BY <1>2 DEF IsEnt
<1> HIDE DEF r
<1> QED
  BY <1>1, <1>3

LEMMA DecidedRow ==
  ASSUME NEW row, IsEnt(row), NEW c \in {"comic", "other"}
  PROVE  /\ LET r == [row EXCEPT !.status = "ignored", !.dup = 0] IN
            IsEnt(r) /\ r.id = row.id /\ r.dup = 0 /\ r.status = "ignored"
         /\ LET r == [row EXCEPT !.cls = c, !.via = "operator"] IN
            IsEnt(r) /\ r.id = row.id /\ r.dup = row.dup /\ r.status = row.status
BY DEF IsEnt

LEMMA RowStep ==
  ASSUME ReviewInv,
         \/ Review!Restore
         \/ \E e \in Review!Known : \/ Review!Ignore(e) \/ Review!RestoreBulk(e)
                                    \/ Review!Classify(e, "comic") \/ Review!Classify(e, "other")
  PROVE  ReviewInv'
<1> USE DEF Review!Known
<1>1. /\ UNCHANGED <<storeLibrary, storeSource, storeOffer, storeJob>>
      /\ UNCHANGED storeFlow \/ Review!Restore
  BY DEF Review!Restore, Review!Ignore, Review!RestoreBulk, Review!Classify
<1>2. EntInv
  BY DEF ReviewInv
<1>3. EntInv' /\ DOMAIN storeEnt' = DOMAIN storeEnt
  <2>1. \A e \in DOMAIN storeEnt : IsEnt(storeEnt[e])
    BY <1>2 DEF EntInv
  <2>2. ASSUME NEW e \in DOMAIN storeEnt, Review!Ignore(e) PROVE EntInv' /\ DOMAIN storeEnt' = DOMAIN storeEnt
    <3> DEFINE r == [storeEnt[e] EXCEPT !.status = "ignored", !.dup = 0]
    <3>1. storeEnt' = [storeEnt EXCEPT ![e].status = "ignored", ![e].dup = 0]
      BY <2>2 DEF Review!Ignore
    <3>2. storeEnt' = [storeEnt EXCEPT ![e] = r]
      BY <3>1
    <3>3. IsEnt(r) /\ r.id = storeEnt[e].id /\ r.dup = 0 /\ r.status = "ignored"
      BY <2>1, DecidedRow
    <3> HIDE DEF r
    <3> QED
      BY <1>2, <3>2, <3>3, RowChanged
  <2>3. ASSUME NEW e \in DOMAIN storeEnt, NEW c \in {"comic", "other"}, Review!Classify(e, c)
        PROVE  EntInv' /\ DOMAIN storeEnt' = DOMAIN storeEnt
    <3> DEFINE r == [storeEnt[e] EXCEPT !.cls = c, !.via = "operator"]
    <3>1. storeEnt' = [storeEnt EXCEPT ![e].cls = c, ![e].via = "operator"] /\ storeEnt[e].status = "new"
      BY <2>3 DEF Review!Classify, Review!Open
    <3>2. storeEnt' = [storeEnt EXCEPT ![e] = r]
      BY <3>1
    <3>3. IsEnt(r) /\ r.id = storeEnt[e].id /\ r.dup = storeEnt[e].dup /\ r.status = "new"
      BY <2>1, <3>1, DecidedRow
    <3> HIDE DEF r
    <3> QED
      BY <1>2, <3>2, <3>3, RowChanged
  <2>4. ASSUME NEW e \in DOMAIN storeEnt, Review!RestoreBulk(e)
        PROVE  EntInv' /\ DOMAIN storeEnt' = DOMAIN storeEnt
    <3> DEFINE q == Review!Restored(e, Review!NoProposal)
               rank == IF storeEnt[e].cls = "comic" THEN 0 ELSE q.rank
               r == [q EXCEPT !.rank = rank, !.error = FALSE]
    <3>1. storeEnt' = [storeEnt EXCEPT ![e] = r]
      BY <2>4 DEF Review!RestoreBulk
    <3>2. IsEnt(q) /\ q.id = storeEnt[e].id /\ q.dup = 0 /\ q.status = "new"
      BY <2>1, NoReview, RestoredRow
    <3> HIDE DEF q, rank
    <3>3. IsEnt(r) /\ r.id = storeEnt[e].id /\ r.dup = 0 /\ r.status = "new"
      BY <3>2 DEF IsEnt
    <3> HIDE DEF r
    <3> QED
      BY <1>2, <3>1, <3>3, RowChanged
  <2>5. CASE Review!Restore
    <3> DEFINE f == storeFlow["operator"]
    <3>1. IsProposal(f.prop)
      BY DEF ReviewInv, FlowSound, IsFlow, Review!Actors
    <3>2. \/ UNCHANGED storeEnt
          \/ f.e \in DOMAIN storeEnt /\ storeEnt' = [storeEnt EXCEPT ![f.e] = Review!Restored(f.e, f.prop)]
      BY <2>5 DEF Review!Restore, Review!Restorable
    <3> HIDE DEF f
    <3>3. CASE UNCHANGED storeEnt
      BY <3>3, EntKept
    <3>4. CASE f.e \in DOMAIN storeEnt /\ storeEnt' = [storeEnt EXCEPT ![f.e] = Review!Restored(f.e, f.prop)]
      <4> DEFINE r == Review!Restored(f.e, f.prop)
      <4>1. IsEnt(r) /\ r.id = storeEnt[f.e].id /\ r.dup = 0 /\ r.status = "new"
        BY <2>1, <3>1, <3>4, RestoredRow
      <4>2. storeEnt' = [storeEnt EXCEPT ![f.e] = r]
        BY <3>4
      <4> HIDE DEF r
      <4> QED
        BY <1>2, <3>4, <4>1, <4>2, RowChanged
    <3> QED
      BY <3>2, <3>3, <3>4
  <2> QED
    BY <2>2, <2>3, <2>4, <2>5
<1>4. DOMAIN storeFlow' = Review!Actors /\ \A b \in Review!Actors : FlowSound(b)'
  <2>1. CASE UNCHANGED storeFlow
    BY <2>1, FlowKept
  <2>2. CASE Review!Restore
    <3>1. storeFlow' = [storeFlow EXCEPT !["operator"] = Review!NoFlow] /\ "operator" \in Review!Actors
      BY <2>2 DEF Review!Restore, Review!Ask, Review!Actors
    <3>2. IsFlow(Review!NoFlow) /\ Review!NoFlow.at = "idle"
      BY NoReview DEF Review!NoFlow
    <3> QED
      BY <3>1, <3>2, FlowMoves
  <2> QED
    BY <1>1, <2>1, <2>2
<1>5. IsSource(storeSource)' /\ storeLibrary' \subseteq StoreSeries
  BY <1>1 DEF ReviewInv, IsSource
<1> QED
  BY <1>1, <1>3, <1>4, <1>5, JobKept, OfferKept DEF ReviewInv

LEMMA SourceStep ==
  ASSUME ReviewInv,
         \/ \E s \in StoreSeries : Review!DeleteSeries(s)
         \/ Review!SetAutoSync(TRUE) \/ Review!SetAutoSync(FALSE) \/ Review!Disconnect \/ Review!Reconnect
         \/ Review!Shop
  PROVE  ReviewInv'
<1>1. /\ UNCHANGED <<storeEnt, storeJob, storeFlow>>
      /\ storeLibrary' \subseteq storeLibrary
  BY DEF Review!DeleteSeries, Review!SetAutoSync, Review!Disconnect, Review!Reconnect, Review!Shop,
         Review!ShopChanges
<1>2. IsSource(storeSource)'
  <2>1. IsSource(storeSource)
    BY DEF ReviewInv
  <2>2. CASE UNCHANGED storeSource
    BY <2>1, <2>2 DEF IsSource
  <2>3. ASSUME NEW b, Review!SetAutoSync(b) PROVE IsSource(storeSource)'
    BY <2>1, <2>3 DEF Review!SetAutoSync, IsSource
  <2>4. CASE Review!Disconnect
    BY <2>1, <2>4 DEF Review!Disconnect, IsSource
  <2>5. CASE Review!Reconnect
    BY <2>1, <2>5 DEF Review!Reconnect, IsSource
  <2> QED
    BY <2>2, <2>3, <2>4, <2>5 DEF Review!DeleteSeries, Review!Shop, Review!ShopChanges
<1>3. OfferInv' /\ DOMAIN storeOffer \subseteq DOMAIN storeOffer'
  <2>1. CASE UNCHANGED storeOffer
    BY <2>1, OfferKept
  <2>2. ASSUME NEW o \in Purchases, NEW m, NEW c \in {"comic", "other"},
               Review!ShopChanges(o, [md5 |-> m, cls |-> c])
        PROVE  OfferInv' /\ DOMAIN storeOffer \subseteq DOMAIN storeOffer'
    <3> DEFINE new == [md5 |-> m, cls |-> c]
    <3>1. storeOffer' = [x \in DOMAIN storeOffer \cup {o} |-> IF x = o THEN new ELSE storeOffer[x]]
      BY <2>2 DEF Review!ShopChanges
    <3>2. new.cls = c
      OBVIOUS
    <3> HIDE DEF new
    <3> QED
      BY <3>1, <3>2 DEF ReviewInv, OfferInv
  <2> QED
    BY <2>1, <2>2
       DEF Review!DeleteSeries, Review!SetAutoSync, Review!Disconnect, Review!Reconnect, Review!Shop
<1>4. storeLibrary' \subseteq StoreSeries
  BY <1>1 DEF ReviewInv
<1> QED
  BY <1>1, <1>2, <1>3, <1>4, JobKept, EntKept, FlowKept DEF ReviewInv

LEMMA ReviewStep == ASSUME ReviewInv, [Review!Next]_storeVars PROVE ReviewInv'
<1>1. CASE UNCHANGED storeVars
  <2>1. UNCHANGED <<storeEnt, storeLibrary, storeSource, storeOffer, storeJob, storeFlow>>
    BY <1>1 DEF storeVars
  <2>2. IsSource(storeSource)' /\ storeLibrary' \subseteq StoreSeries
    BY <2>1 DEF ReviewInv, IsSource
  <2> QED
    BY <2>1, <2>2, JobKept, EntKept, OfferKept, FlowKept DEF ReviewInv
<1>2. CASE Review!Sync
  BY <1>2, SyncStep, PersistStep, LinkStep DEF Review!Sync
<1>3. CASE Review!Propose \/ Review!Recompute
  BY <1>3, ProposeStep, RecordStep, SyncStep, AutoAcceptStep DEF Review!Propose
<1>4. CASE Review!Operator \/ Review!Restore \/ Review!Shop
  BY <1>4, RequestStep, RowStep, SourceStep DEF Review!Operator
<1> QED
  BY <1>1, <1>2, <1>3, <1>4, AcceptanceStep DEF Review!Next

\* What a step of a job, or of an acceptance it runs, leaves of what the operator decided.
LEMMA DecisionsKept ==
  ASSUME ReviewInv, Review!Next, Review!ByJob, NEW e \in DOMAIN storeEnt
  PROVE  Review!Respected(e)
<1> SUFFICES /\ Review!Decided(e) => /\ storeEnt'[e].status = storeEnt[e].status
                                     /\ storeEnt'[e].series = storeEnt[e].series
             /\ storeEnt[e].via = "operator" => storeEnt'[e].cls = storeEnt[e].cls
  BY DEF Review!Respected
<1>1. EntInv /\ IsEnt(storeEnt[e])
  BY DEF ReviewInv, EntInv
<1>2. CASE UNCHANGED storeEnt
  BY <1>2
<1>3. ASSUME NEW o \in storeJob.todo, Review!Persist(o)
      PROVE  /\ Review!Decided(e) => /\ storeEnt'[e].status = storeEnt[e].status
                                     /\ storeEnt'[e].series = storeEnt[e].series
             /\ storeEnt[e].via = "operator" => storeEnt'[e].cls = storeEnt[e].cls
  <2>1. CASE e # o
    <3>1. storeEnt'[e] = storeEnt[e]
      BY <1>3, <2>1 DEF Review!Persist, Review!Known
    <3> QED
      BY <3>1
  <2>2. CASE e = o
    <3> DEFINE md5 == storeOffer[e].md5
               cls == IF Review!Owned(storeEnt[e]) THEN storeOffer[e].cls ELSE storeEnt[e].cls
    <3>1. storeEnt'[e] = [storeEnt[e] EXCEPT !.cls = cls, !.md5 = md5]
      BY <1>3, <2>2 DEF Review!Persist, Review!Known, Review!Refreshed
    <3>2. storeEnt[e].via = "operator" => cls = storeEnt[e].cls
      BY DEF Review!Owned
    <3> HIDE DEF cls, md5
    <3>3. /\ storeEnt'[e].status = storeEnt[e].status /\ storeEnt'[e].series = storeEnt[e].series
          /\ storeEnt'[e].cls = cls
      BY <1>1, <3>1 DEF IsEnt
    <3> QED
      BY <3>2, <3>3
  <2> QED
    BY <2>1, <2>2
<1>4. CASE Review!Link
  <2> DEFINE rs == Review!Unparked
  <2>1. storeEnt'[e].cls = storeEnt[e].cls
    BY <1>1, <1>4, UnparkedRows, LinkedRows
  <2>2. ASSUME Review!Decided(e) PROVE storeEnt'[e] = storeEnt[e]
    <3>1. storeEnt[e].status \in {"matched", "ignored"}
      BY <2>2 DEF Review!Decided
    <3>2. rs[e] = storeEnt[e]
      BY <1>1, <3>1, UnparkedRows
    <3>3. ~Review!Parks(rs, e)
      BY <3>1, <3>2 DEF Review!Parks, Review!OpenOf
    <3> QED
      BY <1>1, <1>4, <3>2, <3>3, LinkedRows
  <2> QED
    BY <2>1, <2>2
<1>5. CASE Review!Record
  BY <1>5, RecordedRows
<1>6. ASSUME NEW a \in Review!Actors, Review!SweepVolume(a) \/ Review!SweepGroup(a)
      PROVE  /\ storeEnt'[e].status = storeEnt[e].status /\ storeEnt'[e].series = storeEnt[e].series
             /\ storeEnt'[e].cls = storeEnt[e].cls
  BY <1>6, SweptRows
\* A match that the auto-sync runs reads the status again: the row is open.
<1>7. ASSUME NEW a \in Review!Actors, Review!Match(a)
      PROVE  /\ ~Review!Decided(e) \/ storeEnt'[e] = storeEnt[e]
             /\ storeEnt'[e].cls = storeEnt[e].cls
  <2>1. a = "job"
    <3>1. UNCHANGED storeJob /\ storeFlow' = [storeFlow EXCEPT ![a] = Review!NextOf(a)]
      BY <1>7 DEF Review!Match
    <3>2. DOMAIN storeFlow = Review!Actors /\ "job" \in Review!Actors
      BY DEF ReviewInv, Review!Actors
    <3> QED
      BY <3>1, <3>2 DEF Review!ByJob
  <2>2. storeFlow["job"].strict /\ storeFlow["job"].at = "match"
    BY <1>7, <2>1 DEF ReviewInv, FlowSound, Review!Match
  <2>3. storeEnt[storeFlow["job"].e].status = "new"
    BY <1>7, <2>1, <2>2 DEF Review!Match, Review!Accepts
  <2>4. e = storeFlow["job"].e => ~Review!Decided(e)
    BY <2>3 DEF Review!Decided
  <2> QED
    BY <1>7, <2>1, <2>4, MatchedRow
<1>8. ASSUME Review!Operator \/ Review!Shop \/ Review!Restore PROVE FALSE
  <2>1. /\ UNCHANGED storeJob
        /\ UNCHANGED storeFlow \/ \E f : storeFlow' = [storeFlow EXCEPT !["operator"] = f]
    BY <1>8 DEF Review!Operator, Review!Shop, Review!Restore, Review!Pick, Review!Accept, Review!Add,
                Review!Ignore, Review!Classify, Review!RestoreAsk, Review!RestoreBulk,
                Review!DeleteSeries, Review!SetAutoSync, Review!Disconnect, Review!Reconnect,
                Review!ShopChanges, Review!Ask
  <2>2. DOMAIN storeFlow = Review!Actors /\ "job" \in Review!Actors
    BY DEF ReviewInv, Review!Actors
  <2> QED
    BY <2>1, <2>2 DEF Review!ByJob
<1>9. \/ UNCHANGED storeEnt \/ (\E o \in storeJob.todo : Review!Persist(o)) \/ Review!Link \/ Review!Record
      \/ \E a \in Review!Actors : Review!SweepVolume(a) \/ Review!SweepGroup(a) \/ Review!Match(a)
  BY <1>8
     DEF Review!Next, Review!Sync, Review!Propose, Review!Acceptance, Review!SyncStart, Review!Refused,
         Review!OrdersEnd, Review!RecordSync, Review!SkipOrder, Review!Enrich, Review!Recompute,
         Review!JobEnds, Review!AutoAccept, Review!AddSeries, Review!MatchRefused
<1> QED
  BY <1>2, <1>3, <1>4, <1>5, <1>6, <1>7, <1>9

\* Against every job that read a row before the operator decided about it, the decision
\* stands, and so does a pick among the proposals.
THEOREM DecisionsOfTheOperatorStand == Spec => DecisionsStand
<1>1. Init => ReviewInv
  BY ReviewInit DEF Init
<1>2. ReviewInv /\ [Next]_vars => ReviewInv'
  BY OneActs, ReviewStep
<1>3. ReviewInv /\ [Next]_vars
      => [Review!ByJob => \A e \in Review!Known : Review!Respected(e)]_(Review!vars)
  <2> SUFFICES ASSUME ReviewInv, Review!Next, Review!ByJob, NEW e \in Review!Known
               PROVE  Review!Respected(e)
    BY OneActs DEF storeVars, Review!vars
  <2> QED
    BY DecisionsKept DEF Review!Known
<1>4. ReviewInv /\ [Next]_vars
      => [storeJob.at = "record" /\ storeJob'.at = "accept" =>
            \A e \in DOMAIN storeJob.tries :
              storeEnt[e].prop.picked /\ ~storeJob.tries[e].expect.picked
              => storeEnt'[e].prop = storeEnt[e].prop]_(Review!vars)
  <2> SUFFICES ASSUME ReviewInv, Review!Next, storeJob.at = "record", storeJob'.at = "accept",
                      NEW e \in DOMAIN storeJob.tries, storeEnt[e].prop.picked,
                      ~storeJob.tries[e].expect.picked
               PROVE  storeEnt'[e].prop = storeEnt[e].prop
    BY OneActs DEF storeVars, Review!vars
  <2>1. UNCHANGED storeJob \/ storeJob.at # "record" \/ Review!Record
    BY DEF Review!Next, Review!Sync, Review!Propose, Review!Acceptance, Review!SyncStart, Review!Refused,
           Review!OrdersEnd, Review!RecordSync, Review!SkipOrder, Review!Persist, Review!Link,
           Review!Enrich, Review!Recompute, Review!JobEnds, Review!AutoAccept, Review!AddSeries,
           Review!SweepVolume, Review!Match, Review!MatchRefused, Review!SweepGroup,
           Review!Operator, Review!Shop, Review!Restore, Review!Pick, Review!Accept, Review!Add,
           Review!Ignore, Review!Classify, Review!RestoreAsk, Review!RestoreBulk,
           Review!DeleteSeries, Review!SetAutoSync, Review!Disconnect, Review!Reconnect,
           Review!ShopChanges
  <2>2. Review!Record
    BY <2>1
  <2>3. e \in DOMAIN storeEnt
    BY DEF ReviewInv, TriesSound
  <2>4. storeEnt[e].prop # storeJob.tries[e].expect
    OBVIOUS
  <2> QED
    BY <2>2, <2>3, <2>4, RecordedRows
<1> QED
  BY <1>1, <1>2, <1>3, <1>4, PTL DEF Spec, DecisionsStand, Review!DecisionsStand, Review!PickStands

\* The linking pass parks no comic without another of its bytes and leaves no open pair.
THEOREM LinkingIsSound == Spec => LinkSound
<1>1. Init => ReviewInv
  BY ReviewInit DEF Init
<1>2. ReviewInv /\ [Next]_vars => ReviewInv'
  BY OneActs, ReviewStep
<1>3. ReviewInv => (focus = "store" => Review!TypeOK)
  <2> SUFFICES ASSUME ReviewInv PROVE Review!TypeOK
    OBVIOUS
  <2>1. DOMAIN storeEnt \subseteq Purchases
    BY DEF ReviewInv, EntInv, Numbered
  <2>2. \A e \in DOMAIN storeEnt :
           /\ storeEnt[e].status \in {"new", "matched", "ignored", "duplicate"}
           /\ storeEnt[e].cls \in {"comic", "other"}
           /\ storeEnt[e].dup \in DOMAIN storeEnt \cup {0}
    BY DEF ReviewInv, EntInv, IsEnt, Parked
  <2>3. storeSource.state \in {"connected", "expired", "disconnected"}
    BY DEF ReviewInv, IsSource
  <2> QED
    BY <2>1, <2>2, <2>3 DEF ReviewInv, Review!TypeOK, Review!Known
<1>4. ReviewInv /\ [Next]_vars
      => [storeJob.at = "link" /\ storeJob'.at # "link" =>
            /\ \A e \in Review!Known : storeEnt'[e].status = "duplicate" =>
                 \E x \in Review!Set(storeEnt', e) : storeEnt'[x].status # "duplicate"
            /\ \A e \in Review!Known, x \in Review!Known :
                 (e # x /\ {e, x} \subseteq Review!OpenOf(storeEnt', e)) =>
                   storeEnt'[e].out \/ storeEnt'[x].out \/ Review!Frozen(storeEnt', e)]_(Review!vars)
  <2> SUFFICES ASSUME ReviewInv, Review!Next, storeJob.at = "link", storeJob'.at # "link"
               PROVE  /\ \A e \in Review!Known : storeEnt'[e].status = "duplicate" =>
                           \E x \in Review!Set(storeEnt', e) : storeEnt'[x].status # "duplicate"
                      /\ \A e \in Review!Known, x \in Review!Known :
                           (e # x /\ {e, x} \subseteq Review!OpenOf(storeEnt', e)) =>
                             storeEnt'[e].out \/ storeEnt'[x].out \/ Review!Frozen(storeEnt', e)
    BY OneActs DEF storeVars, Review!vars
  <2>1. UNCHANGED storeJob \/ storeJob.at # "link" \/ Review!Link
    BY DEF Review!Next, Review!Sync, Review!Propose, Review!Acceptance, Review!SyncStart, Review!Refused,
           Review!OrdersEnd, Review!RecordSync, Review!SkipOrder, Review!Persist, Review!Record,
           Review!Enrich, Review!Recompute, Review!JobEnds, Review!AutoAccept, Review!AddSeries,
           Review!SweepVolume, Review!Match, Review!MatchRefused, Review!SweepGroup,
           Review!Operator, Review!Shop, Review!Restore, Review!Pick, Review!Accept, Review!Add,
           Review!Ignore, Review!Classify, Review!RestoreAsk, Review!RestoreBulk,
           Review!DeleteSeries, Review!SetAutoSync, Review!Disconnect, Review!Reconnect,
           Review!ShopChanges
  <2>2. Review!Link /\ EntInv
    BY <2>1 DEF ReviewInv
  <2> QED
    BY <2>2, LinkHidesNothing
<1> QED
  BY <1>1, <1>2, <1>3, <1>4, PTL DEF Spec, LinkSound, Review!LinkSound
===============================================================================
