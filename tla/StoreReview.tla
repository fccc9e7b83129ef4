----------------------------- MODULE StoreReview -----------------------------
(***************************************************************************)
(* The review queue of a store source: purchases are synchronised from the *)
(* shop, byte-identical copies are parked, proposals are computed and the  *)
(* operator, or the auto-sync, decides (sources/service.py, dedupe.py,     *)
(* enrich.py, review.py).  What follows an acceptance is StoreGrab's.      *)
(*                                                                         *)
(* The source-sync group runs one job at a time: a sync with its           *)
(* enrichment, or a recomputation of proposals.  Requests of the operator  *)
(* are served beside it.  A step is a transaction; whatever a job or a     *)
(* request read before it may have changed since.                          *)
(***************************************************************************)
EXTENDS Integers, FiniteSets

CONSTANTS
  Purchases,   \* 1..n: one entitlement per order of the shop
  Series,      \* the volumes the catalogue knows
  Best,        \* purchase -> the volume the catalogue ranks first, or Nobody
  Sure,        \* purchases whose best candidate is above AUTO_MATCH_THRESHOLD
  Broken,      \* purchases the catalogue always answers with an error
  Group,       \* purchase -> its group_key
  Nobody,
  Regimes      \* circumstances to explore

\* acts, shop: how often the operator and the shop act; auto: the auto-sync toggle;
\* trouble: the shop may refuse and the operator may disconnect; tracked: series in the
\* library; offer: purchase -> [md5, cls] at the start; budget: catalogue calls per run;
\* again: the operator asks for recomputations
ReviewAssumption ==
  /\ Purchases \subseteq Nat \ {0} /\ IsFiniteSet(Purchases)
  /\ Broken \subseteq Purchases /\ Sure \subseteq Purchases /\ Nobody \notin Series
  /\ Best \in [Purchases -> Series \cup {Nobody}]
  /\ \A r \in Regimes :
       /\ r.budget \in Nat /\ r.acts \in Nat /\ r.shop \in Nat
       /\ r.tracked \subseteq Series /\ DOMAIN r.offer \subseteq Purchases
       /\ \A o \in DOMAIN r.offer : r.offer[o].cls \in {"comic", "other"}

VARIABLES
  ent,      \* the rows of source_entitlements
  library,  \* the tracked series
  source,   \* the row of the source: state, credential, auto_sync
  offer,    \* what the shop sells at the moment
  job,      \* the running command of the source-sync group
  flow,     \* actor -> its acceptance or restoration in progress
  regime, left
vars == <<ent, library, source, offer, job, flow, regime, left>>

Actors == {"job", "operator"}
\* s: the series it names; vol: the volume of the catalogue it came from, which a
\* rewriting leaves as it is; picked: it follows a pick of the operator
NoProposal == [s |-> Nobody, vol |-> Nobody, kind |-> "none", sure |-> FALSE, picked |-> FALSE]
NoJob == [at |-> "idle", todo |-> {}, stored |-> FALSE, refused |-> FALSE, auto |-> FALSE, cred |-> "none",
          tries |-> <<>>, accept |-> {}]
NoFlow == [at |-> "idle", e |-> 0, s |-> Nobody, strict |-> FALSE, sweep |-> FALSE, rest |-> {},
           prop |-> NoProposal]
Known == DOMAIN ent
Open(e) == e \in Known /\ ent[e].status = "new"
Decided(e) == e \in Known /\ ent[e].status \in {"matched", "ignored"}

Init ==
  /\ regime \in Regimes
  /\ ent = <<>>
  /\ library = regime.tracked
  /\ source = [state |-> "connected", cred |-> "cookie1", auto |-> regime.auto]
  /\ offer = regime.offer
  /\ job = NoJob
  /\ flow = [a \in Actors |-> NoFlow]
  /\ left = [acts |-> regime.acts, shop |-> regime.shop]

(***************************************************************************)
(* Synchronisation                                                         *)
(***************************************************************************)
SyncStart ==
  /\ job.at = "idle" /\ source.state = "connected"
  /\ job' = [NoJob EXCEPT !.at = "orders", !.todo = DOMAIN offer, !.auto = source.auto,
                          !.cred = source.cred]
  /\ UNCHANGED <<ent, library, source, offer, flow, regime, left>>

\* _classifier_owns
Owned(row) == row.status = "new" /\ row.via # "operator"
NewRow(o) == [id |-> Cardinality(Known) + 1, cls |-> offer[o].cls, via |-> "rules", status |-> "new",
              dup |-> 0, out |-> FALSE, md5 |-> offer[o].md5, prop |-> NoProposal, rank |-> 0,
              error |-> FALSE, series |-> Nobody]
Refreshed(o) == [ent[o] EXCEPT !.cls = IF Owned(ent[o]) THEN offer[o].cls ELSE @,
                               !.md5 = offer[o].md5]

Persist(o) ==
  /\ job.at = "orders" /\ o \in job.todo
  /\ ent' = [x \in Known \cup {o} |-> IF x # o THEN ent[x]
                ELSE IF o \in Known THEN Refreshed(o) ELSE NewRow(o)]
  /\ job' = [job EXCEPT !.todo = @ \ {o}, !.stored = TRUE]
  /\ UNCHANGED <<library, source, offer, flow, regime, left>>

\* the shop does not answer for this order
SkipOrder(o) ==
  /\ job.at = "orders" /\ o \in job.todo /\ regime.trouble
  /\ job' = [job EXCEPT !.todo = @ \ {o}]
  /\ UNCHANGED <<ent, library, source, offer, flow, regime, left>>

\* the cookie is refused: what was persisted is kept and linked
Refused ==
  /\ job.at = "orders" /\ regime.trouble
  /\ job' = [job EXCEPT !.at = IF job.stored THEN "link" ELSE "expired", !.refused = TRUE,
                         !.todo = {}]
  /\ UNCHANGED <<ent, library, source, offer, flow, regime, left>>

OrdersEnd ==
  /\ job.at = "orders" /\ job.todo = {}
  /\ job' = [job EXCEPT !.at = IF job.stored THEN "link" ELSE "synced"]
  /\ UNCHANGED <<ent, library, source, offer, flow, regime, left>>

(***************************************************************************)
(* link_duplicate_entitlements: one transaction per source.  A parked row  *)
(* that lost its evidence is reviewable again; then each set of identical  *)
(* comics with no decided member is parked behind its oldest open member.  *)
(***************************************************************************)
Stale(e) == /\ ent[e].status = "duplicate"
            /\ ~ /\ ent[e].dup \in Known /\ ent[e].cls = "comic" /\ ent[e].md5 # "none"
                 /\ LET home == ent[ent[e].dup] IN
                    /\ home.md5 = ent[e].md5
                    /\ home.cls = "comic" \/ home.status = "duplicate"
Unparked == [e \in Known |-> IF Stale(e) THEN [ent[e] EXCEPT !.status = "new", !.dup = 0]
                             ELSE ent[e]]
Set(rs, e) == {x \in Known : rs[x].cls = "comic" /\ rs[x].md5 = rs[e].md5 /\ rs[x].md5 # "none"}
Frozen(rs, e) == \E x \in Set(rs, e) : rs[x].status \in {"matched", "ignored"}
OpenOf(rs, e) == {x \in Set(rs, e) : rs[x].status = "new"}
Oldest(rs, xs) == CHOOSE x \in xs : \A y \in xs : rs[x].id <= rs[y].id
Parks(rs, e) == /\ e \in OpenOf(rs, e) /\ ~rs[e].out /\ ~Frozen(rs, e)
                /\ e # Oldest(rs, OpenOf(rs, e))

\* Faulty: a parked row stays parked whatever became of its twin
LinkKeeping ==
  /\ job.at = "link"
  /\ ent' = [e \in Known |-> IF Parks(ent, e)
                THEN [ent[e] EXCEPT !.status = "duplicate", !.dup = Oldest(ent, OpenOf(ent, e))]
                ELSE ent[e]]
  /\ job' = [job EXCEPT !.at = IF job.refused THEN "expired" ELSE "synced"]
  /\ UNCHANGED <<library, source, offer, flow, regime, left>>

Link ==
  /\ job.at = "link"
  /\ LET rs == Unparked IN
     ent' = [e \in Known |-> IF Parks(rs, e)
                THEN [rs[e] EXCEPT !.status = "duplicate", !.dup = Oldest(rs, OpenOf(rs, e))]
                ELSE rs[e]]
  /\ job' = [job EXCEPT !.at = IF job.refused THEN "expired" ELSE "synced"]
  /\ UNCHANGED <<library, source, offer, flow, regime, left>>

\* _record_sync writes the state the job came to, whatever the row says by now
RecordSync ==
  /\ job.at \in {"synced", "expired"}
  /\ source' = [source EXCEPT !.state = IF job.at = "synced" THEN "connected" ELSE "expired"]
  /\ job' = IF job.at = "synced" THEN [job EXCEPT !.at = "enrich"] ELSE NoJob
  /\ UNCHANGED <<ent, library, offer, flow, regime, left>>

(***************************************************************************)
(* Proposals: the rows are read in the order of their last attempt, the    *)
(* catalogue is asked until the budget is spent, and one transaction       *)
(* stores what was found where the row still says what was read.           *)
(***************************************************************************)
Sooner(x, y) == \/ ent[x].rank < ent[y].rank
                \/ ent[x].rank = ent[y].rank /\ ent[x].id < ent[y].id
Reviewable == {e \in Known : ent[e].cls = "comic" /\ ent[e].status = "new"}
Pending == {e \in Reviewable : ent[e].prop = NoProposal}
Markers == {e \in Reviewable : ent[e].prop = NoProposal \/ ent[e].prop.kind = "marker"}

\* compute_proposed_match with the library as it is read now
Proposal(e) ==
  IF Best[e] = Nobody THEN [NoProposal EXCEPT !.kind = "marker"]
  ELSE [s |-> Best[e], vol |-> Best[e], kind |-> IF Best[e] \in library THEN "library" ELSE "comicvine",
        sure |-> e \in Sure, picked |-> FALSE]
\* the call past the budget is the last, and finds nothing
Attempts(es) ==
  LET place(e) == Cardinality({x \in es : Sooner(x, e)})
      spent(e) == place(e) = regime.budget IN
  [e \in {x \in es : place(x) <= regime.budget} |->
     [expect |-> ent[e].prop, stores |-> ~spent(e) /\ e \notin Broken,
      error |-> ~spent(e) /\ e \in Broken, prop |-> Proposal(e)]]

Enrich ==
  /\ job.at = "enrich"
  /\ job' = [job EXCEPT !.at = "record", !.tries = Attempts(Pending)]
  /\ UNCHANGED <<ent, library, source, offer, flow, regime, left>>

Recompute ==
  /\ job.at = "idle" /\ regime.again /\ \E e \in Reviewable : ent[e].prop.kind \in {"none", "marker"}
  /\ job' = [NoJob EXCEPT !.at = "record", !.tries = Attempts(Markers)]
  /\ UNCHANGED <<ent, library, source, offer, flow, regime, left>>

\* the ranks are the order of the stamps, counted densely
Dense(rs) == [e \in DOMAIN rs |-> [rs[e] EXCEPT !.rank =
                Cardinality({rs[x].rank : x \in DOMAIN rs} \cap 1..rs[e].rank)]]
Latest == 1 + Cardinality(Known)
Stamped(e, t, fits) ==
  [ent[e] EXCEPT !.rank = Latest, !.error = t.error,
                 !.prop = IF t.stores /\ fits THEN t.prop ELSE @]
Recorded == [job EXCEPT !.at = "accept", !.tries = <<>>,
               !.accept = IF ~job.auto THEN {}
                          ELSE {e \in DOMAIN job.tries :
                                   job.tries[e].stores /\ job.tries[e].prop.sure
                                   /\ job.tries[e].prop.kind # "marker"}]

Record ==
  /\ job.at = "record"
  /\ ent' = Dense([e \in Known |-> IF e \in DOMAIN job.tries /\ Open(e)
                      THEN Stamped(e, job.tries[e], ent[e].prop = job.tries[e].expect) ELSE ent[e]])
  /\ job' = Recorded
  /\ UNCHANGED <<library, source, offer, flow, regime, left>>

\* _auto_accept: status and classification are read again, then the flow of an acceptance
\* starts; the proposal is the one that was computed, stored or not
AutoAccept(e) ==
  /\ job.at = "accept" /\ e \in job.accept /\ flow["job"].at = "idle"
  /\ LET best == Best[e] IN
     flow' = IF Open(e) /\ ent[e].cls = "comic"
             THEN [flow EXCEPT !["job"] = [NoFlow EXCEPT !.at = IF best \in library THEN "match" ELSE "add",
                                                         !.e = e, !.s = best, !.strict = TRUE]]
             ELSE flow
  /\ job' = [job EXCEPT !.accept = @ \ {e}]
  /\ UNCHANGED <<ent, library, source, offer, regime, left>>

JobEnds ==
  /\ job.at = "accept" /\ job.accept = {} /\ flow["job"].at = "idle"
  /\ job' = NoJob
  /\ UNCHANGED <<ent, library, source, offer, flow, regime, left>>

(***************************************************************************)
(* An acceptance, of the operator or of the auto-sync: the series is added *)
(* when it is not tracked, the proposals of its volume are rewritten, the  *)
(* row is matched, and the proposals of its group follow.                  *)
(***************************************************************************)
Rewritten(e, s) == IF ent[e].prop.kind = "library" /\ ent[e].prop.s = s THEN ent[e]
                   ELSE [ent[e] EXCEPT !.prop = [@ EXCEPT !.s = s, !.kind = "library", !.sure = FALSE,
                                                          !.picked = TRUE]]
Step(a, at) == flow' = [flow EXCEPT ![a].at = at]

AddSeries(a) ==
  /\ flow[a].at = "add"
  /\ library' = library \cup {flow[a].s}
  /\ Step(a, "resolve")
  /\ UNCHANGED <<ent, source, offer, job, regime, left>>

SweepVolume(a) ==
  /\ flow[a].at = "resolve"
  /\ ent' = [e \in Known |-> IF Open(e) /\ e # flow[a].e /\ ent[e].prop.vol = flow[a].s
                             THEN Rewritten(e, flow[a].s) ELSE ent[e]]
  /\ Step(a, "match")
  /\ UNCHANGED <<library, source, offer, job, regime, left>>

Accepts(a) == LET f == flow[a] IN
  /\ ent[f.e].status # "duplicate" /\ f.s \in library
  /\ f.strict => ent[f.e].status = "new"
NextOf(a) == LET f == flow[a] IN
  IF f.rest # {} THEN [f EXCEPT !.e = Oldest(ent, f.rest), !.rest = @ \ {Oldest(ent, f.rest)}]
  ELSE IF f.sweep THEN [f EXCEPT !.at = "sweep"] ELSE NoFlow
Matched(a) == [ent EXCEPT ![flow[a].e].status = "matched", ![flow[a].e].series = flow[a].s]

\* Faulty: the status is not read again in the transaction
MatchUnread(a) ==
  /\ flow[a].at = "match"
  /\ ent' = IF ent[flow[a].e].status # "duplicate" /\ flow[a].s \in library THEN Matched(a) ELSE ent
  /\ flow' = [flow EXCEPT ![a] = NextOf(a)]
  /\ UNCHANGED <<library, source, offer, job, regime, left>>

Match(a) ==
  /\ flow[a].at = "match" /\ Accepts(a)
  /\ ent' = Matched(a)
  /\ flow' = [flow EXCEPT ![a] = NextOf(a)]
  /\ UNCHANGED <<library, source, offer, job, regime, left>>

\* the refusal ends a single request; in a bulk it is one member's error
MatchRefused(a) ==
  /\ flow[a].at = "match" /\ ~Accepts(a)
  /\ flow' = [flow EXCEPT ![a] = IF flow[a].rest = {} THEN NoFlow ELSE NextOf(a)]
  /\ UNCHANGED <<ent, library, source, offer, job, regime, left>>

SweepGroup(a) ==
  /\ flow[a].at = "sweep"
  /\ ent' = [e \in Known |-> IF Open(e) /\ e # flow[a].e /\ Group[e] = Group[flow[a].e]
                             THEN Rewritten(e, flow[a].s) ELSE ent[e]]
  /\ Step(a, "idle")
  /\ UNCHANGED <<library, source, offer, job, regime, left>>

(***************************************************************************)
(* Requests of the operator                                                *)
(***************************************************************************)
May == left.acts > 0 /\ flow["operator"].at = "idle"
Act == left' = [left EXCEPT !.acts = @ - 1]
Ask(f) == flow' = [flow EXCEPT !["operator"] = f]

\* a series picked for one row, for a selection, or for the members of a group
Pick(es, s, strict, sweep) ==
  /\ May /\ es # {} /\ es \subseteq Known /\ s \in library
  /\ strict = sweep \/ Cardinality(es) = 1
  /\ Cardinality(es) = 1 => ~strict /\ sweep
  /\ strict => \E e \in es : ent[e].status = "new"
  /\ Ask([NoFlow EXCEPT !.at = "match", !.e = Oldest(ent, es), !.rest = es \ {Oldest(ent, es)},
                        !.s = s, !.strict = strict, !.sweep = sweep])
  /\ Act
  /\ UNCHANGED <<ent, library, source, offer, job, regime>>

\* accept the stored proposal; or add a volume
Accept(e) ==
  /\ May /\ Open(e) /\ ent[e].prop.kind \in {"library", "comicvine"}
  /\ Ask([NoFlow EXCEPT !.at = IF ent[e].prop.kind = "library" THEN "match"
                               ELSE IF ent[e].prop.s \in library THEN "resolve" ELSE "add",
                        !.e = e, !.s = ent[e].prop.s, !.strict = TRUE, !.sweep = TRUE])
  /\ Act
  /\ UNCHANGED <<ent, library, source, offer, job, regime>>

Add(e, s) ==
  /\ May /\ e \in Known /\ ent[e].status # "duplicate"
  /\ Ask([NoFlow EXCEPT !.at = IF s \in library THEN "resolve" ELSE "add",
                        !.e = e, !.s = s, !.sweep = TRUE])
  /\ Act
  /\ UNCHANGED <<ent, library, source, offer, job, regime>>

Ignore(e) ==
  /\ May /\ e \in Known
  /\ ent' = [ent EXCEPT ![e].status = "ignored", ![e].dup = 0]
  /\ Act
  /\ UNCHANGED <<library, source, offer, job, flow, regime>>

Classify(e, c) ==
  /\ May /\ Open(e) /\ ent[e].cls # c
  /\ ent' = [ent EXCEPT ![e].cls = c, ![e].via = "operator"]
  /\ Act
  /\ UNCHANGED <<library, source, offer, job, flow, regime>>

Restorable(e) == e \in Known /\ ent[e].status \in {"ignored", "duplicate"}
Restored(e, p) == [ent[e] EXCEPT !.status = "new", !.series = Nobody, !.dup = 0,
                     !.out = @ \/ ent[e].status = "duplicate",
                     !.prop = IF ent[e].cls = "comic" THEN p ELSE @]

\* the proposal is computed before the transaction that restores
RestoreAsk(e) ==
  /\ May /\ Restorable(e)
  /\ Ask([NoFlow EXCEPT !.at = "restore", !.e = e, !.prop = IF e \in Broken THEN NoProposal ELSE Proposal(e)])
  /\ Act
  /\ UNCHANGED <<ent, library, source, offer, job, regime>>

Restore ==
  /\ flow["operator"].at = "restore"
  /\ LET f == flow["operator"] IN
     ent' = IF Restorable(f.e) THEN [ent EXCEPT ![f.e] = Restored(f.e, f.prop)] ELSE ent
  /\ Ask(NoFlow)
  /\ UNCHANGED <<library, source, offer, job, regime, left>>

\* in bulk nothing is computed: the row is proposed anew by the recomputation that follows
RestoreBulk(e) ==
  /\ May /\ Restorable(e)
  /\ ent' = [ent EXCEPT ![e] = [Restored(e, NoProposal) EXCEPT !.rank = IF ent[e].cls = "comic" THEN 0 ELSE @,
                                                               !.error = FALSE]]
  /\ Act
  /\ UNCHANGED <<library, source, offer, job, flow, regime>>

DeleteSeries(s) ==
  /\ May /\ s \in library
  /\ library' = library \ {s}
  /\ Act
  /\ UNCHANGED <<ent, source, offer, job, flow, regime>>

SetAutoSync(b) ==
  /\ May /\ source.auto # b
  /\ source' = [source EXCEPT !.auto = b]
  /\ Act
  /\ UNCHANGED <<ent, library, offer, job, flow, regime>>

Disconnect ==
  /\ May /\ regime.trouble /\ source.state # "disconnected"
  /\ source' = [source EXCEPT !.state = "disconnected", !.cred = "none"]
  /\ Act
  /\ UNCHANGED <<ent, library, offer, job, flow, regime>>

Reconnect ==
  /\ May /\ regime.trouble /\ source.state # "connected"
  /\ source' = [source EXCEPT !.state = "connected", !.cred = "cookie2"]
  /\ Act
  /\ UNCHANGED <<ent, library, offer, job, flow, regime>>

\* the shop uploads another file, withdraws a checksum or sells something new
ShopChanges(o, new) ==
  /\ left.shop > 0 /\ o \in DOMAIN offer \cup {1 + Cardinality(DOMAIN offer)} /\ o \in Purchases
  /\ offer' = [x \in DOMAIN offer \cup {o} |-> IF x = o THEN new ELSE offer[x]]
  /\ offer' # offer
  /\ left' = [left EXCEPT !.shop = @ - 1]
  /\ UNCHANGED <<ent, library, source, job, flow, regime>>

Sync == \/ SyncStart \/ Refused \/ OrdersEnd \/ Link \/ RecordSync
        \/ \E o \in job.todo : Persist(o) \/ SkipOrder(o)
Propose == \/ Enrich \/ Record \/ JobEnds \/ \E e \in job.accept : AutoAccept(e)
Acceptance(a) == AddSeries(a) \/ SweepVolume(a) \/ Match(a) \/ MatchRefused(a) \/ SweepGroup(a)
Operator ==
  \/ \E es \in SUBSET Known, s \in library, strict, sweep \in BOOLEAN : Pick(es, s, strict, sweep)
  \/ \E e \in Known : \/ Accept(e) \/ Ignore(e) \/ RestoreAsk(e) \/ RestoreBulk(e)
                      \/ Classify(e, "comic") \/ Classify(e, "other")
                      \/ \E s \in Series : Add(e, s)
  \/ \E s \in Series : DeleteSeries(s)
  \/ SetAutoSync(TRUE) \/ SetAutoSync(FALSE) \/ Disconnect \/ Reconnect
Shop == \E o \in Purchases, m \in {"p", "q"}, c \in {"comic", "other"} :
            ShopChanges(o, [md5 |-> m, cls |-> c])

Next == \/ Sync \/ Propose \/ Recompute \/ Restore \/ Operator \/ Shop
        \/ \E a \in Actors : Acceptance(a)
Spec == Init /\ [][Next]_vars

TypeOK ==
  /\ Known \subseteq Purchases
  /\ \A e \in Known : /\ ent[e].status \in {"new", "matched", "ignored", "duplicate"}
                      /\ ent[e].cls \in {"comic", "other"} /\ ent[e].dup \in Known \cup {0}
  /\ library \subseteq Series
  /\ source.state \in {"connected", "expired", "disconnected"}

(***************************************************************************)
(* Properties                                                              *)
(***************************************************************************)
\* A step of a job, and what it leaves of a row the operator decided about.
ByJob == job' # job \/ flow'["job"] # flow["job"]
Respected(e) ==
  /\ Decided(e) => ent'[e].status = ent[e].status /\ ent'[e].series = ent[e].series
  /\ ent[e].via = "operator" => ent'[e].cls = ent[e].cls

\* What the operator decided stands: no step of a job changes the status or
\* the series of a matched or ignored row, nor a classification that the
\* operator gave, whatever the job read before the decision (run_sync's
\* _classifier_owns, the require_new of _auto_accept, the linking pass).
DecisionsStand == [][ByJob => \A e \in Known : Respected(e)]_vars

\* A proposal that follows a pick is not replaced by one that was computed
\* before the pick was made (record_proposal_attempts' compare-and-swap).
PickStands ==
  [][ job.at = "record" /\ job'.at = "accept" =>
        \A e \in DOMAIN job.tries : ent[e].prop.picked /\ ~job.tries[e].expect.picked
                                    => ent'[e].prop = ent[e].prop ]_vars

\* The linking pass hides nothing and leaves nothing twice: after it every parked
\* row has the bytes of a comic that is open or decided, and of two open comics
\* with the same bytes one was restored on purpose or a twin was decided.
LinkSound ==
  [][ job.at = "link" /\ job'.at # "link" =>
        /\ \A e \in Known : ent'[e].status = "duplicate" =>
             \E x \in Set(ent', e) : ent'[x].status # "duplicate"
        /\ \A e \in Known, x \in Known : (e # x /\ {e, x} \subseteq OpenOf(ent', e)) =>
             ent'[e].out \/ ent'[x].out \/ Frozen(ent', e) ]_vars
=============================================================================
