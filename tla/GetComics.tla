----------------------------- MODULE GetComics ------------------------------
(***************************************************************************)
(* The GetComics search (ddl/search_provider.py): a ladder of queries, a   *)
(* walk of result pages for each, and the politeness gate every page fetch *)
(* passes (ddl/politeness.py), whose last run is kept in a file.           *)
(*                                                                         *)
(* Only elapsed time matters: the file's stamp is kept as its age, counted *)
(* up to the longest wait, and a provider never fetched from has no stamp. *)
(***************************************************************************)
EXTENDS Naturals, Sequences

CONSTANTS
  Callers,            \* searches that may run at the same time
  Interval, Jitter,   \* the clamped minimum, and the most jitter on top
  Tiers, MaxPages,    \* queries of the ladder, pages walked for each
  Answers,            \* what the site may answer to a fetch
  Writable,           \* whether the file can be written: set of BOOLEAN
  MaxSearches, MaxCrashes        \* bounds

VARIABLES
  age,                \* of the persisted last_run, or None
  lock,               \* the provider's gate: its holder or Free
  call,               \* the search of each caller
  backing,            \* the provider is backing off
  since,              \* time since a page was last let through
  bound

vars == <<age, lock, call, backing, since, bound>>

Longest == Interval + Jitter
None == Longest + 1
Free == "nobody"
NoCall == [pc |-> "idle", tier |-> 0, page |-> 0, found |-> 0, left |-> 0,
           failed |-> FALSE]
Spend(b) == bound' = [bound EXCEPT ![b] = @ + 1]

TypeOK ==
  /\ age \in 0..None /\ since \in 0..Longest
  /\ lock \in Callers \cup {Free} /\ backing \in BOOLEAN
  /\ \A c \in Callers : call[c].left \in 0..Longest

Init ==
  /\ age = None /\ lock = Free /\ backing = FALSE /\ since = Longest
  /\ call = [c \in Callers |-> NoCall]
  /\ bound = [searches |-> 0, crashes |-> 0]

PolitenessAssumption ==
  /\ Free \notin Callers
  /\ Interval \in Nat /\ Jitter \in Nat /\ Tiers \in Nat /\ MaxPages \in Nat
  /\ Writable \subseteq BOOLEAN

Go(c, pc) == call' = [call EXCEPT ![c].pc = pc]

\* A provider that is backing off is not searched; a target without a name
\* has no ladder.
Search(c) ==
  /\ call[c].pc = "idle" /\ bound.searches < MaxSearches /\ Spend("searches")
  /\ call' = IF backing THEN call
             ELSE [call EXCEPT ![c] =
                     [NoCall EXCEPT !.pc = "gate", !.tier = 1, !.page = 1]]
  /\ UNCHANGED <<age, lock, backing, since>>

(***************************************************************************)
(* The gate.                                                               *)
(***************************************************************************)
\* With no stamp only the jitter is waited for.
Wait(jitter) ==
  IF age = None THEN jitter
  ELSE IF Interval + jitter > age THEN Interval + jitter - age ELSE 0

MayEnterAnyTime(c) == TRUE
MayEnter(c) == lock = Free

Gate(c) ==
  /\ call[c].pc = "gate" /\ MayEnter(c) /\ lock' = c
  /\ \E jitter \in 0..Jitter :
       call' = [call EXCEPT ![c].pc = "asleep", ![c].left = Wait(jitter)]
  /\ UNCHANGED <<age, backing, since, bound>>

\* The fetch is stamped as it is let through, before it is made; a file that
\* cannot be written is not an error.
Save == \E ok \in Writable : age' = IF ok THEN 0 ELSE age

Wake(c) ==
  /\ call[c].pc = "asleep" /\ call[c].left = 0
  /\ Save /\ since' = 0 /\ lock' = Free /\ Go(c, "fetch")
  /\ UNCHANGED <<backing, bound>>

(***************************************************************************)
(* The walk.                                                               *)
(***************************************************************************)
\* The first query with a candidate ends the search.
NextQuery(q) ==
  IF q.found > 0 \/ q.tier = Tiers THEN [q EXCEPT !.pc = "settle"]
  ELSE [q EXCEPT !.pc = "gate", !.tier = @ + 1, !.page = 1]

\* A post seen on an earlier page or query, or a roundup, is no candidate.
Page(c, fresh, more) ==
  LET q == [call[c] EXCEPT !.found = IF fresh THEN 1 ELSE @]
  IN call' = [call EXCEPT ![c] =
       IF more /\ q.page < MaxPages THEN [q EXCEPT !.pc = "gate", !.page = @ + 1]
       ELSE NextQuery(q)]

\* Refused, unreachable, challenged or no longer understood: what was found
\* so far is given up.
FetchFails(c) ==
  call' = [call EXCEPT ![c] =
    [@ EXCEPT !.pc = "settle", !.found = 0, !.failed = TRUE]]

Fetch(c) ==
  /\ call[c].pc = "fetch"
  /\ \/ "page" \in Answers /\ \E fresh, more \in BOOLEAN : Page(c, fresh, more)
     \/ "failure" \in Answers /\ FetchFails(c)
  /\ UNCHANGED <<age, lock, backing, since, bound>>

\* The verdict goes on the provider's back-off ladder.
Settle(c) ==
  /\ call[c].pc = "settle" /\ backing' = call[c].failed
  /\ call' = [call EXCEPT ![c] = NoCall]
  /\ UNCHANGED <<age, lock, since, bound>>

\* The deadline of the search, or its caller, gives it up.
Cancel(c) ==
  /\ call[c].pc \in {"gate", "asleep", "fetch"}
  /\ call' = [call EXCEPT ![c] = NoCall]
  /\ lock' = IF lock = c THEN Free ELSE lock
  /\ UNCHANGED <<age, backing, since, bound>>

BackoffEnds ==
  /\ backing /\ backing' = FALSE
  /\ UNCHANGED <<age, lock, call, since, bound>>

Crash ==
  /\ bound.crashes < MaxCrashes /\ Spend("crashes")
  /\ call' = [c \in Callers |-> NoCall] /\ lock' = Free
  /\ UNCHANGED <<age, backing, since>>

\* A sleeper may wake late, never early.
Time ==
  /\ age' = IF age < Longest THEN age + 1 ELSE age
  /\ since' = IF since < Longest THEN since + 1 ELSE since
  /\ call' = [c \in Callers |->
       IF call[c].left > 0 THEN [call[c] EXCEPT !.left = @ - 1] ELSE call[c]]
  /\ <<age, since, call>>' # <<age, since, call>>
  /\ UNCHANGED <<lock, backing, bound>>

Next ==
  \/ \E c \in Callers :
       \/ Search(c) \/ Gate(c) \/ Wake(c) \/ Fetch(c) \/ Settle(c) \/ Cancel(c)
  \/ BackoffEnds \/ Crash \/ Time

Spec == Init /\ [][Next]_vars

\* Two page fetches are never let through closer together than the minimum
\* interval, whichever searches they belong to and whatever restart lies
\* between them.
PagesSpaced == [][\A c \in Callers : Wake(c) => since >= Interval]_vars
=============================================================================
