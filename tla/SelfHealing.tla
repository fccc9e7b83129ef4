----------------------------- MODULE SelfHealing -----------------------------
(***************************************************************************)
(* How a wanted issue is obtained: automatic searches decide on a snapshot *)
(* of the queue and the blocklist, hand the best release to grab-release,  *)
(* the client fails or finishes, the failure loop blocklists and searches  *)
(* again.  One issue is modelled; the search, download and pp pools, the   *)
(* REST API and the client run concurrently.                               *)
(*                                                                         *)
(* A search reads its snapshot, awaits the indexers, and decides on what   *)
(* it read; a grab reads grab_history, awaits the client, and records; the *)
(* failure loop commits and enqueues afterwards.  Each of these is a step. *)
(* The polling of clients and the import are one step each here: they are  *)
(* the subject of DownloadTracking.                                        *)
(***************************************************************************)
EXTENDS Naturals, FiniteSets

CONSTANTS
  Release,         \* releases the indexers list for the issue, by indexer and guid
  Post,            \* the title, indexer and size of a release: equal for a repost
  Rank,            \* the comparator's order: the lowest rank is preferred
  Good,            \* releases that download and import
  ByTitle,         \* DDL releases, which the blocklist knows by title alone
  DownloadWorkers, \* workers_download
  UserMay,         \* what the operator does, of "search", "grab", "block",
                   \* "remove" and "unblock"
  Budgets          \* bounds to explore: records of the operator actions, the crashes,
                   \* and the faults (unreachable clients, grab_history writes given up on)

ASSUME ReleasesAssumption ==
  /\ IsFiniteSet(Release)
  /\ Good \subseteq Release /\ ByTitle \subseteq Release
  /\ DOMAIN Post = Release
  /\ Rank \in [Release -> Nat]
  /\ DownloadWorkers \in Nat \ {0}
  /\ Budgets \subseteq [user : Nat, crashes : Nat, faults : Nat]

VARIABLES
  cmd,        \* the search commands: "none", "queued" or "started"
  snap,       \* what the running search read
  grab,       \* the grab-release command of a release, and how far it is
  hist,       \* grab_history, by download
  client,     \* the client's downloads
  row,        \* tracked_downloads: the state of a download
  linked,     \* downloads whose row knows the issue
  blocklist,  \* releases with a blocklist row
  loop,       \* the failure loop of the refresh and of the import drain
  owed,       \* the loop committed a failure of the issue and has not searched yet
  user, crashes, faults,
  budget      \* the bounds of this behaviour

vars == <<cmd, snap, grab, hist, client, row, linked, blocklist, loop, owed,
          user, crashes, faults, budget>>

searching   == <<cmd, snap>>
downloading == <<hist, client>>
tracking    == <<row, linked, blocklist>>
healing     == <<loop, owed>>
limits      == <<user, crashes, faults, budget>>

Search == {"issue-search", "backlog-search"}
Actor  == {"track", "pp"}
Tries  == UNION {1 .. b.crashes + b.faults + 2 : b \in Budgets}
Job    == Release \X Tries
Of(j)  == j[1]
NoSnap == [blocked |-> {}, active |-> TRUE, taken |-> FALSE]

(* Sends so far of a release, and the downloads they made at the client.   *)
Sent(r) == {j \in Job : Of(j) = r /\ client[j] # "none"}

(* ACTIVE_QUEUE_STATES: rows of the issue that suppress another grab of it. *)
Inactive == {"absent", "failed"}
Active   == \E j \in linked : row[j] \notin Inactive

Blocked(r, rows) == \E b \in rows : b = r \/ Post[b] = Post[r]

Wanted == \A j \in Job : row[j] # "imported"

Init ==
  /\ cmd = [c \in Search |-> "none"] /\ snap = NoSnap
  /\ grab = [r \in Release |-> "none"]
  /\ hist = {} /\ client = [j \in Job |-> "none"]
  /\ row = [j \in Job |-> "absent"] /\ linked = {} /\ blocklist = {}
  /\ loop = [a \in Actor |-> "idle"] /\ owed = [a \in Actor |-> FALSE]
  /\ user = 0 /\ crashes = 0 /\ faults = 0 /\ budget \in Budgets

-----------------------------------------------------------------------------
(* The search pool has one worker.                                          *)

(* enqueue: an equal command that is queued or started stands for this one. *)
Ask(c) == cmd' = IF cmd[c] = "none" THEN [cmd EXCEPT ![c] = "queued"] ELSE cmd

Schedule ==
  /\ cmd["backlog-search"] = "none"
  /\ Ask("backlog-search")
  /\ UNCHANGED <<snap, grab, downloading, tracking, healing, limits>>

SearchStart(c) ==
  /\ cmd[c] = "queued" /\ \A d \in Search : cmd[d] # "started"
  /\ cmd' = [cmd EXCEPT ![c] = "started"]
  /\ UNCHANGED <<snap, grab, downloading, tracking, healing, limits>>

(* The context of a search, read in one session: for a backlog walk, of an *)
(* issue that is still wanted.                                             *)
Prepare(c) ==
  /\ cmd[c] = "started" /\ ~snap.taken
  /\ IF c = "backlog-search" /\ ~Wanted
     THEN cmd' = [cmd EXCEPT ![c] = "none"] /\ UNCHANGED snap
     ELSE /\ snap' = [blocked |-> blocklist, active |-> Active, taken |-> TRUE]
          /\ UNCHANGED cmd
  /\ UNCHANGED <<grab, downloading, tracking, loop, owed, limits>>

Approved(offered) == {r \in offered : ~snap.active /\ ~Blocked(r, snap.blocked)}

(* The indexers answered with the offered releases; the best approved one  *)
(* is handed to grab-release.                                              *)
Decide(c, offered) ==
  /\ cmd[c] = "started" /\ snap.taken
  /\ IF Approved(offered) = {} THEN UNCHANGED grab
     ELSE \E r \in Approved(offered) :
            /\ \A s \in Approved(offered) : Rank[r] <= Rank[s]
            /\ grab' = IF grab[r] = "none" THEN [grab EXCEPT ![r] = "queued"] ELSE grab
  /\ cmd' = [cmd EXCEPT ![c] = "none"] /\ snap' = NoSnap
  /\ UNCHANGED <<downloading, tracking, healing, limits>>

-----------------------------------------------------------------------------
(* The download pool: grab-release and track-downloads.                     *)

Busy == {r \in Release : grab[r] \in {"guarded", "sent"}}
FreeWorker ==
  Cardinality(Busy) + (IF loop["track"] = "idle" THEN 0 ELSE 1) < DownloadWorkers

(* Faulty: the hand-off does not look for an earlier one.                  *)
GrabStartUnguarded(r) ==
  /\ grab[r] = "queued" /\ FreeWorker
  /\ grab' = [grab EXCEPT ![r] = "guarded"]
  /\ UNCHANGED <<searching, downloading, tracking, healing, limits>>

(* A release that grab_history knows is not handed off again.              *)
GrabStart(r) ==
  /\ grab[r] = "queued" /\ FreeWorker
  /\ grab' = [grab EXCEPT ![r] = IF \E j \in hist : Of(j) = r THEN "none" ELSE "guarded"]
  /\ UNCHANGED <<searching, downloading, tracking, healing, limits>>

GrabSend(r) ==
  /\ grab[r] = "guarded"
  /\ \E k \in Tries :
       /\ k = Cardinality(Sent(r)) + 1
       /\ client' = [client EXCEPT ![<<r, k>>] = "queue"]
  /\ grab' = [grab EXCEPT ![r] = "sent"]
  /\ UNCHANGED <<searching, hist, tracking, healing, limits>>

(* The client cannot be reached: the command fails and is not retried.     *)
GrabFails(r) ==
  /\ faults < budget.faults /\ faults' = faults + 1
  /\ grab[r] \in {"guarded", "sent"}
  /\ grab' = [grab EXCEPT ![r] = "none"]
  /\ UNCHANGED <<searching, downloading, tracking, healing, user, crashes, budget>>

GrabRecord(r) ==
  /\ grab[r] = "sent"
  /\ hist' = hist \cup {<<r, Cardinality(Sent(r))>>}
  /\ grab' = [grab EXCEPT ![r] = "none"]
  /\ UNCHANGED <<searching, client, tracking, healing, limits>>

(* Reconciliation: rows follow the client; a new row takes its issue from  *)
(* grab_history, or else from its title.                                   *)
Observed(j) == CASE client[j] = "queue" -> "downloading"
                 [] client[j] = "done"  -> "import_pending"
                 [] client[j] = "bad"   -> "failed_pending"

Refresh ==
  /\ loop["track"] = "idle" /\ FreeWorker
  /\ LET visible == {j \in Job : client[j] \in {"queue", "done", "bad"}}
         new     == {j \in visible : row[j] = "absent"}
     IN /\ row' = [j \in Job |->
                     IF j \in visible /\ row[j] \in {"absent", "downloading"}
                     THEN Observed(j) ELSE row[j]]
        /\ \E adopted \in SUBSET (new \ hist) :
             linked' = (linked \ new) \cup (new \cap hist) \cup adopted
  /\ loop' = [loop EXCEPT !["track"] = "failures"]
  /\ UNCHANGED <<searching, grab, downloading, blocklist, owed, limits>>

-----------------------------------------------------------------------------
(* The failure loop, of the download pool and of the pp pool.               *)

Failing  == {j \in Job : row[j] = "failed_pending"}
Known(j) == j \in hist \cup linked

(* The blocklist row carries the grab's data; without a grab only a DDL    *)
(* entry can match, by its title.                                          *)
Listed(jobs) == {Of(j) : j \in {k \in jobs : k \in hist \/ Of(k) \in ByTitle}}

(* Faulty: the failed state is committed without the blocklist rows.       *)
PromoteOnly(a) ==
  /\ loop[a] = "failures"
  /\ row' = [j \in Job |-> IF j \in Failing THEN "failed" ELSE row[j]]
  /\ owed' = [owed EXCEPT ![a] = \E j \in Failing : Known(j)]
  /\ loop' = [loop EXCEPT ![a] = "research"]
  /\ UNCHANGED <<searching, grab, downloading, linked, blocklist, limits>>

Promote(a) ==
  /\ loop[a] = "failures"
  /\ row' = [j \in Job |-> IF j \in Failing THEN "failed" ELSE row[j]]
  /\ blocklist' = blocklist \cup Listed(Failing)
  /\ owed' = [owed EXCEPT ![a] = \E j \in Failing : Known(j)]
  /\ loop' = [loop EXCEPT ![a] = "research"]
  /\ UNCHANGED <<searching, grab, downloading, linked, limits>>

Research(a) ==
  /\ loop[a] = "research"
  /\ IF owed[a] THEN Ask("issue-search") ELSE UNCHANGED cmd
  /\ owed' = [owed EXCEPT ![a] = FALSE]
  /\ loop' = [loop EXCEPT ![a] = "idle"]
  /\ UNCHANGED <<snap, grab, downloading, tracking, limits>>

(* The import drain: a good file is imported and cleaned up at the client; *)
(* another is corrupt, and the drain runs the failure loop.                *)
Import(j) ==
  /\ row[j] = "import_pending" /\ loop["pp"] = "idle"
  /\ IF Of(j) \in Good
     THEN /\ row' = [row EXCEPT ![j] = "imported"]
          /\ client' = [client EXCEPT ![j] = "gone"]
          /\ UNCHANGED loop
     ELSE /\ row' = [row EXCEPT ![j] = "failed_pending"]
          /\ loop' = [loop EXCEPT !["pp"] = "failures"]
          /\ UNCHANGED client
  /\ UNCHANGED <<searching, grab, hist, linked, blocklist, owed, limits>>

-----------------------------------------------------------------------------
(* The client, the operator and the process.                                *)

ClientEnds(j) ==
  /\ client[j] = "queue"
  /\ \E end \in IF Of(j) \in Good THEN {"done"} ELSE {"done", "bad"} :
       client' = [client EXCEPT ![j] = end]
  /\ UNCHANGED <<searching, grab, hist, tracking, healing, limits>>

May(action) == action \in UserMay /\ user < budget.user /\ user' = user + 1

UserSearch ==
  /\ May("search") /\ Ask("issue-search")
  /\ UNCHANGED <<snap, grab, downloading, tracking, healing, crashes, faults, budget>>

(* A release of an earlier interactive search, approved then or forced now. *)
UserGrab(r) ==
  /\ May("grab") /\ grab[r] = "none"
  /\ grab' = [grab EXCEPT ![r] = "queued"]
  /\ UNCHANGED <<searching, downloading, tracking, healing, crashes, faults, budget>>

UserRemove(j, block) ==
  /\ May(IF block THEN "block" ELSE "remove") /\ row[j] # "absent"
  /\ row' = [row EXCEPT ![j] = "absent"] /\ linked' = linked \ {j}
  /\ blocklist' = IF block THEN blocklist \cup Listed({j}) ELSE blocklist
  /\ client' = [client EXCEPT ![j] = "gone"]
  /\ UNCHANGED <<searching, grab, hist, healing, crashes, faults, budget>>

UserUnblock(r) ==
  /\ May("unblock") /\ r \in blocklist
  /\ blocklist' = blocklist \ {r}
  /\ UNCHANGED <<searching, grab, downloading, row, linked, healing, crashes, faults, budget>>

(* Started commands are queued again by the next start; a failure loop     *)
(* between its commit and its search is forgotten.                         *)
Crash ==
  /\ crashes < budget.crashes /\ crashes' = crashes + 1
  /\ cmd' = [c \in Search |-> IF cmd[c] = "started" THEN "queued" ELSE cmd[c]]
  /\ snap' = NoSnap
  /\ grab' = [r \in Release |-> IF r \in Busy THEN "queued" ELSE grab[r]]
  /\ loop' = [a \in Actor |-> "idle"] /\ owed' = [a \in Actor |-> FALSE]
  /\ UNCHANGED <<downloading, tracking, user, faults, budget>>

SearchStep == \E c \in Search : \/ SearchStart(c) \/ Prepare(c)
                                \/ \E offered \in SUBSET Release : Decide(c, offered)
GrabStep(r) == GrabStart(r) \/ GrabSend(r) \/ GrabRecord(r)
LoopStep(a) == Promote(a) \/ Research(a)
UserStep == \/ UserSearch
            \/ \E r \in Release : UserGrab(r) \/ UserUnblock(r)
            \/ \E j \in Job, block \in BOOLEAN : UserRemove(j, block)

Next ==
  \/ Schedule \/ SearchStep \/ Refresh \/ UserStep \/ Crash
  \/ \E r \in Release : GrabStep(r) \/ GrabFails(r)
  \/ \E a \in Actor : LoopStep(a)
  \/ \E j \in Job : Import(j) \/ ClientEnds(j)

Spec == Init /\ [][Next]_vars

(* The scheduler and the worker pools never stop, and a pool takes its      *)
(* commands by age, so each of them gets its turn; clients end their jobs.  *)
FairSpec ==
  /\ Spec
  /\ WF_vars(Schedule) /\ WF_vars(SearchStep)
  /\ SF_vars(Refresh) /\ SF_vars(\E r \in Release : GrabStep(r))
  /\ \A a \in Actor : WF_vars(LoopStep(a))
  /\ SF_vars(\E j \in Job : Import(j)) /\ WF_vars(\E j \in Job : ClientEnds(j))

(* Searches that are tried again and again find what is there.              *)
IndexersAnswer == SF_vars(\E c \in Search : Decide(c, Release))

-----------------------------------------------------------------------------
TypeOK ==
  /\ cmd \in [Search -> {"none", "queued", "started"}]
  /\ snap \in [blocked : SUBSET Release, active : BOOLEAN, taken : BOOLEAN]
  /\ grab \in [Release -> {"none", "queued", "guarded", "sent"}]
  /\ hist \subseteq Job
  /\ client \in [Job -> {"none", "queue", "done", "bad", "gone"}]
  /\ row \in [Job -> {"absent", "downloading", "import_pending", "imported",
                      "failed_pending", "failed"}]
  /\ linked \subseteq Job /\ blocklist \subseteq Release
  /\ loop \in [Actor -> {"idle", "failures", "research"}]
  /\ owed \in [Actor -> BOOLEAN]
  /\ user \in Nat /\ crashes \in Nat /\ faults \in Nat

(* FRG-DL-006: however many searches, operators and recoveries ask for a   *)
(* release, it is handed to a client once, but for a crash or a lost write  *)
(* between the hand-off and its record.                                     *)
SentOnce == TypeOK /\ \A r \in Release : Cardinality(Sent(r)) <= 1 + crashes + faults

(* The loop heals: a wanted issue with a good release is obtained in the    *)
(* end, whatever failed before and wherever a crash fell, if the operator   *)
(* does not interfere and no hand-off is lost.                              *)
Undisturbed == budget.user = 0 /\ budget.faults = 0
WantedIsObtained ==
  (Undisturbed /\ IndexersAnswer) => <>(~Wanted \/ \A r \in Good : Blocked(r, blocklist))
=============================================================================
