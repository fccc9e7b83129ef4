---------------------------- MODULE IndexerSearch ---------------------------
(***************************************************************************)
(* A search fanned over the enabled indexers: each indexer's spacing gate, *)
(* its back-off row, the time budget of an interactive search and the      *)
(* cancellation that enforces it (search_ops/pipeline.py,                  *)
(* indexers/service.py, indexers/newznab.py, indexers/ratelimit.py,        *)
(* providers/backoff.py); and the requests that add, enable, disable and   *)
(* remove indexers, the first of which owes one backlog search             *)
(* (api/indexers.py).                                                      *)
(*                                                                         *)
(* A search runs one task per indexer of its fleet.  Time is abstract: a   *)
(* gate is "hot" until the interval since its last request has passed, a   *)
(* back-off is active until it expires, and a budget may run out whenever  *)
(* its search is not done.                                                 *)
(***************************************************************************)
EXTENDS Naturals, FiniteSets

CONSTANTS
  Indexers,           \* the row ids there may be
  Searches,           \* the searches of a behaviour
  Interactive,        \* those of them an operator waits for
  Requests,           \* the API requests of a behaviour
  Blowups,            \* where a cancelled HTTP exchange may raise an ordinary
                      \* exception: "cleanup" (closing the client), or the
                      \* read of an answer, "caps" or "query"
  MaxLevel,           \* the last rung of the ladder
  FastForward,        \* the rung a Retry-After or a refused key skips to
  Regimes             \* bounds: [known, searches, faults, time, churn]: the indexers
                      \* configured at the start and how much may happen

SearchAssumption ==
  /\ IsFiniteSet(Searches) /\ MaxLevel \in Nat /\ FastForward \in Nat
  /\ \A r \in Regimes : r.known \subseteq Indexers

VARIABLES
  row,                \* "absent", "off" or "on": the indexers table
  ladder,             \* provider_backoff: [level, active]; level 0 is no row
  caps,               \* the indexers whose capabilities are cached
  gate,               \* [holder, prio, hot]
  task,               \* [pc, phase, cut, out] of each search and indexer
  search,             \* [pc, fleet]
  req,                \* [pc, id, had]: the admin requests
  marker,             \* app_state: the first-indexer sweep is claimed
  sweeps,             \* the first-indexer sweeps claimed
  faulted,            \* the indexers that failed by their own doing
  bound

searching == <<ladder, caps, gate, task, search, faulted>>
admin == <<row, req, marker, sweeps>>
vars == <<searching, admin, bound>>

Free == <<>>
NoTask == [pc |-> "none", phase |-> "caps", cut |-> FALSE, out |-> "none"]
NoReq == [pc |-> "idle", id |-> 0, had |-> FALSE]
On == {i \in Indexers : row[i] = "on"}

TypeOK ==
  /\ row \in [Indexers -> {"absent", "off", "on"}]
  /\ ladder \in [Indexers -> [level : 0..MaxLevel, active : BOOLEAN]]
  /\ caps \subseteq Indexers
  /\ \A i \in Indexers : gate[i].prio \in 0..Cardinality(Searches)
  /\ \A s \in Searches : search[s].pc \in {"idle", "fan", "grace", "done"}
  /\ marker \in BOOLEAN /\ sweeps \in Nat
  /\ faulted \subseteq Indexers

Init ==
  /\ \E r \in Regimes :
       /\ row = [i \in Indexers |-> IF i \in r.known THEN "on" ELSE "absent"]
       /\ marker = (r.known # {})
       /\ bound = [searches |-> r.searches, faults |-> r.faults,
                   time |-> r.time, churn |-> r.churn]
  /\ ladder = [i \in Indexers |-> [level |-> 0, active |-> FALSE]]
  /\ caps = {}
  /\ gate = [i \in Indexers |-> [holder |-> Free, prio |-> 0, hot |-> FALSE]]
  /\ task = [s \in Searches |-> [i \in Indexers |-> NoTask]]
  /\ search = [s \in Searches |-> [pc |-> "idle", fleet |-> {}]]
  /\ req = [r \in Requests |-> NoReq]
  /\ sweeps = 0
  /\ faulted = {}

Spend(b) == bound[b] > 0 /\ bound' = [bound EXCEPT ![b] = @ - 1]

\* A search of an operator waits at the gates with priority.
Priority(s) == s \in Interactive
Set(s, i, pc) == task' = [task EXCEPT ![s][i].pc = pc]
End(s, i, out) ==
  task' = [task EXCEPT ![s][i] = [@ EXCEPT !.pc = "done", !.out = out]]
\* A task takes its own steps only while no cancellation is due to it.
At(s, i, pc) == task[s][i].pc = pc /\ ~task[s][i].cut

(***************************************************************************)
(* One task: the back-off check, the gate, the request, the verdict.       *)
(***************************************************************************)
\* A request of the task reaches the gate: an operator's is counted at once.
Arrive(s, i, phase) ==
  /\ task' = [task EXCEPT ![s][i] = [@ EXCEPT !.pc = "gate", !.phase = phase]]
  /\ gate' = IF Priority(s) THEN [gate EXCEPT ![i].prio = @ + 1] ELSE gate

CheckBackoff(s, i) ==
  /\ At(s, i, "check")
  /\ IF ladder[i].active
     THEN End(s, i, "backing off") /\ UNCHANGED gate
     ELSE Arrive(s, i, IF i \in caps THEN "query" ELSE "caps")
  /\ UNCHANGED <<ladder, caps, search, faulted, admin, bound>>

\* The gate lets the task through; an operator's leaves the count.
Through(s, i) ==
  /\ gate' = [gate EXCEPT ![i] = [holder |-> Free, hot |-> TRUE,
       prio |-> IF Priority(s) THEN @.prio - 1 ELSE @.prio]]
  /\ Set(s, i, "wire")

\* The task takes the lock; a background one only when no operator waits.
Lock(s, i) ==
  /\ At(s, i, "gate") /\ gate[i].holder = Free
  /\ Priority(s) \/ gate[i].prio = 0
  /\ IF gate[i].hot
     THEN /\ gate' = [gate EXCEPT ![i].holder = <<s>>]
          /\ Set(s, i, "asleep")
     ELSE Through(s, i)
  /\ UNCHANGED <<ladder, caps, search, faulted, admin, bound>>

Wake(s, i) ==
  /\ At(s, i, "asleep") /\ ~gate[i].hot
  /\ Through(s, i)
  /\ UNCHANGED <<ladder, caps, search, faulted, admin, bound>>

\* A background task asleep in the gate gives it up to an operator.
Yield(s, i) ==
  /\ At(s, i, "asleep") /\ ~Priority(s) /\ gate[i].prio > 0
  /\ gate' = [gate EXCEPT ![i].holder = Free]
  /\ Set(s, i, "gate")
  /\ UNCHANGED <<ladder, caps, search, faulted, admin, bound>>

Cool(i) ==
  /\ gate[i].hot
  /\ gate' = [gate EXCEPT ![i].hot = FALSE]
  /\ UNCHANGED <<ladder, caps, task, search, faulted, admin, bound>>

\* The answer to a caps request is cached; without one the search goes on with
\* conservative capabilities, cached for a shorter time.
CapsArrive(s, i) ==
  /\ At(s, i, "wire") /\ task[s][i].phase = "caps"
  /\ caps' = caps \union {i}
  /\ Arrive(s, i, "query")
  /\ UNCHANGED <<ladder, search, faulted, admin, bound>>

\* The cached capabilities grow too old.
CapsExpire(i) ==
  /\ i \in caps /\ Spend("time")
  /\ caps' = caps \ {i}
  /\ UNCHANGED <<ladder, gate, task, search, faulted, admin>>

\* Results arrive: more pages and query tiers to ask for, or the last one.
PageArrives(s, i) ==
  /\ At(s, i, "wire") /\ task[s][i].phase = "query"
  /\ Set(s, i, "passed")
  /\ UNCHANGED <<ladder, caps, gate, search, faulted, admin, bound>>

\* The request fails, or the search of this indexer crashes.
QueryFails(s, i) ==
  /\ At(s, i, "wire") /\ task[s][i].phase = "query"
  /\ Spend("faults")
  /\ \E kind \in {"failed", "refused"} : Set(s, i, kind)
  /\ faulted' = faulted \union {i}
  /\ UNCHANGED <<ladder, caps, gate, search, admin>>

Climbed(i, kind) ==
  LET next == ladder[i].level + 1
      aim == IF kind = "refused" /\ next < FastForward THEN FastForward
                                                       ELSE next
  IN [level |-> IF aim > MaxLevel THEN MaxLevel ELSE aim, active |-> TRUE]

RecordFailure(s, i) ==
  /\ \E kind \in {"failed", "refused"} :
       /\ At(s, i, kind)
       /\ ladder' = [ladder EXCEPT ![i] = Climbed(i, kind)]
  /\ End(s, i, "failed")
  /\ UNCHANGED <<caps, gate, search, faulted, admin, bound>>

RecordSuccess(s, i) ==
  /\ At(s, i, "passed")
  /\ ladder' = [ladder EXCEPT ![i] = [level |-> 0, active |-> FALSE]]
  /\ End(s, i, "searched")
  /\ UNCHANGED <<caps, gate, search, faulted, admin, bound>>

BackoffExpires(i) ==
  /\ ladder[i].active /\ Spend("time")
  /\ ladder' = [ladder EXCEPT ![i].active = FALSE]
  /\ UNCHANGED <<caps, gate, task, search, faulted, admin>>

(***************************************************************************)
(* A cancellation reaches the task where it awaits.                        *)
(***************************************************************************)
Cut(s, i) == task[s][i].cut /\ task[s][i].pc \notin {"none", "done"}

\* Faulty: a cancelled waiter stays in the gate's count.
ReleasedForgetting(s, i) ==
  IF task[s][i].pc = "asleep"
  THEN [gate EXCEPT ![i].holder = Free]
  ELSE gate

\* Leaving the gate on the way out.
Released(s, i) ==
  IF task[s][i].pc \notin {"gate", "asleep"} THEN gate
  ELSE [gate EXCEPT ![i].holder = IF @ = <<s>> THEN Free ELSE @,
                    ![i].prio = IF Priority(s) THEN @ - 1 ELSE @]

\* The cancellation unwinds the task.  One that meets a write may find it
\* committed or rolled back.
Unwind(s, i) ==
  /\ Cut(s, i)
  /\ gate' = Released(s, i)
  /\ \/ UNCHANGED ladder
     \/ /\ task[s][i].pc = "passed"
        /\ ladder' = [ladder EXCEPT ![i] = [level |-> 0, active |-> FALSE]]
     \/ /\ task[s][i].pc \in {"failed", "refused"}
        /\ ladder' = [ladder EXCEPT ![i] = Climbed(i, task[s][i].pc)]
  /\ End(s, i, "timed out")
  /\ UNCHANGED <<caps, search, faulted, admin, bound>>

\* Closing the client raises: the outcome is a failure, the ladder is left
\* alone because the task is being cancelled.
CleanupBlowsUp(s, i) ==
  /\ Cut(s, i) /\ task[s][i].pc = "wire" /\ "cleanup" \in Blowups
  /\ Spend("faults")
  /\ End(s, i, "failed")
  /\ UNCHANGED <<ladder, caps, gate, search, faulted, admin>>

\* The HTTP read itself raises: the client turns that into a failure of the
\* indexer like any other, and the cancellation is spent.
ReadBlowsUp(s, i) ==
  /\ Cut(s, i) /\ task[s][i].pc = "wire" /\ task[s][i].phase \in Blowups
  /\ Spend("faults")
  /\ IF task[s][i].phase = "caps"
     THEN /\ caps' = caps \union {i}
          /\ task' = [task EXCEPT ![s][i] =
               [@ EXCEPT !.pc = "gate", !.phase = "query", !.cut = FALSE]]
          /\ gate' = IF Priority(s) THEN [gate EXCEPT ![i].prio = @ + 1]
                                    ELSE gate
     ELSE /\ task' = [task EXCEPT ![s][i] =
               [@ EXCEPT !.pc = "failed", !.cut = FALSE]]
          /\ UNCHANGED <<caps, gate>>
  /\ UNCHANGED <<ladder, search, faulted, admin>>

(***************************************************************************)
(* The fan.                                                                *)
(***************************************************************************)
Unfinished(s) == {i \in search[s].fleet : task[s][i].pc # "done"}
\* The tasks of an earlier fan that outlived their grace.
Parked(s, i) == search[s].pc = "done" /\ task[s][i].pc \notin {"none", "done"}

\* A search selects its fleet; one with a budget cancels parked tasks again.
Begin(s) ==
  /\ search[s].pc = "idle" /\ On # {}
  /\ Spend("searches")
  /\ search' = [search EXCEPT ![s] = [pc |-> "fan", fleet |-> On]]
  /\ task' = [t \in Searches |-> [i \in Indexers |->
       IF t = s /\ i \in On THEN [NoTask EXCEPT !.pc = "check"]
       ELSE [task[t][i] EXCEPT !.cut = @ \/ (Priority(s) /\ Parked(t, i))]]]
  /\ UNCHANGED <<ladder, caps, gate, faulted, admin>>

\* The budget runs out, or the operator's request is gone.
BudgetEnds(s) ==
  /\ search[s].pc = "fan" /\ Priority(s) /\ Unfinished(s) # {}
  /\ task' = [task EXCEPT ![s] = [i \in Indexers |->
       [task[s][i] EXCEPT !.cut = i \in Unfinished(s)]]]
  /\ search' = [search EXCEPT ![s].pc = "grace"]
  /\ UNCHANGED <<ladder, caps, gate, faulted, admin, bound>>

\* Every task is done, or the grace period of the cancelled ones is over.
Collect(s) ==
  /\ \/ search[s].pc \in {"fan", "grace"} /\ Unfinished(s) = {}
     \/ search[s].pc = "grace"
  /\ search' = [search EXCEPT ![s].pc = "done"]
  /\ UNCHANGED <<ladder, caps, gate, task, faulted, admin, bound>>

(***************************************************************************)
(* The API: adding and enabling an indexer.                                *)
(***************************************************************************)
\* Whether any indexer is enabled is read before the row is written.
Ask(r, pc, i) ==
  /\ req[r].pc = "idle"
  /\ Spend("churn")
  /\ req' = [req EXCEPT ![r] = [pc |-> pc, id |-> i, had |-> On # {}]]
  /\ UNCHANGED <<searching, row, marker, sweeps>>
Create(r) == Ask(r, "create", 0)
Enable(r) == \E i \in Indexers : row[i] = "off" /\ Ask(r, "enable", i)

Forget(r) == [req EXCEPT ![r] = NoReq]

\* Faulty: whether an indexer is enabled is read after the write, and finds
\* the row just written.
WrittenLate(r, i) ==
  IF On' # {} THEN Forget(r) ELSE [req EXCEPT ![r].pc = "claim"]

\* The write left indexer i enabled: it was the first or it was not.
Written(r, i) ==
  IF req[r].had THEN Forget(r) ELSE [req EXCEPT ![r].pc = "claim"]

\* The row is added, under an id of the database's choice.
WriteNew(r) ==
  /\ req[r].pc = "create"
  /\ \E i \in Indexers, to \in {"on", "off"} :
       /\ row[i] = "absent"
       /\ row' = [row EXCEPT ![i] = to]
       /\ req' = IF to = "on" THEN Written(r, i) ELSE Forget(r)
  /\ UNCHANGED <<searching, marker, sweeps, bound>>

\* The row is switched on, unless it was removed in between.
WriteEnabled(r) ==
  /\ req[r].pc = "enable"
  /\ IF row[req[r].id] = "absent"
     THEN req' = Forget(r) /\ UNCHANGED row
     ELSE /\ row' = [row EXCEPT ![req[r].id] = "on"]
          /\ req' = Written(r, req[r].id)
  /\ UNCHANGED <<searching, marker, sweeps, bound>>

\* The one sweep a database owes is claimed, and then enqueued or lost.
Claim(r) ==
  /\ req[r].pc = "claim"
  /\ marker' = TRUE
  /\ sweeps' = IF marker THEN sweeps ELSE sweeps + 1
  /\ req' = Forget(r)
  /\ UNCHANGED <<searching, row, bound>>

\* An indexer is switched off or removed; what the process and the ladder
\* keep under its id stays.
Disable(i) ==
  /\ row[i] = "on" /\ Spend("churn")
  /\ row' \in {[row EXCEPT ![i] = "off"], [row EXCEPT ![i] = "absent"]}
  /\ UNCHANGED <<searching, req, marker, sweeps>>

Task(s, i) ==
  \/ CheckBackoff(s, i) \/ Lock(s, i) \/ Wake(s, i) \/ Yield(s, i)
  \/ CapsArrive(s, i) \/ PageArrives(s, i) \/ QueryFails(s, i)
  \/ RecordFailure(s, i) \/ RecordSuccess(s, i)
Cancelled(s, i) ==
  Unwind(s, i) \/ CleanupBlowsUp(s, i) \/ ReadBlowsUp(s, i)
Fan(s) == Begin(s) \/ BudgetEnds(s) \/ Collect(s)
Admin(r) ==
  Create(r) \/ Enable(r) \/ WriteNew(r) \/ WriteEnabled(r) \/ Claim(r)

Next ==
  \/ \E s \in Searches, i \in Indexers : Task(s, i) \/ Cancelled(s, i)
  \/ \E s \in Searches : Fan(s)
  \/ \E r \in Requests : Admin(r)
  \/ \E i \in Indexers :
       Cool(i) \/ CapsExpire(i) \/ BackoffExpires(i) \/ Disable(i)

Spec == Init /\ [][Next]_vars

(***************************************************************************)
(* Properties.                                                             *)
(***************************************************************************)
\* An indexer climbs the back-off ladder only by a failure of its own: being
\* slow, and being cancelled for it, costs nothing (the check of the running
\* cancellation in _search_one_indexer).
SlowIsNotFailing == \A i \in Indexers : ladder[i].level > 0 => i \in faulted

\* The backlog search owed to the first enabled indexer is claimed by whoever
\* enabled it, once, however two first requests interleave and whatever is
\* switched off and removed again.
SweepOwedOnce ==
  /\ sweeps <= 1
  /\ (On # {} /\ \A r \in Requests : req[r].pc # "claim") => marker

\* A gate is never left behind by a search that a deadline or a closed page has
\* cancelled: what holds it is a task that sleeps in it, and a background search
\* gives way to just the operators' requests that still wait (the finally
\* clauses of acquire in indexers/ratelimit.py).  One that is left would stop
\* every later background search of that indexer.
GateNotLeaked ==
  \A i \in Indexers :
    /\ gate[i].prio = Cardinality({s \in Searches :
                        Priority(s) /\ task[s][i].pc \in {"gate", "asleep"}})
    /\ gate[i].holder # Free =>
         \E s \in Searches : gate[i].holder = <<s>> /\ task[s][i].pc = "asleep"
=============================================================================
