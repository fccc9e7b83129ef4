---------------------------- MODULE CommandQueue ----------------------------
(***************************************************************************)
(* The persisted command queue of foragerr: the enqueue API, the bounded   *)
(* worker pools, the startup orphan recovery and the graceful drain of     *)
(* commands/service.py.                                                    *)
(*                                                                         *)
(* A row of the commands table is status[i], body[i], prio[i]; job_history *)
(* is the sequence history[i] of its recorded outcomes.  Both survive the  *)
(* process.  A body stands for a command's name and payload hash, the pair *)
(* the code de-duplicates on.                                              *)
(*                                                                         *)
(* Every write session runs under one asyncio lock and commits or rolls    *)
(* back as a whole, so it is one step here.  What is NOT atomic in the     *)
(* code is kept apart: a worker tests _stopping before it awaits the lock  *)
(* (Poll, then Claim), a handler ends before its terminal write is         *)
(* committed (HandlerDone, then Finish), and a write may be given up on    *)
(* with DatabaseBusyError (ClaimBusy, FinishBusy).                         *)
(***************************************************************************)
EXTENDS Naturals, Sequences, FiniteSets

CONSTANTS
  Command,      \* command bodies: a name and a payload hash
  NoCommand,    \* the body of an id that has no row yet
  ClassOf,      \* the workload class of a body
  GroupOf,      \* its exclusivity group, or NoGroup
  NoGroup,
  Priority,     \* the priorities callers enqueue with
  Worker,       \* the worker tasks of all the pools
  PoolOf,       \* the workload class a worker serves
  MaxCommands,  \* bound: rows ever inserted
  ScanLimit,    \* rows a claim looks at (50 in the code)
  MaxRuns,      \* bound: how often the process is started
  MaxBusy,      \* bound: writes given up on because the database is locked
  BusyAt        \* which writes may be: a subset of {"claim", "finish"}

ASSUME CommandsAssumption ==
  /\ NoCommand \notin Command
  /\ DOMAIN ClassOf = Command
  /\ DOMAIN GroupOf = Command
  /\ DOMAIN PoolOf = Worker
  /\ Priority \subseteq Nat
  /\ IsFiniteSet(Worker)

ASSUME BoundsAssumption ==
  /\ MaxCommands \in Nat
  /\ ScanLimit \in Nat \ {0}
  /\ MaxRuns \in Nat
  /\ MaxBusy \in Nat

VARIABLES
  status, body, prio,   \* the commands table
  history,              \* the job_history table, per command id
  up,                   \* the process is running
  stopping,             \* _stopping
  activeGroups,         \* _active_groups
  pc,                   \* where each worker task is
  job,                  \* the row a worker claimed and has not let go of
  verdict,              \* what its handler ended with, before it is written
  abandoned,            \* rows of this run whose outcome nobody will write
  runs, busy            \* how many of the bounded events have happened

table    == <<status, body, prio>>
workers  == <<pc, job, verdict>>
bounds   == <<runs, busy>>
vars     == <<status, body, prio, history, up, stopping, activeGroups,
              pc, job, verdict, abandoned, runs, busy>>

Id       == 1 .. MaxCommands
NoJob    == 0
Terminal == {"completed", "failed"}
Live     == {"queued", "started"}
Groups   == {GroupOf[c] : c \in Command} \ {NoGroup}

Group(i) == GroupOf[body[i]]
Class(i) == ClassOf[body[i]]

-----------------------------------------------------------------------------
(* The row a claim picks: priority first, then age, among the first        *)
(* ScanLimit queued rows of the class, skipping the active groups.         *)

Queued(c)   == {i \in Id : status[i] = "queued" /\ Class(i) = c}
Before(i, j) == prio[i] > prio[j] \/ (prio[i] = prio[j] /\ i < j)
Scanned(c)  == {i \in Queued(c) :
                  Cardinality({j \in Queued(c) : Before(j, i)}) < ScanLimit}
Eligible(c) == {i \in Scanned(c) : Group(i) \notin activeGroups}

-----------------------------------------------------------------------------
Init ==
  /\ status = [i \in Id |-> "absent"]
  /\ body = [i \in Id |-> NoCommand]
  /\ prio = [i \in Id |-> 0]
  /\ history = [i \in Id |-> << >>]
  /\ up = FALSE
  /\ stopping = FALSE
  /\ activeGroups = {}
  /\ pc = [w \in Worker |-> "off"]
  /\ job = [w \in Worker |-> NoJob]
  /\ verdict = [w \in Worker |-> "none"]
  /\ abandoned = {}
  /\ runs = 0
  /\ busy = 0

(* enqueue: an equal body that is still queued or started is returned      *)
(* instead of inserted, which changes nothing.                             *)
Enqueue(c, p) ==
  /\ up
  /\ \A i \in Id : body[i] = c => status[i] \notin Live
  /\ \E i \in Id :
       /\ status[i] = "absent"
       /\ \A j \in Id : j < i => status[j] # "absent"
       /\ status' = [status EXCEPT ![i] = "queued"]
       /\ body' = [body EXCEPT ![i] = c]
       /\ prio' = [prio EXCEPT ![i] = p]
  /\ UNCHANGED <<history, up, stopping, activeGroups, workers, abandoned, bounds>>

(* The worker loop up to the await of the write lock: both tests of        *)
(* _stopping, in _worker and at the head of _claim, come before it.        *)
Poll(w) ==
  /\ pc[w] = "idle"
  /\ pc' = [pc EXCEPT ![w] = IF stopping THEN "done" ELSE "claiming"]
  /\ UNCHANGED <<table, history, up, stopping, activeGroups, job, verdict,
                 abandoned, bounds>>

(* Faulty: the claimed row's group is not reserved.                        *)
ClaimWithoutReserving(w) ==
  /\ pc[w] = "claiming"
  /\ \E i \in Eligible(PoolOf[w]) :
       /\ \A j \in Eligible(PoolOf[w]) : j # i => Before(i, j)
       /\ status' = [status EXCEPT ![i] = "started"]
       /\ job' = [job EXCEPT ![w] = i]
  /\ pc' = [pc EXCEPT ![w] = "running"]
  /\ UNCHANGED <<body, prio, history, up, stopping, activeGroups, verdict,
                 abandoned, bounds>>

(* Faulty: the query forgets its ORDER BY.                                 *)
ClaimUnordered(w) ==
  /\ pc[w] = "claiming"
  /\ \E i \in Eligible(PoolOf[w]) :
       /\ status' = [status EXCEPT ![i] = "started"]
       /\ job' = [job EXCEPT ![w] = i]
       /\ activeGroups' = activeGroups \cup ({Group(i)} \ {NoGroup})
  /\ pc' = [pc EXCEPT ![w] = "running"]
  /\ UNCHANGED <<body, prio, history, up, stopping, verdict, abandoned, bounds>>

(* _claim's write session: the check and the mark are one transaction.     *)
Claim(w) ==
  /\ pc[w] = "claiming"
  /\ \E i \in Eligible(PoolOf[w]) :
       /\ \A j \in Eligible(PoolOf[w]) : j # i => Before(i, j)
       /\ status' = [status EXCEPT ![i] = "started"]
       /\ job' = [job EXCEPT ![w] = i]
       /\ activeGroups' = activeGroups \cup ({Group(i)} \ {NoGroup})
  /\ pc' = [pc EXCEPT ![w] = "running"]
  /\ UNCHANGED <<body, prio, history, up, stopping, verdict, abandoned, bounds>>

(* _claim found no eligible row; the worker waits for a wake-up or the     *)
(* poll interval and goes round its loop.                                  *)
ClaimNothing(w) ==
  /\ pc[w] = "claiming"
  /\ Eligible(PoolOf[w]) = {}
  /\ pc' = [pc EXCEPT ![w] = "idle"]
  /\ UNCHANGED <<table, history, up, stopping, activeGroups, job, verdict,
                 abandoned, bounds>>

(* Faulty: the exception ends the worker task.                             *)
ClaimBusyKillsWorker(w) ==
  /\ "claim" \in BusyAt /\ busy < MaxBusy
  /\ pc[w] = "claiming"
  /\ busy' = busy + 1
  /\ pc' = [pc EXCEPT ![w] = "done"]
  /\ UNCHANGED <<table, history, up, stopping, activeGroups, job, verdict,
                 abandoned, runs>>

(* The claim's transaction fails on a locked database: it rolls back, and  *)
(* a group reserved in memory is released again.                           *)
ClaimBusy(w) ==
  /\ "claim" \in BusyAt /\ busy < MaxBusy
  /\ pc[w] = "claiming"
  /\ busy' = busy + 1
  /\ pc' = [pc EXCEPT ![w] = "backoff"]
  /\ UNCHANGED <<table, history, up, stopping, activeGroups, job, verdict,
                 abandoned, runs>>

(* The handler returned or raised.                                         *)
HandlerDone(w, o) ==
  /\ pc[w] = "running"
  /\ pc' = [pc EXCEPT ![w] = "finishing"]
  /\ verdict' = [verdict EXCEPT ![w] = o]
  /\ UNCHANGED <<table, history, up, stopping, activeGroups, job, abandoned,
                 bounds>>

LetGo(w) ==
  /\ job' = [job EXCEPT ![w] = NoJob]
  /\ verdict' = [verdict EXCEPT ![w] = "none"]
  /\ activeGroups' = activeGroups \ {Group(job[w])}

(* Faulty: the command row is written and the history row is not.          *)
FinishRowOnly(w) ==
  /\ pc[w] = "finishing"
  /\ status' = [status EXCEPT ![job[w]] = verdict[w]]
  /\ pc' = [pc EXCEPT ![w] = "idle"]
  /\ LetGo(w)
  /\ UNCHANGED <<body, prio, history, up, stopping, abandoned, bounds>>

(* The terminal write: the row's status and its history row together.      *)
Finish(w) ==
  /\ pc[w] = "finishing"
  /\ status' = [status EXCEPT ![job[w]] = verdict[w]]
  /\ history' = [history EXCEPT ![job[w]] = Append(@, verdict[w])]
  /\ pc' = [pc EXCEPT ![w] = "idle"]
  /\ LetGo(w)
  /\ UNCHANGED <<body, prio, up, stopping, abandoned, bounds>>

(* The terminal write fails on a locked database: the finally clause       *)
(* releases the group, the worker backs off, and the row stays started.    *)
FinishBusy(w) ==
  /\ "finish" \in BusyAt /\ busy < MaxBusy
  /\ pc[w] = "finishing"
  /\ busy' = busy + 1
  /\ pc' = [pc EXCEPT ![w] = "backoff"]
  /\ abandoned' = abandoned \cup {job[w]}
  /\ LetGo(w)
  /\ UNCHANGED <<table, history, up, stopping, runs>>

BackoffOver(w) ==
  /\ pc[w] = "backoff"
  /\ pc' = [pc EXCEPT ![w] = "idle"]
  /\ UNCHANGED <<table, history, up, stopping, activeGroups, job, verdict,
                 abandoned, bounds>>

-----------------------------------------------------------------------------

(* start: orphan recovery commits, then the pools are spawned.             *)
Start ==
  /\ ~up /\ runs < MaxRuns
  /\ up' = TRUE
  /\ stopping' = FALSE
  /\ runs' = runs + 1
  /\ status' = [i \in Id |-> IF status[i] = "started" THEN "queued" ELSE status[i]]
  /\ history' = [i \in Id |-> IF status[i] = "started"
                                THEN Append(history[i], "interrupted")
                                ELSE history[i]]
  /\ pc' = [w \in Worker |-> "idle"]
  /\ UNCHANGED <<body, prio, activeGroups, job, verdict, abandoned, busy>>

(* The last run of the bounded model is never stopped.                     *)
BeginDrain ==
  /\ up /\ ~stopping /\ runs < MaxRuns
  /\ stopping' = TRUE
  /\ UNCHANGED <<table, history, up, activeGroups, workers, abandoned, bounds>>

(* The grace period is over: every worker that is not done is cancelled.   *)
(* A worker cancelled while its commit is already under way is the commit  *)
(* step followed by this one.                                              *)
DrainExpire ==
  /\ up /\ stopping
  /\ \E w \in Worker : pc[w] # "done"
  /\ abandoned' = abandoned \cup {job[w] : w \in {v \in Worker : job[v] # NoJob}}
  /\ activeGroups' =
       activeGroups \ {Group(job[w]) : w \in {v \in Worker : job[v] # NoJob}}
  /\ pc' = [w \in Worker |-> "done"]
  /\ job' = [w \in Worker |-> NoJob]
  /\ verdict' = [w \in Worker |-> "none"]
  /\ UNCHANGED <<table, history, up, stopping, bounds>>

(* What a dead process leaves: the tables, and nothing else.               *)
ProcessGone ==
  /\ up' = FALSE
  /\ stopping' = FALSE
  /\ activeGroups' = {}
  /\ pc' = [w \in Worker |-> "off"]
  /\ job' = [w \in Worker |-> NoJob]
  /\ verdict' = [w \in Worker |-> "none"]
  /\ abandoned' = {}
  /\ UNCHANGED <<table, history, bounds>>

Exit  == up /\ stopping /\ (\A w \in Worker : pc[w] = "done") /\ ProcessGone
Crash == up /\ runs < MaxRuns /\ ProcessGone

LoopStep(w) ==
  \/ Poll(w) \/ Claim(w) \/ ClaimNothing(w) \/ ClaimBusy(w)
  \/ Finish(w) \/ FinishBusy(w) \/ BackoffOver(w)

HandlerStep(w) == \E o \in Terminal : HandlerDone(w, o)

Next ==
  \/ \E c \in Command, p \in Priority : Enqueue(c, p)
  \/ \E w \in Worker : LoopStep(w) \/ HandlerStep(w)
  \/ Start \/ BeginDrain \/ DrainExpire \/ Exit \/ Crash

Spec == Init /\ [][Next]_vars

(* Locks are granted, timers fire, and the container restarts the process; *)
(* nothing obliges a handler to end, or anyone to enqueue or to stop.      *)
FairSpec ==
  /\ Spec
  /\ \A w \in Worker : WF_vars(LoopStep(w))
  /\ WF_vars(DrainExpire) /\ WF_vars(Exit) /\ WF_vars(Start)

HandlersEnd == \A w \in Worker : WF_vars(HandlerStep(w))

-----------------------------------------------------------------------------
TypeOK ==
  /\ status \in [Id -> {"absent"} \cup Live \cup Terminal]
  /\ body \in [Id -> Command \cup {NoCommand}]
  /\ prio \in [Id -> Nat]
  /\ history \in [Id -> Seq(Terminal \cup {"interrupted"})]
  /\ up \in BOOLEAN /\ stopping \in BOOLEAN
  /\ activeGroups \subseteq Groups
  /\ pc \in [Worker -> {"off", "idle", "claiming", "running", "finishing",
                        "backoff", "done"}]
  /\ job \in [Worker -> Id \cup {NoJob}]
  /\ verdict \in [Worker -> Terminal \cup {"none"}]
  /\ abandoned \subseteq Id
  /\ runs \in Nat /\ busy \in Nat

(* At most one live row per body (FRG-SCHED-003), whatever the enqueues,   *)
(* claims, recoveries and finishes did to the rows in between.             *)
DedupLive ==
  \A i, j \in Id :
    i # j /\ body[i] = body[j] => ~(status[i] \in Live /\ status[j] \in Live)

(* Two handlers of one exclusivity group never run at the same time        *)
(* (FRG-SCHED-004): a check made on memory, not on the table.              *)
GroupExclusion ==
  \A w, v \in Worker :
    w # v /\ job[w] # NoJob /\ job[v] # NoJob =>
      /\ job[w] # job[v]
      /\ Group(job[w]) = Group(job[v]) => Group(job[w]) = NoGroup

(* A group is reserved only while some worker holds a row of it, so a      *)
(* failed claim, a failed handler or a cancelled drain never wedges it.    *)
NoGroupWedged ==
  \A g \in activeGroups :
    \E w \in Worker : job[w] # NoJob /\ Group(job[w]) = g

(* While the process runs, a started row has a worker, or its outcome was  *)
(* lost to a locked database or to the drain's cancellation.               *)
StartedHasOwner ==
  up => \A i \in Id :
          status[i] = "started" =>
            i \in abandoned \/ \E w \in Worker : job[w] = i

(* job_history tells the truth about the row: at most one terminal entry,  *)
(* which is the last one and the row's status, and one "interrupted" per   *)
(* recovery before it (FRG-SCHED-002, FRG-SCHED-008).                      *)
HistoryMatchesRow ==
  \A i \in Id :
    /\ \A k \in 1 .. Len(history[i]) :
         history[i][k] \in Terminal => k = Len(history[i]) /\ status[i] = history[i][k]
    /\ status[i] \in Terminal => /\ history[i] # << >>
                                 /\ history[i][Len(history[i])] = status[i]

(* What the table, the history, the workers and the groups in memory tell  *)
(* of each other, through every claim, failure, drain and recovery.        *)
QueueSound ==
  /\ TypeOK
  /\ DedupLive
  /\ GroupExclusion
  /\ NoGroupWedged
  /\ StartedHasOwner
  /\ HistoryMatchesRow

(* FRG-SCHED-004, "exclusivity does not block unrelated work": a claim     *)
(* comes back empty only if every queued row of the class is in a group    *)
(* that is active.  It holds while the queue fits in the scan limit.       *)
BlocksOnlyItsGroup ==
  [][\A w \in Worker :
       pc[w] = "claiming" /\ pc'[w] = "idle" =>
         \A i \in Queued(PoolOf[w]) : Group(i) \in activeGroups]_vars

(* Commands of one class and group start in order of priority, then age,   *)
(* however their claims interleave with enqueues, failures and recoveries. *)
NoOvertaking ==
  [][\A i, j \in Id :
       /\ status[i] = "queued" /\ status[j] = "queued"
       /\ Class(i) = Class(j) /\ Group(i) = Group(j)
       /\ Before(i, j)
       => ~(status'[i] = "queued" /\ status'[j] = "started")]_vars

(* What runs next: the oldest of the most urgent, and nothing waits for a  *)
(* group that is not its own.                                              *)
Ordered == BlocksOnlyItsGroup /\ NoOvertaking

(* The queue keeps the ledger's promises: a started row is an attempt      *)
(* under way and job_history is the record.                                *)
Phase(i) == CASE status[i] = "absent"  -> "none"
              [] status[i] = "queued"  -> "waiting"
              [] status[i] = "started" -> "active"
              [] OTHER                 -> "done"

Ledger == INSTANCE JobLedger WITH
            Job <- Id, Key <- Command, NoKey <- NoCommand,
            phase <- [i \in Id |-> Phase(i)], key <- body,
            ended <- [i \in Id |-> Len(history[i])]

ImplementsLedger == Ledger!Spec

(* If handlers end, every queued command is eventually finished, across    *)
(* crashes, drains and busy claims, but for one whose terminal write was   *)
(* given up on.                                                            *)
EveryCommandFinishes ==
  HandlersEnd => \A i \in Id : status[i] = "queued" ~> (status[i] \in Terminal \/ i \in abandoned)
=============================================================================
