----------------------------- MODULE Scheduler ------------------------------
(***************************************************************************)
(* The interval scheduler (commands/scheduler.py): one loop that looks at  *)
(* every registered task each tick, enqueues the command of a task that is *)
(* due and stamps its last run, and the runs an operator forces meanwhile. *)
(*                                                                         *)
(* Only elapsed time matters, so a stamp is kept as its age: the time gone *)
(* by since the moment it names, counted up to the task's interval, and a  *)
(* task that never ran is as old as its interval.                          *)
(***************************************************************************)
EXTENDS Naturals, Sequences

CONSTANTS
  Tasks,              \* the tasks, in the order they are registered
  SetInterval, MinInterval,      \* [task -> ticks of the clock]
  FirstRun,           \* tasks whose new row is stamped at once
  MaxFaults, MaxRestarts, MaxForced   \* bounds

VARIABLES
  rows,               \* tasks that have a row in scheduled_tasks
  age,                \* time since the last_run of each row
  defs,               \* tasks registered in this process, in order
  loop,               \* the loop: [pc, todo, took]
  live,               \* tasks whose command is queued or started
  force,              \* forced runs that have yet to stamp: age or none
  bound

vars == <<rows, age, defs, loop, live, force, bound>>

Names == {Tasks[i] : i \in DOMAIN Tasks}
None == "none"

\* The interval configured, clamped to the documented minimum.
Interval(t) ==
  IF SetInterval[t] < MinInterval[t] THEN MinInterval[t] ELSE SetInterval[t]
Longest == CHOOSE n \in {Interval(t) : t \in Names} :
             \A t \in Names : Interval(t) <= n
Older(a, most) == IF a < most THEN a + 1 ELSE a
Smaller(a, b) == IF a < b THEN a ELSE b

Off == [pc |-> "off", todo |-> <<>>, took |-> 0]

TypeOK ==
  /\ rows \subseteq Names /\ live \subseteq Names
  /\ \A t \in Names : age[t] \in 0..Interval(t)
  /\ {defs[i] : i \in DOMAIN defs} \subseteq Names
  /\ {loop.todo[i] : i \in DOMAIN loop.todo} \subseteq Names

Init ==
  /\ rows = {} /\ age = [t \in Names |-> Interval(t)]
  /\ defs = <<>> /\ loop = Off /\ live = {}
  /\ force = [t \in Names |-> None]
  /\ bound = [faults |-> 0, restarts |-> 0, forced |-> 0]

Spend(b) == bound' = [bound EXCEPT ![b] = @ + 1]
Up == loop.pc # "off"

(***************************************************************************)
(* Start, registration, and the end of the process.                        *)
(***************************************************************************)
Start ==
  /\ ~Up /\ loop' = [Off EXCEPT !.pc = "asleep"]
  /\ UNCHANGED <<rows, age, defs, live, force, bound>>

\* The startup hooks register one task after another; the loop may already
\* tick between two of them.  A row from an earlier run keeps its last_run.
Register ==
  /\ Up /\ Len(defs) < Len(Tasks)
  /\ LET t == Tasks[Len(defs) + 1]
     IN /\ defs' = Append(defs, t)
        /\ rows' = rows \cup {t}
        /\ age' = IF t \notin rows /\ t \in FirstRun
                  THEN [age EXCEPT ![t] = 0] ELSE age
  /\ UNCHANGED <<loop, live, force, bound>>

\* Commands still queued are claimed after the restart; started ones are over.
Crash ==
  /\ Up /\ bound.restarts < MaxRestarts /\ Spend("restarts")
  /\ \E queued \in SUBSET live : live' = queued
  /\ defs' = <<>> /\ loop' = Off /\ force' = [t \in Names |-> None]
  /\ UNCHANGED <<rows, age>>

(***************************************************************************)
(* One tick.                                                               *)
(***************************************************************************)
Task == Head(loop.todo)
Onward ==
  [loop EXCEPT !.todo = Tail(@),
               !.pc = IF Len(loop.todo) = 1 THEN "asleep" ELSE "read"]

\* The time of the tick is taken once, for all its tasks.
Tick ==
  /\ loop.pc = "asleep" /\ defs # <<>>
  /\ loop' = [pc |-> "read", todo |-> defs, took |-> 0]
  /\ UNCHANGED <<rows, age, defs, live, force, bound>>

Due(t) == age[t] >= Interval(t)

Read ==
  /\ loop.pc = "read"
  /\ loop' = IF Due(Task) THEN [loop EXCEPT !.pc = "enqueue"] ELSE Onward
  /\ UNCHANGED <<rows, age, defs, live, force, bound>>

\* A command of the task that is still queued or started is not doubled.
Enqueue ==
  /\ loop.pc = "enqueue"
  /\ live' = live \cup {Task} /\ loop' = [loop EXCEPT !.pc = "stamp"]
  /\ UNCHANGED <<rows, age, defs, force, bound>>

SetLastRun(t, ago) == age' = [age EXCEPT ![t] = Smaller(ago, Interval(t))]

Stamp ==
  /\ loop.pc = "stamp" /\ SetLastRun(Task, loop.took) /\ loop' = Onward
  /\ UNCHANGED <<rows, defs, live, force, bound>>

\* An error abandons the tick, with the tasks it had not reached; the loop
\* itself goes on.
Continues == [loop EXCEPT !.pc = "asleep", !.todo = <<>>]
Ends == [loop EXCEPT !.pc = "dead", !.todo = <<>>]
AfterError == Continues

TickFails ==
  /\ loop.pc \in {"read", "enqueue", "stamp"}
  /\ bound.faults < MaxFaults /\ Spend("faults")
  /\ loop' = AfterError
  /\ UNCHANGED <<rows, age, defs, live, force>>

(***************************************************************************)
(* A forced run, the commands, and time.                                   *)
(***************************************************************************)
ForceRun(t) ==
  /\ Up /\ t \in {defs[i] : i \in DOMAIN defs} /\ force[t] = None
  /\ bound.forced < MaxForced /\ Spend("forced")
  /\ live' = live \cup {t} /\ force' = [force EXCEPT ![t] = "asked"]
  /\ UNCHANGED <<rows, age, defs, loop>>

ForceStamp(t) ==
  /\ force[t] # None /\ SetLastRun(t, 0)
  /\ force' = [force EXCEPT ![t] = None]
  /\ UNCHANGED <<rows, defs, loop, live, bound>>

CommandEnds(t) ==
  /\ Up /\ t \in live /\ live' = live \ {t}
  /\ UNCHANGED <<rows, age, defs, loop, force, bound>>

Time ==
  /\ age' = [t \in Names |-> Older(age[t], Interval(t))]
  /\ loop' = [loop EXCEPT !.took = Older(@, Longest)]
  /\ age' # age \/ loop' # loop
  /\ UNCHANGED <<rows, defs, live, force, bound>>

Loop == Tick \/ Read \/ Enqueue \/ Stamp

Next ==
  \/ Start \/ Register \/ Crash \/ Loop \/ TickFails \/ Time
  \/ \E t \in Names : ForceRun(t) \/ ForceStamp(t) \/ CommandEnds(t)

Spec == Init /\ [][Next]_vars
FairSpec == Spec /\ WF_vars(Loop)

(***************************************************************************)
(* Properties.                                                             *)
(***************************************************************************)
Registered(t) == t \in {defs[i] : i \in DOMAIN defs}

\* A task that is due gets its command, also when a tick that was about to
\* reach it was abandoned because another task failed.
DueTaskRuns ==
  \A t \in Names :
    (Registered(t) /\ Due(t)) ~> (t \in live \/ ~Due(t) \/ ~Up)
=============================================================================
