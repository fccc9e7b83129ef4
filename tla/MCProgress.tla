------------------------------ MODULE MCProgress ------------------------------
(***************************************************************************)
(* What must happen in the end, on small instances of the tracking of      *)
(* downloads and of the scheduler.  They share no state here: the first    *)
(* state chooses the one that runs, of Focus, and the other rests.         *)
(***************************************************************************)
EXTENDS Integers, Sequences

CONSTANTS Focus   \* the components explored

(***************************************************************************)
(* Two downloads, of an issue each                                         *)
(***************************************************************************)
Downloads == {"d1", "d2"}
MoveAndRemove == [transfer |-> "move", remove |-> TRUE]

(***************************************************************************)
(* Three tasks, of which one is due from the start                         *)
(***************************************************************************)
Tasks == <<"refresh", "prune", "backfill">>
TaskInterval == [t \in {"refresh", "prune", "backfill"} |-> IF t = "refresh" THEN 1 ELSE 2]
TaskMinimum == [t \in {"refresh", "prune", "backfill"} |-> IF t = "prune" THEN 3 ELSE 1]

VARIABLES
  focus,   \* the component that runs: the others rest in their first state
  trackSettings, trackClient, trackStaged, trackPlaced, trackDue, trackRecorded,
  trackImports, trackRow, trackLinked, trackGrabs, trackSending, trackPoll, trackSeen,
  trackPolled, trackDrain, trackBatch, trackCur, trackMode, trackOwed, trackResearched,
  trackRemoving, trackCrashes, trackFaults, trackIoErrors, trackUser,
  clockRows, clockAge, clockDefs, clockLoop, clockLive, clockForce, clockBound

Tracking == INSTANCE DownloadTracking WITH
  Download <- Downloads, NoDownload <- "no download", IssueOf <- [d \in Downloads |-> d],
  Unmapped <- {"d2"}, Ddl <- {"d1"}, Tagged <- Downloads, Settings <- {MoveAndRemove},
  PollLimit <- 2, DownloadWorkers <- 1, MaxCrashes <- 1, MaxFaults <- 1, MaxIoErrors <- 0,
  MaxUser <- 0, settings <- trackSettings, client <- trackClient, staged <- trackStaged,
  placed <- trackPlaced, due <- trackDue, recorded <- trackRecorded,
  imports <- trackImports, row <- trackRow, linked <- trackLinked, grabs <- trackGrabs,
  sending <- trackSending, poll <- trackPoll, seen <- trackSeen, polled <- trackPolled,
  drain <- trackDrain, batch <- trackBatch, cur <- trackCur, mode <- trackMode,
  owed <- trackOwed, researched <- trackResearched, removing <- trackRemoving,
  crashes <- trackCrashes, faults <- trackFaults, ioErrors <- trackIoErrors,
  user <- trackUser
Clock == INSTANCE Scheduler WITH
  Tasks <- Tasks, SetInterval <- TaskInterval, MinInterval <- TaskMinimum,
  FirstRun <- {"backfill"}, MaxFaults <- 1, MaxRestarts <- 1, MaxForced <- 1,
  rows <- clockRows, age <- clockAge, defs <- clockDefs, loop <- clockLoop,
  live <- clockLive, force <- clockForce, bound <- clockBound

trackVars == <<trackSettings, trackClient, trackStaged, trackPlaced, trackDue, trackRecorded,
                trackImports, trackRow, trackLinked, trackGrabs, trackSending,
                trackPoll, trackSeen, trackPolled, trackDrain, trackBatch, trackCur,
                trackMode, trackOwed, trackResearched, trackRemoving, trackCrashes,
                trackFaults, trackIoErrors, trackUser>>
clockVars == <<clockRows, clockAge, clockDefs, clockLoop, clockLive, clockForce, clockBound>>
vars == <<focus, trackVars, clockVars>>

\* A component that rests does so in its initial state.
Init == focus \in Focus /\ Tracking!Init /\ Clock!Init

TrackDownloads ==
  /\ focus = "tracking" /\ Tracking!Next
  /\ UNCHANGED <<focus, clockVars>>
RunTasks ==
  /\ focus = "scheduler" /\ Clock!Next
  /\ UNCHANGED <<focus, trackVars>>
Next == TrackDownloads \/ RunTasks

\* What the scheduling guarantees, in the component that runs: see the fairness of
\* DownloadTracking and of Scheduler.
InTracking(A) == focus = "tracking" /\ A /\ UNCHANGED <<focus, clockVars>>
InClock(A) == focus = "scheduler" /\ A /\ UNCHANGED <<focus, trackVars>>
Spec ==
  /\ Init /\ [][Next]_vars
  /\ WF_vars(InTracking(Tracking!GrabRecord)) /\ WF_vars(InTracking(Tracking!Track))
  /\ WF_vars(InTracking(Tracking!Import)) /\ WF_vars(InClock(Clock!Loop))

(***************************************************************************)
(* Properties.                                                             *)
(***************************************************************************)
\* What a client finished reaches a verdict, and what an import placed in the library is
\* recorded there, in the end and through a crash of the drain (downloads/tracking.py,
\* downloads/imports.py).
ImportsSettle == Tracking!ImportsSettle

\* A failed download is searched for again in the end.
FailedIsResearched == Tracking!FailedIsResearched

\* A task that is due gets its command in the end, also when a tick that was about to reach
\* it was abandoned (commands/scheduler.py).
DueTaskRuns == [](focus = "scheduler" => Clock!TypeOK) /\ Clock!DueTaskRuns
=============================================================================
