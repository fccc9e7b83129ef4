------------------------ MODULE CommandQueue_proofs -------------------------
(***************************************************************************)
(* The safety of the command queue, for every set of commands, pools,      *)
(* groups and bounds.                                                      *)
(***************************************************************************)
EXTENDS CommandQueue, FiniteSetTheorems, TLAPS

(* What a worker holds.  Only a worker that is running or finishing has a   *)
(* job, that job is a started row, and its group is reserved.               *)
Holding ==
  \A w \in Worker :
    /\ job[w] # NoJob <=> pc[w] \in {"running", "finishing"}
    /\ pc[w] = "finishing" => verdict[w] \in Terminal
    /\ job[w] # NoJob => /\ status[job[w]] = "started"
                         /\ Group(job[w]) \in activeGroups \cup {NoGroup}

(* A row has a body, and a process that is down holds nothing.              *)
Bodies == \A i \in Id : status[i] # "absent" => body[i] \in Command
Down   == ~up => (\A w \in Worker : pc[w] = "off")

Inv ==
  /\ TypeOK /\ Bodies /\ Down /\ Holding
  /\ GroupExclusion /\ NoGroupWedged /\ StartedHasOwner

(* The exclusivity group of any row is a configured group or NoGroup.       *)
LEMMA GroupType ==
  ASSUME TypeOK, Bodies, NEW i \in Id, status[i] # "absent"
  PROVE  Group(i) \in Groups \cup {NoGroup}
BY DEF TypeOK, Bodies, Group, Groups

(* The empty tables of a stopped process satisfy the invariant.             *)
LEMMA InitInv == ASSUME Init PROVE Inv
<1>1. TypeOK
  <2>1. history \in [Id -> Seq(Terminal \cup {"interrupted"})]
    BY DEF Init
  <2>2. job \in [Worker -> Id \cup {NoJob}]
    BY DEF Init
  <2>3. prio \in [Id -> Nat] /\ runs \in Nat /\ busy \in Nat
    BY DEF Init
  <2> QED
    BY <2>1, <2>2, <2>3 DEF Init, TypeOK
<1>2. Bodies /\ Down
  BY DEF Init, Bodies, Down
<1>3. Holding /\ GroupExclusion
  BY DEF Init, Holding, GroupExclusion
<1>4. NoGroupWedged /\ StartedHasOwner
  BY DEF Init, NoGroupWedged, StartedHasOwner
<1> QED
  BY <1>1, <1>2, <1>3, <1>4 DEF Inv

(* enqueue touches no worker and no group: a new row is queued.             *)
LEMMA EnqueueInv ==
  ASSUME Inv, NEW c \in Command, NEW p \in Priority, Enqueue(c, p)
  PROVE  Inv'
<1>1. PICK i \in Id :
        /\ status[i] = "absent"
        /\ status' = [status EXCEPT ![i] = "queued"]
        /\ body' = [body EXCEPT ![i] = c]
        /\ prio' = [prio EXCEPT ![i] = p]
  BY DEF Enqueue
<1>2. TypeOK'
  BY <1>1, CommandsAssumption
     DEF Inv, TypeOK, Enqueue, Live, workers, bounds
<1>3. Bodies' /\ Down'
  BY <1>1 DEF Inv, TypeOK, Bodies, Down, Enqueue, workers
<1>4. \A w \in Worker : job[w] # NoJob => job[w] # i /\ Group(job[w])' = Group(job[w])
  BY <1>1 DEF Inv, TypeOK, Holding, Group, Enqueue, workers, NoJob
<1>5. Holding'
  BY <1>1, <1>4 DEF Inv, TypeOK, Holding, Enqueue, workers
<1>6. GroupExclusion' /\ NoGroupWedged'
  BY <1>4 DEF Inv, GroupExclusion, NoGroupWedged, Enqueue, workers
<1>7. StartedHasOwner'
  BY <1>1 DEF Inv, TypeOK, StartedHasOwner, Enqueue, workers
<1> QED
  BY <1>2, <1>3, <1>5, <1>6, <1>7 DEF Inv

(* _claim reserves the group of the row it hands to one worker, and that    *)
(* group was free.                                                          *)
LEMMA ClaimInv ==
  ASSUME Inv, NEW w \in Worker, Claim(w)
  PROVE  Inv'
<1>1. PICK i \in Eligible(PoolOf[w]) :
        /\ status' = [status EXCEPT ![i] = "started"]
        /\ job' = [job EXCEPT ![w] = i]
        /\ activeGroups' = activeGroups \cup ({Group(i)} \ {NoGroup})
  BY DEF Claim
<1>2. i \in Id /\ i # NoJob /\ status[i] = "queued" /\ Group(i) \notin activeGroups
  BY <1>1 DEF Eligible, Scanned, Queued, Id, NoJob
<1>3. Group(i) \in Groups \cup {NoGroup}
  BY <1>2, GroupType DEF Inv
<1>4. pc[w] = "claiming" /\ pc' = [pc EXCEPT ![w] = "running"]
  BY DEF Claim
<1>5. TypeOK'
  BY <1>1, <1>2, <1>3, <1>4 DEF Inv, TypeOK, Claim, Live, bounds
<1>6. Bodies' /\ Down'
  BY <1>1, <1>2, <1>4 DEF Inv, TypeOK, Bodies, Down, Claim
<1>7. \A v \in Worker : job[v] # NoJob => job[v] # i
  BY <1>2 DEF Inv, Holding
<1>8. \A j \in Id : Group(j)' = Group(j)
  BY DEF Claim, Group
<1>9. job[w] = NoJob
  BY <1>4 DEF Inv, Holding
<1>10. Holding'
  BY <1>1, <1>2, <1>4, <1>7, <1>8 DEF Inv, TypeOK, Holding, Claim
<1>11. GroupExclusion'
  BY <1>1, <1>2, <1>7, <1>8 DEF Inv, TypeOK, Holding, GroupExclusion
<1>12. NoGroupWedged'
  BY <1>1, <1>2, <1>8, <1>9 DEF Inv, TypeOK, NoGroupWedged
<1>13. StartedHasOwner'
  BY <1>1, <1>2, <1>9 DEF Inv, TypeOK, StartedHasOwner, Claim, Id, NoJob
<1> QED
  BY <1>5, <1>6, <1>10, <1>11, <1>12, <1>13 DEF Inv

(* A worker that holds nothing moves to another point where it holds        *)
(* nothing: the loop's tests, empty or failed claims, and the back-off.     *)
LEMMA IdlingInv ==
  ASSUME Inv, NEW w \in Worker,
         Poll(w) \/ ClaimNothing(w) \/ ClaimBusy(w) \/ BackoffOver(w)
  PROVE  Inv'
<1>1. pc[w] \in {"idle", "claiming", "backoff"}
  BY DEF Poll, ClaimNothing, ClaimBusy, BackoffOver
<1>2. PICK p \in {"idle", "claiming", "backoff", "done"} :
        pc' = [pc EXCEPT ![w] = p]
  BY DEF Poll, ClaimNothing, ClaimBusy, BackoffOver
<1>3. /\ UNCHANGED <<table, history, up, stopping, activeGroups, job, verdict,
                     abandoned, runs>>
      /\ busy' \in {busy, busy + 1}
  BY DEF Poll, ClaimNothing, ClaimBusy, BackoffOver, bounds
<1>4. TypeOK'
  BY <1>2, <1>3 DEF Inv, TypeOK, table
<1>5. Bodies' /\ Down' /\ Holding'
  BY <1>1, <1>2, <1>3 DEF Inv, TypeOK, Bodies, Down, Holding, Group, table
<1>6. GroupExclusion' /\ NoGroupWedged' /\ StartedHasOwner'
  BY <1>3 DEF Inv, GroupExclusion, NoGroupWedged, StartedHasOwner, Group, table
<1> QED
  BY <1>4, <1>5, <1>6 DEF Inv

(* The end of a handler changes no table, only what its worker will write.  *)
LEMMA HandlerDoneInv ==
  ASSUME Inv, NEW w \in Worker, NEW o \in Terminal, HandlerDone(w, o)
  PROVE  Inv'
<1>1. /\ pc[w] = "running"
      /\ pc' = [pc EXCEPT ![w] = "finishing"]
      /\ verdict' = [verdict EXCEPT ![w] = o]
      /\ UNCHANGED <<table, history, up, stopping, activeGroups, job, abandoned,
                     runs, busy>>
  BY DEF HandlerDone, bounds
<1>2. TypeOK'
  BY <1>1 DEF Inv, TypeOK, table
<1>3. Bodies' /\ Down' /\ Holding'
  BY <1>1 DEF Inv, TypeOK, Bodies, Down, Holding, Group, table
<1>4. GroupExclusion' /\ NoGroupWedged' /\ StartedHasOwner'
  BY <1>1 DEF Inv, GroupExclusion, NoGroupWedged, StartedHasOwner, Group, table
<1> QED
  BY <1>2, <1>3, <1>4 DEF Inv

(* Letting go of a row: no other worker held it or its group.               *)
LEMMA LetGoFacts ==
  ASSUME Inv, NEW w \in Worker, pc[w] = "finishing", LetGo(w),
         body' = body, pc' \in {[pc EXCEPT ![w] = "idle"], [pc EXCEPT ![w] = "backoff"]}
  PROVE  /\ job[w] \in Id /\ status[job[w]] = "started" /\ verdict[w] \in Terminal
         /\ \A v \in Worker : v # w /\ job[v] # NoJob => job[v] # job[w]
         /\ GroupExclusion' /\ NoGroupWedged'
         /\ \A v \in Worker : job'[v] # NoJob =>
              v # w /\ job'[v] = job[v] /\ Group(job[v])' \in activeGroups' \cup {NoGroup}
         /\ \A v \in Worker : (job'[v] # NoJob <=> pc'[v] \in {"running", "finishing"})
         /\ job' \in [Worker -> Id \cup {NoJob}]
         /\ verdict' \in [Worker -> Terminal \cup {"none"}]
         /\ activeGroups' \subseteq Groups
         /\ \A v \in Worker : pc'[v] = "finishing" => verdict'[v] \in Terminal
<1>1. /\ job[w] \in Id /\ job[w] # NoJob
      /\ status[job[w]] = "started" /\ verdict[w] \in Terminal
  BY DEF Inv, TypeOK, Holding
<1>2. /\ job' = [job EXCEPT ![w] = NoJob]
      /\ verdict' = [verdict EXCEPT ![w] = "none"]
      /\ activeGroups' = activeGroups \ {Group(job[w])}
  BY DEF LetGo
<1>3. \A i : Group(i)' = Group(i)
  BY DEF Group
<1>4. \A v \in Worker : v # w /\ job[v] # NoJob =>
        job[v] # job[w] /\ (Group(job[v]) = Group(job[w]) => Group(job[v]) = NoGroup)
  BY <1>1 DEF Inv, GroupExclusion
<1>5. GroupExclusion'
  BY <1>2, <1>3 DEF Inv, TypeOK, GroupExclusion
<1>6. NoGroupWedged'
  BY <1>2, <1>3 DEF Inv, TypeOK, NoGroupWedged
<1>7. \A v \in Worker : job'[v] # NoJob =>
        v # w /\ job'[v] = job[v] /\ Group(job[v])' \in activeGroups' \cup {NoGroup}
  BY <1>2, <1>3, <1>4 DEF Inv, TypeOK, Holding
<1>8. \A v \in Worker : (job'[v] # NoJob <=> pc'[v] \in {"running", "finishing"})
  BY <1>1, <1>2 DEF Inv, TypeOK, Holding
<1>9. \A v \in Worker : pc'[v] = "finishing" => verdict'[v] \in Terminal
  BY <1>2 DEF Inv, TypeOK, Holding
<1>10. /\ job' \in [Worker -> Id \cup {NoJob}]
       /\ verdict' \in [Worker -> Terminal \cup {"none"}]
       /\ activeGroups' \subseteq Groups
  BY <1>2 DEF Inv, TypeOK
<1> QED
  BY <1>1, <1>4, <1>5, <1>6, <1>7, <1>8, <1>9, <1>10

(* The terminal write settles the row and releases its group in one step.   *)
LEMMA FinishInv ==
  ASSUME Inv, NEW w \in Worker, Finish(w)
  PROVE  Inv'
<1>1. /\ pc[w] = "finishing"
      /\ status' = [status EXCEPT ![job[w]] = verdict[w]]
      /\ history' = [history EXCEPT ![job[w]] = Append(@, verdict[w])]
      /\ pc' = [pc EXCEPT ![w] = "idle"]
      /\ LetGo(w)
      /\ UNCHANGED <<body, prio, up, stopping, abandoned, runs, busy>>
  BY DEF Finish, bounds
<1>2. /\ job[w] \in Id /\ status[job[w]] = "started" /\ verdict[w] \in Terminal
      /\ \A v \in Worker : v # w /\ job[v] # NoJob => job[v] # job[w]
      /\ GroupExclusion' /\ NoGroupWedged'
      /\ \A v \in Worker : job'[v] # NoJob =>
           v # w /\ job'[v] = job[v] /\ Group(job[v])' \in activeGroups' \cup {NoGroup}
      /\ \A v \in Worker : (job'[v] # NoJob <=> pc'[v] \in {"running", "finishing"})
      /\ job' \in [Worker -> Id \cup {NoJob}]
      /\ verdict' \in [Worker -> Terminal \cup {"none"}]
      /\ activeGroups' \subseteq Groups
      /\ \A v \in Worker : pc'[v] = "finishing" => verdict'[v] \in Terminal
  BY <1>1, LetGoFacts
<1>3. history' \in [Id -> Seq(Terminal \cup {"interrupted"})]
  BY <1>1, <1>2 DEF Inv, TypeOK
<1>4. TypeOK'
  BY <1>1, <1>2, <1>3 DEF Inv, TypeOK
<1>5. Bodies' /\ Down'
  BY <1>1, <1>2 DEF Inv, TypeOK, Bodies, Down
<1>6. Holding'
  BY <1>1, <1>2 DEF Inv, TypeOK, Holding
<1>7. StartedHasOwner'
  BY <1>1, <1>2 DEF Inv, TypeOK, StartedHasOwner, LetGo, Terminal
<1> QED
  BY <1>2, <1>4, <1>5, <1>6, <1>7 DEF Inv

(* A terminal write given up on releases the group and abandons the row.    *)
LEMMA FinishBusyInv ==
  ASSUME Inv, NEW w \in Worker, FinishBusy(w)
  PROVE  Inv'
<1>1. /\ pc[w] = "finishing"
      /\ pc' = [pc EXCEPT ![w] = "backoff"]
      /\ abandoned' = abandoned \cup {job[w]}
      /\ busy' = busy + 1
      /\ LetGo(w)
      /\ UNCHANGED <<status, body, prio, history, up, stopping, runs>>
  BY DEF FinishBusy, table
<1>2. /\ job[w] \in Id
      /\ GroupExclusion' /\ NoGroupWedged'
      /\ \A v \in Worker : job'[v] # NoJob =>
           v # w /\ job'[v] = job[v] /\ Group(job[v])' \in activeGroups' \cup {NoGroup}
      /\ \A v \in Worker : (job'[v] # NoJob <=> pc'[v] \in {"running", "finishing"})
      /\ job' \in [Worker -> Id \cup {NoJob}]
      /\ verdict' \in [Worker -> Terminal \cup {"none"}]
      /\ activeGroups' \subseteq Groups
      /\ \A v \in Worker : pc'[v] = "finishing" => verdict'[v] \in Terminal
  BY <1>1, LetGoFacts
<1>3. TypeOK'
  <2>1. abandoned' \subseteq Id /\ busy' \in Nat
    BY <1>1, <1>2 DEF Inv, TypeOK
  <2>2. pc' \in [Worker -> {"off", "idle", "claiming", "running", "finishing",
                            "backoff", "done"}]
    BY <1>1 DEF Inv, TypeOK
  <2> QED
    BY <1>1, <1>2, <2>1, <2>2 DEF Inv, TypeOK
<1>4. Bodies' /\ Down' /\ Holding'
  BY <1>1, <1>2 DEF Inv, TypeOK, Bodies, Down, Holding
<1>5. StartedHasOwner'
  BY <1>1, <1>2 DEF Inv, TypeOK, StartedHasOwner, LetGo
<1> QED
  BY <1>2, <1>3, <1>4, <1>5 DEF Inv

(* Orphan recovery leaves no started row for the new workers to find.       *)
LEMMA StartInv ==
  ASSUME Inv, Start
  PROVE  Inv'
<1>1. \A w \in Worker : job[w] = NoJob /\ job'[w] = NoJob /\ pc'[w] = "idle"
  BY DEF Inv, Down, Holding, Start
<1>2. \A i \in Id : status'[i] # "started" /\ (status'[i] = "absent" <=> status[i] = "absent")
  BY DEF Start
<1>3. history' \in [Id -> Seq(Terminal \cup {"interrupted"})]
  BY DEF Inv, TypeOK, Start
<1>4. TypeOK'
  <2>1. status' \in [Id -> {"absent"} \cup Live \cup Terminal]
    BY DEF Inv, TypeOK, Start, Live
  <2>2. pc' \in [Worker -> {"off", "idle", "claiming", "running", "finishing",
                            "backoff", "done"}]
    BY DEF Start
  <2>3. runs' \in Nat
    BY DEF Inv, TypeOK, Start
  <2>4. /\ up' \in BOOLEAN /\ stopping' \in BOOLEAN
        /\ UNCHANGED <<body, prio, activeGroups, job, verdict, abandoned, busy>>
    BY DEF Start
  <2> QED
    BY <1>3, <2>1, <2>2, <2>3, <2>4 DEF Inv, TypeOK
<1>5. Bodies' /\ Down' /\ StartedHasOwner'
  BY <1>2 DEF Inv, Bodies, Down, StartedHasOwner, Start
<1>6. Holding' /\ GroupExclusion'
  BY <1>1 DEF Holding, GroupExclusion
<1>7. NoGroupWedged'
  BY <1>1 DEF Inv, NoGroupWedged, Start
<1> QED
  BY <1>4, <1>5, <1>6, <1>7 DEF Inv

(* The stop signal changes nothing but _stopping.                           *)
LEMMA BeginDrainInv ==
  ASSUME Inv, BeginDrain
  PROVE  Inv'
BY DEF Inv, BeginDrain, TypeOK, Bodies, Down, Holding, GroupExclusion,
       NoGroupWedged, StartedHasOwner, Group, table, workers, bounds

(* Cancelling every worker abandons the rows they held and frees their      *)
(* groups.                                                                  *)
LEMMA DrainExpireInv ==
  ASSUME Inv, DrainExpire
  PROVE  Inv'
<1> DEFINE Held == {job[w] : w \in {v \in Worker : job[v] # NoJob}}
<1>1. /\ up /\ abandoned' = abandoned \cup Held
      /\ pc' = [w \in Worker |-> "done"]
      /\ job' = [w \in Worker |-> NoJob]
      /\ verdict' = [w \in Worker |-> "none"]
      /\ activeGroups' = activeGroups \ {Group(job[w]) : w \in {v \in Worker : job[v] # NoJob}}
      /\ UNCHANGED <<status, body, prio, history, up, stopping, runs, busy>>
  BY DEF DrainExpire, table, bounds
<1>2. Held \subseteq Id
  BY DEF Inv, TypeOK
<1>3. activeGroups' = {}
  BY <1>1 DEF Inv, NoGroupWedged
<1>4. TypeOK'
  BY <1>1, <1>2, <1>3 DEF Inv, TypeOK
<1>5. Bodies' /\ Down' /\ Holding' /\ GroupExclusion'
  BY <1>1 DEF Inv, Bodies, Down, Holding, GroupExclusion
<1>6. NoGroupWedged'
  BY <1>3 DEF NoGroupWedged
<1>7. StartedHasOwner'
  <2>1. \A i \in Id, w \in Worker : job[w] = i => i \in Held
    BY DEF Id, NoJob
  <2> QED
    BY <1>1, <2>1 DEF Inv, StartedHasOwner
<1> QED
  BY <1>4, <1>5, <1>6, <1>7 DEF Inv

(* What a dead process leaves satisfies the invariant.                      *)
LEMMA ProcessGoneInv ==
  ASSUME Inv, ProcessGone
  PROVE  Inv'
<1>1. TypeOK'
  BY DEF Inv, TypeOK, ProcessGone, table, bounds
<1>2. Bodies' /\ Down' /\ Holding' /\ GroupExclusion' /\ NoGroupWedged' /\ StartedHasOwner'
  BY DEF Inv, ProcessGone, Bodies, Down, Holding, GroupExclusion, NoGroupWedged,
         StartedHasOwner, table
<1> QED
  BY <1>1, <1>2 DEF Inv

(* A step that changes no variable keeps the invariant.                     *)
LEMMA StutterInv ==
  ASSUME Inv, UNCHANGED vars
  PROVE  Inv'
BY DEF Inv, vars, TypeOK, Bodies, Down, Holding, GroupExclusion, NoGroupWedged,
       StartedHasOwner, Group

(* Every step of the queue keeps the invariant.                             *)
LEMMA NextInv ==
  ASSUME Inv, [Next]_vars
  PROVE  Inv'
<1>1. ASSUME NEW c \in Command, NEW p \in Priority, Enqueue(c, p) PROVE Inv'
  BY <1>1, EnqueueInv
<1>2. ASSUME NEW w \in Worker, LoopStep(w) PROVE Inv'
  BY <1>2, ClaimInv, IdlingInv, FinishInv, FinishBusyInv DEF LoopStep
<1>3. ASSUME NEW w \in Worker, HandlerStep(w) PROVE Inv'
  BY <1>3, HandlerDoneInv DEF HandlerStep
<1>4. CASE Start
  BY <1>4, StartInv
<1>5. CASE BeginDrain
  BY <1>5, BeginDrainInv
<1>6. CASE DrainExpire
  BY <1>6, DrainExpireInv
<1>7. CASE Exit \/ Crash
  BY <1>7, ProcessGoneInv DEF Exit, Crash
<1>8. CASE UNCHANGED vars
  BY <1>8, StutterInv
<1> QED
  BY <1>1, <1>2, <1>3, <1>4, <1>5, <1>6, <1>7, <1>8 DEF Next

(* The inductive invariant holds of every reachable state.                  *)
THEOREM Invariance == Spec => []Inv
<1>1. Init => Inv
  BY InitInv
<1>2. Inv /\ [Next]_vars => Inv'
  BY NextInv
<1> QED
  BY <1>1, <1>2, PTL DEF Spec

(* Types are right, exclusivity groups never overlap, no group stays        *)
(* reserved without a holder, and no started row is forgotten.              *)
THEOREM TypeCorrect == Spec => []TypeOK
BY Invariance, PTL DEF Inv

(* Handlers of one exclusivity group never overlap (FRG-SCHED-004).         *)
THEOREM GroupsExclude == Spec => []GroupExclusion
BY Invariance, PTL DEF Inv

(* A reserved group always has a worker that will release it.               *)
THEOREM NoWedge == Spec => []NoGroupWedged
BY Invariance, PTL DEF Inv

(* No started row is forgotten while the process runs.                      *)
THEOREM StartedOwned == Spec => []StartedHasOwner
BY Invariance, PTL DEF Inv

-----------------------------------------------------------------------------
(* What each step does to the two tables, seen from the rows alone.         *)
RowInserted == \E i \in Id, c \in Command :
  /\ status[i] = "absent"
  /\ \A j \in Id : body[j] = c => status[j] \notin Live
  /\ status' = [status EXCEPT ![i] = "queued"]
  /\ body' = [body EXCEPT ![i] = c]
  /\ history' = history

RowStarted == \E i \in Id :
  /\ status[i] = "queued"
  /\ status' = [status EXCEPT ![i] = "started"]
  /\ UNCHANGED <<body, history>>

RowFinished == \E i \in Id, o \in Terminal :
  /\ status[i] = "started"
  /\ status' = [status EXCEPT ![i] = o]
  /\ history' = [history EXCEPT ![i] = Append(@, o)]
  /\ UNCHANGED body

RowsRecovered ==
  /\ status' = [i \in Id |-> IF status[i] = "started" THEN "queued" ELSE status[i]]
  /\ history' = [i \in Id |-> IF status[i] = "started"
                                THEN Append(history[i], "interrupted")
                                ELSE history[i]]
  /\ UNCHANGED body

(* What a step may do to the commands table and to job_history, in one      *)
(* place.                                                                   *)
LEMMA RowSteps ==
  ASSUME Inv, [Next]_vars
  PROVE  RowInserted \/ RowStarted \/ RowFinished \/ RowsRecovered
         \/ UNCHANGED <<status, body, history>>
<1>1. ASSUME NEW c \in Command, NEW p \in Priority, Enqueue(c, p) PROVE RowInserted
  BY <1>1 DEF Enqueue, RowInserted
<1>2. ASSUME NEW w \in Worker, Claim(w) PROVE RowStarted
  BY <1>2 DEF Claim, Eligible, Scanned, Queued, RowStarted
<1>3. ASSUME NEW w \in Worker, Finish(w) PROVE RowFinished
  <2>1. job[w] \in Id /\ status[job[w]] = "started" /\ verdict[w] \in Terminal
    BY <1>3 DEF Inv, TypeOK, Holding, Finish
  <2> QED
    BY <1>3, <2>1 DEF Finish, RowFinished
<1>4. ASSUME NEW w \in Worker, LoopStep(w) \/ HandlerStep(w), ~Claim(w), ~Finish(w)
      PROVE  UNCHANGED <<status, body, history>>
  BY <1>4 DEF LoopStep, HandlerStep, Poll, ClaimNothing, ClaimBusy, HandlerDone,
              FinishBusy, BackoffOver, table
<1>5. Start => RowsRecovered
  BY DEF Start, RowsRecovered
<1>6. BeginDrain \/ DrainExpire \/ Exit \/ Crash \/ UNCHANGED vars
        => UNCHANGED <<status, body, history>>
  BY DEF BeginDrain, DrainExpire, Exit, Crash, ProcessGone, table, vars
<1> QED
  BY <1>1, <1>2, <1>3, <1>4, <1>5, <1>6 DEF Next

(* No step makes two live rows of one body.                                 *)
LEMMA DedupStep ==
  ASSUME Inv, DedupLive, [Next]_vars
  PROVE  DedupLive'
<1>1. CASE RowInserted
  BY <1>1 DEF Inv, TypeOK, RowInserted, DedupLive, Live
<1>2. CASE RowStarted
  BY <1>2 DEF Inv, TypeOK, RowStarted, DedupLive, Live
<1>3. CASE RowFinished
  BY <1>3 DEF Inv, TypeOK, RowFinished, DedupLive, Live, Terminal
<1>4. CASE RowsRecovered
  BY <1>4 DEF RowsRecovered, DedupLive, Live
<1>5. CASE UNCHANGED <<status, body, history>>
  BY <1>5 DEF DedupLive
<1> QED
  BY <1>1, <1>2, <1>3, <1>4, <1>5, RowSteps

(* At most one live row per command body, through claims, failures, drains  *)
(* and recoveries (FRG-SCHED-003).                                          *)
THEOREM Dedup == Spec => []DedupLive
<1>1. Init => DedupLive
  BY DEF Init, DedupLive, Live
<1>2. Inv /\ DedupLive /\ [Next]_vars => DedupLive'
  BY DedupStep
<1> QED
  BY <1>1, <1>2, Invariance, PTL DEF Spec

(* Entry k of a longer history is an old entry or the new one.              *)
LEMMA AppendEntries ==
  ASSUME NEW S, NEW h \in Seq(S), NEW e \in S
  PROVE  /\ Len(Append(h, e)) = Len(h) + 1
         /\ Append(h, e)[Len(h) + 1] = e
         /\ \A k \in 1 .. Len(h) : Append(h, e)[k] = h[k]
         /\ Append(h, e) # << >>
OBVIOUS

(* No step breaks the agreement of job_history with the commands table.     *)
LEMMA HistoryStep ==
  ASSUME Inv, HistoryMatchesRow, [Next]_vars
  PROVE  HistoryMatchesRow'
<1> DEFINE Outcome == Terminal \cup {"interrupted"}
           Matches(s, h) ==
             /\ \A k \in 1 .. Len(h) : h[k] \in Terminal => k = Len(h) /\ s = h[k]
             /\ s \in Terminal => h # << >> /\ h[Len(h)] = s
<1>1. history \in [Id -> Seq(Outcome)] /\ status \in [Id -> {"absent"} \cup Live \cup Terminal]
  BY DEF Inv, TypeOK
<1>2. \A i \in Id : Matches(status[i], history[i])
  BY DEF HistoryMatchesRow
<1>3. ASSUME NEW h \in Seq(Outcome), NEW o \in Terminal, Matches("started", h)
      PROVE  Matches(o, Append(h, o))
  <2>1. o \in Outcome
    OBVIOUS
  <2>2. "started" \notin Terminal
    BY DEF Terminal
  <2> QED
    BY <1>3, <2>1, <2>2, AppendEntries
<1>4. ASSUME NEW h \in Seq(Outcome), Matches("started", h)
      PROVE  Matches("queued", Append(h, "interrupted"))
  <2>1. "interrupted" \in Outcome /\ "interrupted" \notin Terminal
        /\ "started" \notin Terminal /\ "queued" \notin Terminal
    BY DEF Terminal
  <2> QED
    BY <1>4, <2>1, AppendEntries
<1>5. \A i \in Id : Matches(status'[i], history'[i])
  <2>1. CASE RowInserted
    BY <1>1, <1>2, <2>1 DEF RowInserted, Terminal
  <2>2. CASE RowStarted
    BY <1>1, <1>2, <2>2 DEF RowStarted, Terminal
  <2>3. CASE RowFinished
    <3>1. PICK i \in Id, o \in Terminal :
            /\ status[i] = "started"
            /\ status' = [status EXCEPT ![i] = o]
            /\ history' = [history EXCEPT ![i] = Append(@, o)]
      BY <2>3 DEF RowFinished
    <3>2. Matches(o, Append(history[i], o))
      <4>1. history[i] \in Seq(Outcome) /\ Matches("started", history[i])
        BY <1>1, <1>2, <3>1
      <4> HIDE DEF Outcome, Matches
      <4> QED
        BY <1>3, <4>1
    <3>3. status'[i] = o /\ history'[i] = Append(history[i], o)
      BY <1>1, <3>1
    <3>4. \A j \in Id : j # i => status'[j] = status[j] /\ history'[j] = history[j]
      BY <1>1, <3>1
    <3> HIDE DEF Matches
    <3>5. ASSUME NEW j \in Id PROVE Matches(status'[j], history'[j])
      <4>1. CASE j = i
        BY <3>2, <3>3, <4>1
      <4>2. CASE j # i
        <5>1. status'[j] = status[j] /\ history'[j] = history[j]
          BY <3>4, <4>2
        <5>2. Matches(status[j], history[j])
          BY <1>2
        <5> QED
          BY <5>1, <5>2
      <4> QED
        BY <4>1, <4>2
    <3> QED
      BY <3>5
  <2>4. CASE RowsRecovered
    <3> HIDE DEF Matches
    <3>1. ASSUME NEW i \in Id PROVE Matches(status'[i], history'[i])
      <4>1. history[i] \in Seq(Outcome) /\ Matches(status[i], history[i])
        BY <1>1, <1>2
      <4>2. CASE status[i] = "started"
        <5>1. status'[i] = "queued" /\ history'[i] = Append(history[i], "interrupted")
          BY <2>4, <4>2 DEF RowsRecovered
        <5>2. Matches("started", history[i])
          BY <4>1, <4>2
        <5>3. Matches("queued", Append(history[i], "interrupted"))
          BY <1>4, <4>1, <5>2
        <5> QED
          BY <5>1, <5>3
      <4>3. CASE status[i] # "started"
        <5>1. status'[i] = status[i] /\ history'[i] = history[i]
          BY <2>4, <4>3 DEF RowsRecovered
        <5> QED
          BY <4>1, <5>1
      <4> QED
        BY <4>2, <4>3
    <3> QED
      BY <3>1
  <2>5. CASE UNCHANGED <<status, body, history>>
    BY <1>2, <2>5
  <2> QED
    BY <2>1, <2>2, <2>3, <2>4, <2>5, RowSteps
<1> QED
  BY <1>5 DEF HistoryMatchesRow

(* job_history never records a second end of a command, nor an end the row  *)
(* does not show.                                                           *)
THEOREM HistoryTrue == Spec => []HistoryMatchesRow
<1>1. Init => HistoryMatchesRow
  BY DEF Init, HistoryMatchesRow, Terminal
<1>2. Inv /\ HistoryMatchesRow /\ [Next]_vars => HistoryMatchesRow'
  BY HistoryStep
<1> QED
  BY <1>1, <1>2, Invariance, PTL DEF Spec

-----------------------------------------------------------------------------
(* The empty tables map to the empty ledger.                                *)
LEMMA LedgerInit == ASSUME Init PROVE Ledger!Init
BY DEF Init, Ledger!Init, Phase

(* Every step of the queue is a step of the ledger, or changes nothing in   *)
(* it.                                                                      *)
LEMMA LedgerStep ==
  ASSUME Inv, [Next]_vars
  PROVE  [Ledger!Next]_Ledger!ledger
<1>1. CASE RowInserted
  <2>1. PICK i \in Id, c \in Command :
          /\ status[i] = "absent"
          /\ \A j \in Id : body[j] = c => status[j] \notin Live
          /\ status' = [status EXCEPT ![i] = "queued"]
          /\ body' = [body EXCEPT ![i] = c]
          /\ history' = history
    BY <1>1 DEF RowInserted
  <2>2. \A j \in Id : Ledger!Alive(j) => body[j] # c
    BY <2>1 DEF Ledger!Alive, Phase, Live, Inv, TypeOK, Terminal
  <2>3. Ledger!Submit(i, c)
    BY <2>1, <2>2 DEF Ledger!Submit, Phase, Inv, TypeOK
  <2> QED
    BY <2>3 DEF Ledger!Next
<1>2. CASE RowStarted
  <2>1. PICK i \in Id : /\ status[i] = "queued"
                        /\ status' = [status EXCEPT ![i] = "started"]
                        /\ UNCHANGED <<body, history>>
    BY <1>2 DEF RowStarted
  <2>2. Ledger!Begin(i)
    BY <2>1 DEF Ledger!Begin, Phase, Inv, TypeOK
  <2> QED
    BY <2>2 DEF Ledger!Next
<1>3. CASE RowFinished
  <2>1. PICK i \in Id, o \in Terminal :
          /\ status[i] = "started"
          /\ status' = [status EXCEPT ![i] = o]
          /\ history' = [history EXCEPT ![i] = Append(@, o)]
          /\ UNCHANGED body
    BY <1>3 DEF RowFinished
  <2>2. Ledger!End(i)
    <3>1. \A j \in Id : Len(history'[j]) = IF j = i THEN Len(history[j]) + 1
                                                  ELSE Len(history[j])
      BY <2>1, AppendEntries DEF Inv, TypeOK
    <3>2. \A j \in Id : Phase(j)' = IF j = i THEN "done" ELSE Phase(j)
      BY <2>1 DEF Phase, Terminal, Inv, TypeOK
    <3>3. Phase(i) = "active"
      BY <2>1 DEF Phase
    <3> QED
      BY <2>1, <3>1, <3>2, <3>3 DEF Ledger!End
  <2> QED
    BY <2>2 DEF Ledger!Next
<1>4. CASE RowsRecovered
  <2>1. \A j \in Id : Len(history'[j]) = IF Phase(j) = "active" THEN Len(history[j]) + 1
                                                  ELSE Len(history[j])
    BY <1>4, AppendEntries DEF RowsRecovered, Phase, Inv, TypeOK
  <2>2. \A j \in Id : Phase(j)' = IF Phase(j) = "active" THEN "waiting" ELSE Phase(j)
    BY <1>4 DEF RowsRecovered, Phase, Inv, TypeOK
  <2>3. Ledger!Reclaim
    BY <1>4, <2>1, <2>2 DEF Ledger!Reclaim, RowsRecovered
  <2> QED
    BY <2>3 DEF Ledger!Next
<1>5. CASE UNCHANGED <<status, body, history>>
  BY <1>5 DEF Ledger!ledger, Phase
<1> QED
  BY <1>1, <1>2, <1>3, <1>4, <1>5, RowSteps

-----------------------------------------------------------------------------
(* The order of the claims.  Rows that come before an unscanned row are few *)
(* exactly as the cardinalities of their sets say.                          *)
Ahead(i, c) == {j \in Queued(c) : Before(j, i)}

LEMMA AheadFinite ==
  ASSUME TypeOK, NEW i \in Id, NEW c
  PROVE  /\ IsFiniteSet(Ahead(i, c)) /\ Cardinality(Ahead(i, c)) \in Nat
         /\ Cardinality(Ahead(i, c)) < MaxCommands
<1>1. IsFiniteSet(Id) /\ Cardinality(Id) = MaxCommands /\ MaxCommands \in Nat
  BY BoundsAssumption, FS_Interval DEF Id
<1>2. i \notin Ahead(i, c)
  BY DEF Ahead, Before, Id, TypeOK
<1>3. Ahead(i, c) \in SUBSET (Id \ {i})
  BY <1>2 DEF Ahead, Queued
<1>4. IsFiniteSet(Id \ {i}) /\ Cardinality(Id \ {i}) = MaxCommands - 1
  BY <1>1, FS_RemoveElement
<1> HIDE DEF Id
<1>5. IsFiniteSet(Ahead(i, c)) /\ Cardinality(Ahead(i, c)) <= MaxCommands - 1
  BY <1>3, <1>4, FS_Subset
<1> QED
  BY <1>1, <1>5, FS_CardinalityType

(* Whatever comes before a scanned row is scanned too.                      *)
LEMMA ScannedDownwards ==
  ASSUME TypeOK, NEW c, NEW i \in Queued(c), NEW j \in Scanned(c), Before(i, j)
  PROVE  i \in Scanned(c)
<1>1. i \in Id /\ j \in Id /\ prio[i] \in Nat /\ prio[j] \in Nat
  BY DEF TypeOK, Queued, Scanned
<1>2. \A k \in Id : Before(k, i) => Before(k, j)
  BY <1>1 DEF Before, TypeOK, Id
<1>3. Ahead(i, c) \in SUBSET Ahead(j, c)
  BY <1>2 DEF Ahead, Queued
<1>4. Cardinality(Ahead(i, c)) <= Cardinality(Ahead(j, c))
  BY <1>1, <1>3, AheadFinite, FS_Subset
<1>5. Cardinality(Ahead(j, c)) < ScanLimit
  BY DEF Scanned, Ahead
<1>6. Cardinality(Ahead(i, c)) < ScanLimit
  BY <1>1, <1>4, <1>5, AheadFinite, BoundsAssumption
<1> QED
  BY <1>6 DEF Scanned, Ahead

(* Only a claim starts a queued row.                                        *)
LEMMA OnlyClaimsStart ==
  ASSUME Inv, [Next]_vars, NEW j \in Id, status[j] = "queued", status'[j] = "started"
  PROVE  \E w \in Worker : Claim(w)
<1>1. ASSUME NEW c \in Command, NEW p \in Priority, Enqueue(c, p) PROVE FALSE
  BY <1>1 DEF Enqueue, Inv, TypeOK
<1>2. ASSUME NEW w \in Worker, Finish(w) PROVE FALSE
  <2>1. job[w] \in Id /\ job[w] # NoJob /\ verdict[w] \in Terminal
    BY <1>2 DEF Finish, Inv, Holding, TypeOK, NoJob
  <2> QED
    BY <1>2, <2>1 DEF Finish, Inv, TypeOK, Terminal
<1>3. ASSUME NEW w \in Worker,
             Poll(w) \/ ClaimNothing(w) \/ ClaimBusy(w) \/ FinishBusy(w)
               \/ BackoffOver(w) \/ HandlerStep(w)
      PROVE  FALSE
  BY <1>3 DEF Poll, ClaimNothing, ClaimBusy, FinishBusy, BackoffOver, HandlerStep, HandlerDone,
              table
<1>4. ASSUME Start PROVE FALSE
  BY <1>4 DEF Start, Inv, TypeOK
<1>5. ASSUME BeginDrain \/ DrainExpire \/ Exit \/ Crash PROVE FALSE
  BY <1>5 DEF BeginDrain, DrainExpire, Exit, Crash, ProcessGone, table
<1>6. ASSUME UNCHANGED vars PROVE FALSE
  BY <1>6 DEF vars
<1> QED
  BY <1>1, <1>2, <1>3, <1>4, <1>5, <1>6 DEF Next, LoopStep

(* A row of a group that a claim may take from is itself eligible, so the   *)
(* claim takes it before any younger or less urgent one of its group.       *)
LEMMA OvertakingStep ==
  ASSUME Inv, [Next]_vars, NEW i \in Id, NEW j \in Id,
         status[i] = "queued", status[j] = "queued",
         Class(i) = Class(j), Group(i) = Group(j), Before(i, j),
         status'[i] = "queued", status'[j] = "started"
  PROVE  FALSE
<1>1. PICK w \in Worker : Claim(w)
  BY OnlyClaimsStart
<1>2. PICK k \in Eligible(PoolOf[w]) :
        /\ \A l \in Eligible(PoolOf[w]) : l # k => Before(k, l)
        /\ status' = [status EXCEPT ![k] = "started"]
  BY <1>1 DEF Claim
<1>3. k = j
  BY <1>2 DEF Eligible, Scanned, Queued, Inv, TypeOK
<1>4. j \in Scanned(PoolOf[w]) /\ Group(j) \notin activeGroups /\ i \in Queued(PoolOf[w])
  BY <1>2, <1>3 DEF Eligible, Scanned, Queued
<1>5. i \in Eligible(PoolOf[w])
  BY <1>4, ScannedDownwards DEF Eligible, Inv
<1>6. i # j
  BY DEF Before, Id
<1>7. Before(j, i)
  BY <1>2, <1>3, <1>5, <1>6
<1> QED
  BY <1>7 DEF Before, Inv, TypeOK, Id

(* Commands of one class and group start in order, whatever the scan limit. *)
THEOREM NothingOvertakes == Spec => NoOvertaking
<1>1. Inv /\ [Next]_vars =>
        [\A i, j \in Id :
           /\ status[i] = "queued" /\ status[j] = "queued"
           /\ Class(i) = Class(j) /\ Group(i) = Group(j)
           /\ Before(i, j)
           => ~(status'[i] = "queued" /\ status'[j] = "started")]_vars
  BY OvertakingStep
<1> QED
  BY <1>1, Invariance, PTL DEF Spec, NoOvertaking

(* A claim that comes back empty saw every queued row of its class when     *)
(* they all fit in the scan.                                                *)
LEMMA EmptyClaimStep ==
  ASSUME Inv, [Next]_vars, MaxCommands <= ScanLimit, NEW w \in Worker,
         pc[w] = "claiming", pc'[w] = "idle", NEW i \in Queued(PoolOf[w])
  PROVE  Group(i) \in activeGroups
<1>1. ClaimNothing(w)
  <2>1. ASSUME NEW c \in Command, NEW p \in Priority, Enqueue(c, p) PROVE FALSE
    BY <2>1 DEF Enqueue, workers
  <2>2. ASSUME NEW v \in Worker,
               Poll(v) \/ Claim(v) \/ ClaimBusy(v) \/ Finish(v) \/ FinishBusy(v)
                 \/ BackoffOver(v) \/ HandlerStep(v)
        PROVE  FALSE
    BY <2>2 DEF Poll, Claim, ClaimBusy, Finish, FinishBusy, BackoffOver, HandlerStep,
                HandlerDone, Inv, TypeOK
  <2>3. ASSUME NEW v \in Worker, ClaimNothing(v) PROVE v = w
    BY <2>3 DEF ClaimNothing, Inv, TypeOK
  <2>4. ASSUME Start PROVE FALSE
    BY <2>4 DEF Start, Inv, Down
  <2>5. ASSUME BeginDrain \/ DrainExpire \/ Exit \/ Crash PROVE FALSE
    BY <2>5 DEF BeginDrain, DrainExpire, Exit, Crash, ProcessGone, workers
  <2>6. ASSUME UNCHANGED vars PROVE FALSE
    BY <2>6 DEF vars
  <2> QED
    BY <2>1, <2>2, <2>3, <2>4, <2>5, <2>6 DEF Next, LoopStep
<1>2. i \in Id
  BY DEF Queued
<1>3. Cardinality(Ahead(i, PoolOf[w])) < ScanLimit
  BY <1>2, AheadFinite, BoundsAssumption DEF Inv
<1>4. i \in Scanned(PoolOf[w])
  BY <1>3 DEF Scanned, Ahead
<1> QED
  BY <1>1, <1>4 DEF ClaimNothing, Eligible

(* As long as the queue fits in the scan, a group blocks only its own       *)
(* commands, and what runs next is the oldest of the most urgent.           *)
THEOREM OrderKept ==
  ASSUME MaxCommands <= ScanLimit
  PROVE  Spec => Ordered
<1>1. Inv /\ [Next]_vars =>
        [\A w \in Worker :
           pc[w] = "claiming" /\ pc'[w] = "idle" =>
             \A i \in Queued(PoolOf[w]) : Group(i) \in activeGroups]_vars
  BY EmptyClaimStep
<1>2. Spec => BlocksOnlyItsGroup
  BY <1>1, Invariance, PTL DEF Spec, BlocksOnlyItsGroup
<1> QED
  BY <1>2, NothingOvertakes DEF Ordered

(* The table, the history, the workers and the groups agree.                *)
THEOREM QueueIsSound == Spec => []QueueSound
BY TypeCorrect, Dedup, GroupsExclude, NoWedge, StartedOwned, HistoryTrue, PTL DEF QueueSound

(* The worker pools, their in-memory groups and the process's deaths        *)
(* implement the abstract ledger of jobs.                                   *)
THEOREM Implementation == Spec => ImplementsLedger
<1>1. Init => Ledger!Init
  BY LedgerInit
<1>2. Inv /\ [Next]_vars => [Ledger!Next]_Ledger!ledger
  BY LedgerStep
<1> QED
  BY <1>1, <1>2, Invariance, PTL DEF Spec, ImplementsLedger, Ledger!Spec
=============================================================================
