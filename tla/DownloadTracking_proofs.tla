----------------------- MODULE DownloadTracking_proofs -----------------------
(***************************************************************************)
(* For any downloads, issues, settings, crashes and faults: what a client  *)
(* finished stays on disk until somebody discards it, what counts as       *)
(* imported is recorded, a claimed row is its drain's own, no download is  *)
(* imported twice and no refresh invents a failure.                        *)
(***************************************************************************)
EXTENDS DownloadTracking, FiniteSetTheorems, TLAPS

(* A busy drain works on a download.                                        *)
Working == drain # "idle" => cur \in Download

Types == TypeOK /\ Working

LEMMA TypesInit == ASSUME Init PROVE Types
<1> USE TrackingAssumption DEF Init
<1>1. drain = "idle"
  OBVIOUS
<1>2. /\ client \in [Download -> {"unsent", "gone"} \cup Holding]
      /\ row \in [Download -> Claimable \cup {"absent", "downloading", "import_blocked",
                                             "imported", "failed_pending", "failed"}]
      /\ seen \in [Download -> {"none"} \cup Holding] /\ imports \in [Download -> Nat]
  BY DEF Unseen
<1>3. owed \in [{"track", "pp"} -> SUBSET Download]
  OBVIOUS
<1>4. /\ crashes \in 0..MaxCrashes /\ faults \in 0..MaxFaults
      /\ ioErrors \in 0..MaxIoErrors /\ user \in 0..MaxUser
  OBVIOUS
<1> QED
  BY <1>1, <1>2, <1>3, <1>4 DEF Types, TypeOK, Working

(* A page holds jobs the client has, and all of them if they fit.           *)
LEMMA PageOfJobs ==
  ASSUME NEW jobs, NEW page \in Page(jobs)
  PROVE  /\ page \subseteq jobs
         /\ Cardinality(jobs) <= PollLimit => page = jobs
BY DEF Page

LEMMA TypesStep == Types /\ [Next]_vars => Types'
<1> SUFFICES ASSUME Types, [Next]_vars PROVE Types'
  OBVIOUS
<1> USE TrackingAssumption DEF Types, TypeOK, Working, Claimable, Holding, Unseen,
        bytes, library, tracker, drainer, loop, limits
<1>1. ASSUME NEW d \in Download,
             GrabSend(d) \/ ClientFinish(d) \/ ClientFail(d) \/ ClientDrop(d)
      PROVE  Types'
  BY <1>1 DEF GrabSend, ClientFinish, ClientFail, ClientDrop
<1>2. CASE GrabRecord
  BY <1>2 DEF GrabRecord
<1>3. CASE PollQueue
  <2>1. seen' \in [Download -> {"none"} \cup Holding]
    BY <1>3 DEF PollQueue
  <2> QED
    BY <1>3, <2>1 DEF PollQueue
<1>4. CASE PollHistory
  <2>1. PICK page \in Page({d \in Download \ Ddl : client[d] \in {"done", "bad"}}) :
          seen' = [d \in Download |-> IF d \in page \cup {e \in Ddl : client[e] \in Holding}
                                      THEN client[d] ELSE seen[d]]
    BY <1>4 DEF PollHistory
  <2>2. \A d \in page : client[d] \in Holding
    BY <2>1, PageOfJobs
  <2>3. seen' \in [Download -> {"none"} \cup Holding]
    BY <2>1, <2>2
  <2> QED
    BY <1>4, <2>3 DEF PollHistory
<1>5. CASE PollFails
  <2>1. seen' \in [Download -> {"none"} \cup Holding]
    BY <1>5 DEF PollFails
  <2>2. faults' \in 0..MaxFaults
    BY <1>5 DEF PollFails
  <2>3. poll' = "reconcile" /\ polled' = FALSE
    BY <1>5 DEF PollFails
  <2> QED
    BY <1>5, <2>1, <2>2, <2>3 DEF PollFails
<1>6. CASE Reconcile
  BY <1>6 DEF Reconcile, Classify
<1>7. CASE TrackFailures \/ PpFailures
  BY <1>7 DEF TrackFailures, PpFailures, PromoteFailures, Goto, TrackingUnchanged
<1>8. CASE TrackResearch \/ PpResearch
  BY <1>8 DEF TrackResearch, PpResearch, Research, Idle, TrackingUnchanged
<1> USE DEF TrackingUnchanged, LoopUnchanged, Goto, Idle, Verdict
<1>9. CASE DrainStart \/ Gather \/ ManualNothing
  BY <1>9 DEF DrainStart, Gather, ManualNothing
<1>10. ASSUME NEW d \in Download, Claim(d) \/ ManualStart(d) PROVE Types'
  BY <1>10 DEF Claim, ManualStart
<1>11. CASE Recover
  BY <1>11 DEF Recover, Adoptable, SameIssue
<1>12. CASE NothingThere \/ Block \/ Corrupt
  BY <1>12 DEF NothingThere, Block, Corrupt
<1>13. CASE Place \/ Supersede
  BY <1>13 DEF Place, Supersede
<1>14. CASE Commit
  BY <1>14 DEF Commit
<1>15. CASE FailAfterPlacing \/ CommitFails \/ CleanUp \/ CleanUpFails
  BY <1>15 DEF FailAfterPlacing, CommitFails, CleanUp, CleanUpFails
<1>16. ASSUME NEW d \in Download, Delete(d) \/ ClientRemove(d) \/ ClientRemoveFails(d)
       PROVE  Types'
  BY <1>16 DEF Delete, ClientRemove, ClientRemoveFails
<1>17. CASE Crash
  <2>1. owed' \in [{"track", "pp"} -> SUBSET Download]
    BY <1>17 DEF Crash
  <2>2. seen' \in [Download -> {"none"} \cup Holding]
    BY <1>17 DEF Crash
  <2>3. crashes' \in 0..MaxCrashes
    BY <1>17 DEF Crash
  <2> QED
    BY <1>17, <2>1, <2>2, <2>3 DEF Crash
<1>18. CASE UNCHANGED vars
  BY <1>18 DEF vars
<1> QED
  BY <1>1, <1>2, <1>3, <1>4, <1>5, <1>6, <1>7, <1>8, <1>9, <1>10, <1>11, <1>12, <1>13, <1>14,
     <1>15, <1>16, <1>17, <1>18 DEF Next, Track, Import, Fault

-----------------------------------------------------------------------------
(* What the running drain relies on.  A walk is never a manual import's, a  *)
(* recovery is of a re-claimed row, and what was placed is there and was    *)
(* not imported before.                                                     *)
Draining ==
  /\ drain \in {"gather", "recover", "empty"} => mode # "manual"
  /\ drain = "recover" => mode = "recovering"
  /\ drain \in {"placed", "superseded", "cleanup"} => cur \in placed
  /\ drain \in {"placed", "superseded"} => imports[cur] = 0

Inv == Types /\ Draining /\ ClaimIsHeld /\ FilesKept

LEMMA InvInit == ASSUME Init PROVE Inv
<1>1. Draining /\ ClaimIsHeld
  BY DEF Init, Draining, ClaimIsHeld
<1>2. FilesKept
  BY DEF Init, FilesKept, DataNotLost, ImportedIsOwned, OwnedStaysOwned
<1> QED
  BY <1>1, <1>2, TypesInit DEF Inv

(* The drain's place and its row.                                           *)
LEMMA DrainingStep ==
  ASSUME Inv, [Next]_vars
  PROVE  Draining' /\ ClaimIsHeld'
<1> USE TrackingAssumption DEF Inv, Types, TypeOK, Working, Draining, ClaimIsHeld, Claimable,
        bytes, library, tracker, drainer, loop, limits
<1>1. ASSUME NEW d \in Download,
             GrabSend(d) \/ ClientFinish(d) \/ ClientFail(d) \/ ClientDrop(d)
      PROVE  Draining' /\ ClaimIsHeld'
  BY <1>1 DEF GrabSend, ClientFinish, ClientFail, ClientDrop
<1>2. CASE GrabRecord \/ PollQueue \/ PollHistory \/ PollFails
  BY <1>2 DEF GrabRecord, PollQueue, PollHistory, PollFails
<1>3. CASE Reconcile
  BY <1>3 DEF Reconcile, ShouldAdvance, Vanished
<1>4. CASE TrackFailures \/ PpFailures
  BY <1>4 DEF TrackFailures, PpFailures, PromoteFailures, Goto, TrackingUnchanged
<1>5. CASE TrackResearch \/ PpResearch
  BY <1>5 DEF TrackResearch, PpResearch, Research, Idle, TrackingUnchanged
<1> USE DEF TrackingUnchanged, LoopUnchanged, Goto, Idle, Verdict
<1>6. CASE DrainStart \/ Gather \/ ManualNothing
  BY <1>6 DEF DrainStart, Gather, ManualNothing
<1>7. ASSUME NEW d \in Download, Claim(d) \/ ManualStart(d) PROVE Draining' /\ ClaimIsHeld'
  BY <1>7 DEF Claim, ManualStart
<1>8. CASE Recover
  BY <1>8 DEF Recover
<1>9. CASE NothingThere \/ Block \/ Corrupt
  BY <1>9 DEF NothingThere, Block, Corrupt
<1>10. CASE Place
  BY <1>10 DEF Place, AlreadyImported
<1>11. CASE Supersede
  BY <1>11 DEF Supersede, Old
<1>12. CASE Commit
  BY <1>12 DEF Commit
<1>13. CASE FailAfterPlacing \/ CommitFails \/ CleanUp \/ CleanUpFails
  BY <1>13 DEF FailAfterPlacing, CommitFails, CleanUp, CleanUpFails
<1>14. ASSUME NEW d \in Download, Delete(d) \/ ClientRemove(d) \/ ClientRemoveFails(d)
       PROVE  Draining' /\ ClaimIsHeld'
  BY <1>14 DEF Delete, ClientRemove, ClientRemoveFails
<1>15. CASE Crash
  BY <1>15 DEF Crash
<1>16. CASE UNCHANGED vars
  BY <1>16 DEF vars
<1> QED
  BY <1>1, <1>2, <1>3, <1>4, <1>5, <1>6, <1>7, <1>8, <1>9, <1>10, <1>11, <1>12, <1>13, <1>14,
     <1>15, <1>16 DEF Next, Track, Import, Fault

(* The files of the issues.                                                 *)
LEMMA FilesStep ==
  ASSUME Inv, [Next]_vars
  PROVE  FilesKept'
<1> USE TrackingAssumption DEF Inv, Types, TypeOK, Working, Claimable, FilesKept, DataNotLost,
        ImportedIsOwned, OwnedStaysOwned, SameIssue, bytes, library, tracker, drainer, loop, limits
<1>1. ASSUME NEW d \in Download,
             GrabSend(d) \/ ClientFinish(d) \/ ClientFail(d) \/ ClientDrop(d)
      PROVE  FilesKept'
  BY <1>1 DEF GrabSend, ClientFinish, ClientFail, ClientDrop
<1>2. CASE GrabRecord \/ PollQueue \/ PollHistory \/ PollFails
  BY <1>2 DEF GrabRecord, PollQueue, PollHistory, PollFails
<1>3. CASE Reconcile
  <2>1. \A d \in Download : row'[d] = "imported" => row[d] = "imported"
    BY <1>3 DEF Reconcile, Classify
  <2> QED
    BY <1>3, <2>1 DEF Reconcile
<1>4. CASE TrackFailures \/ PpFailures
  BY <1>4 DEF TrackFailures, PpFailures, PromoteFailures, Goto, TrackingUnchanged
<1>5. CASE TrackResearch \/ PpResearch
  BY <1>5 DEF TrackResearch, PpResearch, Research, Idle, TrackingUnchanged
<1> USE DEF TrackingUnchanged, LoopUnchanged, Goto, Idle, Verdict
<1>6. CASE DrainStart \/ Gather \/ ManualNothing
  BY <1>6 DEF DrainStart, Gather, ManualNothing
<1>7. ASSUME NEW d \in Download, Claim(d) \/ ManualStart(d) PROVE FilesKept'
  BY <1>7 DEF Claim, ManualStart
<1>8. CASE Recover
  BY <1>8 DEF Recover, Adoptable
<1>9. CASE NothingThere \/ Block \/ Corrupt
  BY <1>9 DEF NothingThere, Block, Corrupt
<1>10. CASE Place
  BY <1>10 DEF Place
<1>11. CASE Supersede
  BY <1>11 DEF Supersede, Old, Draining
<1>12. CASE Commit
  BY <1>12 DEF Commit, Draining
<1>13. CASE FailAfterPlacing \/ CommitFails \/ CleanUpFails
  BY <1>13 DEF FailAfterPlacing, CommitFails, CleanUpFails
<1>14. CASE CleanUp
  BY <1>14 DEF CleanUp, Draining
<1>15. ASSUME NEW d \in Download, Delete(d) \/ ClientRemove(d) \/ ClientRemoveFails(d)
       PROVE  FilesKept'
  BY <1>15 DEF Delete, ClientRemove, ClientRemoveFails
<1>16. CASE Crash
  BY <1>16 DEF Crash
<1>17. CASE UNCHANGED vars
  BY <1>17 DEF vars
<1> QED
  BY <1>1, <1>2, <1>3, <1>4, <1>5, <1>6, <1>7, <1>8, <1>9, <1>10, <1>11, <1>12, <1>13, <1>14,
     <1>15, <1>16, <1>17 DEF Next, Track, Import, Fault

LEMMA Invariance == Spec => []Inv
<1>1. Init => Inv
  BY InvInit
<1>2. Inv /\ [Next]_vars => Inv'
  BY TypesStep, DrainingStep, FilesStep DEF Inv
<1> QED
  BY <1>1, <1>2, PTL DEF Spec

(* The types of the tables, of the poll and of the drain.                   *)
THEOREM TypeCorrect == Spec => []TypeOK
<1>1. Inv => TypeOK
  BY DEF Inv, Types
<1> QED
  BY <1>1, Invariance, PTL

(* No finished download and no file of an owned issue is lost, whatever     *)
(* crashes, failed commits, retries and operators come in between.          *)
THEOREM FilesAlwaysKept == Spec => []FilesKept
<1>1. Inv => FilesKept
  BY DEF Inv
<1> QED
  BY <1>1, Invariance, PTL

(* Only the drain that claimed a row moves it before its verdict.           *)
THEOREM ClaimsAreHeld == Spec => []ClaimIsHeld
<1>1. Inv => ClaimIsHeld
  BY DEF Inv
<1> QED
  BY <1>1, Invariance, PTL

-----------------------------------------------------------------------------
(* An imported event comes from the commit of a first import or from the    *)
(* recovery of a run that died.                                             *)
LEMMA ImportsStep ==
  ASSUME Inv, [Next]_vars, NEW d \in Download, imports[d] > 0, imports'[d] > imports[d]
  PROVE  mode = "recovering"
<1> USE DEF Inv, Types, TypeOK, Working, Draining
<1>1. imports' # imports
  OBVIOUS
<1>2. Recover \/ Commit
  BY <1>1 DEF Next, Track, Import, Fault, library, limits, TrackingUnchanged, LoopUnchanged,
     GrabSend, ClientFinish, ClientFail, ClientDrop, GrabRecord, PollQueue, PollHistory, PollFails,
     Reconcile, TrackFailures, TrackResearch, PpFailures, PpResearch, DrainStart, Claim, Gather,
     ManualNothing, ManualStart, NothingThere, Block, Corrupt, Place, Supersede, FailAfterPlacing,
     CommitFails, CleanUp, CleanUpFails, Delete, ClientRemove, ClientRemoveFails, Crash, vars
<1>3. CASE Recover
  BY <1>3 DEF Recover
<1>4. CASE Commit
  BY <1>4 DEF Commit
<1> QED
  BY <1>2, <1>3, <1>4

(* No retry, no second drain and no manual import imports a download again. *)
THEOREM ImportsHappenOnce == Spec => ImportedOnce
<1>1. Inv /\ [Next]_vars =>
        [\A d \in Download :
           imports[d] > 0 /\ imports'[d] > imports[d] => mode = "recovering"]_vars
  BY ImportsStep
<1> QED
  BY <1>1, Invariance, PTL DEF Spec, ImportedOnce

-----------------------------------------------------------------------------
(* The pp pool and the refresh share the rows and the client.  All that the *)
(* pp pool does there: verdicts on rows that exist, and cleanups.           *)
PpWork == \/ Import \/ CommitFails \/ CleanUpFails \/ FailAfterPlacing
          \/ \E d \in Download : ManualStart(d)

LEMMA PpStep ==
  ASSUME Inv, PpWork
  PROVE  /\ UNCHANGED <<linked, grabs, sending, poll, seen, polled>>
         /\ \A d \in Download :
              /\ client'[d] = client[d] \/ (client[d] \in Holding /\ client'[d] = "gone")
              /\ row'[d] = row[d] \/ (row[d] # "absent" /\ row'[d] \notin {"absent", "downloading"})
<1> DEFINE Effect ==
      /\ UNCHANGED <<linked, grabs, sending, poll, seen, polled>>
      /\ \A d \in Download :
           /\ client'[d] = client[d] \/ (client[d] \in Holding /\ client'[d] = "gone")
           /\ row'[d] = row[d] \/ (row[d] # "absent" /\ row'[d] \notin {"absent", "downloading"})
<1> USE DEF Inv, Types, TypeOK, Working, Claimable, ClaimIsHeld, Draining, tracker, drainer,
        TrackingUnchanged, Goto, Idle, Verdict
<1>1. CASE DrainStart \/ Gather \/ ManualNothing \/ \E d \in Download : ManualStart(d)
  BY <1>1 DEF DrainStart, Gather, ManualNothing, ManualStart
<1>2. ASSUME NEW d \in Download, Claim(d) PROVE Effect
  BY <1>2 DEF Claim
<1>3. CASE Recover
  BY <1>3 DEF Recover
<1>4. CASE NothingThere \/ Block \/ Corrupt
  BY <1>4 DEF NothingThere, Block, Corrupt
<1>5. CASE Place \/ Supersede
  BY <1>5 DEF Place, Supersede
<1>6. CASE Commit
  BY <1>6 DEF Commit
<1>7. CASE FailAfterPlacing \/ CommitFails \/ CleanUpFails
  BY <1>7 DEF FailAfterPlacing, CommitFails, CleanUpFails
<1>8. CASE CleanUp
  BY <1>8 DEF CleanUp
<1>9. CASE PpFailures \/ PpResearch
  BY <1>9 DEF PpFailures, PpResearch, PromoteFailures, Research
<1> QED
  BY <1>1, <1>2, <1>3, <1>4, <1>5, <1>6, <1>7, <1>8, <1>9 DEF PpWork, Import

(* What the database or a refresh knows, the client was sent.               *)
Known ==
  /\ \A d \in Download : row[d] # "absent" \/ seen[d] # "none" \/ d \in grabs
                           => client[d] # "unsent"
  /\ sending # NoDownload => client[sending] # "unsent"

LEMMA KnownStep == ASSUME Inv, Known, [Next]_vars PROVE Known'
<1> USE TrackingAssumption DEF Inv, Types, TypeOK, Known, Holding,
        bytes, library, tracker, drainer, loop, limits
<1>1. CASE PpWork
  BY <1>1, PpStep
<1>2. ASSUME NEW d \in Download,
             GrabSend(d) \/ ClientFinish(d) \/ ClientFail(d) \/ ClientDrop(d)
      PROVE  Known'
  BY <1>2 DEF GrabSend, ClientFinish, ClientFail, ClientDrop
<1>3. CASE GrabRecord
  BY <1>3 DEF GrabRecord
<1>4. CASE PollQueue
  <2>1. \A d \in Download : seen'[d] # "none" => client[d] = "queue"
    BY <1>4, PageOfJobs DEF PollQueue
  <2> QED
    BY <1>4, <2>1 DEF PollQueue
<1>5. CASE PollHistory
  <2>1. \A d \in Download : seen'[d] # "none" => seen[d] # "none" \/ client[d] \in Holding
    BY <1>5, PageOfJobs DEF PollHistory
  <2> QED
    BY <1>5, <2>1 DEF PollHistory
<1>6. CASE PollFails
  BY <1>6 DEF PollFails, Unseen
<1>7. CASE Reconcile
  <2>1. \A d \in Download : row'[d] # "absent" => row[d] # "absent" \/ seen[d] # "none"
    BY <1>7 DEF Reconcile, Vanished
  <2> QED
    BY <1>7, <2>1 DEF Reconcile, Unseen
<1>8. CASE TrackFailures \/ TrackResearch
  BY <1>8 DEF TrackFailures, TrackResearch, PromoteFailures, Research
<1>9. ASSUME NEW d \in Download, Delete(d) \/ ClientRemove(d) \/ ClientRemoveFails(d)
      PROVE  Known'
  BY <1>9 DEF Delete, ClientRemove, ClientRemoveFails
<1>10. CASE Crash
  BY <1>10 DEF Crash, Unseen, Idle
<1>11. CASE UNCHANGED vars
  BY <1>11 DEF vars
<1> QED
  BY <1>1, <1>2, <1>3, <1>4, <1>5, <1>6, <1>7, <1>8, <1>9, <1>10, <1>11
  DEF Next, Track, Import, Fault, PpWork

(* With one download worker no refresh runs during a hand-off.              *)
Linking ==
  /\ GrabbedIsLinked
  /\ sending # NoDownload => poll = "idle" /\ row[sending] = "absent"

LEMMA LinkingStep ==
  ASSUME Inv, Known, Linking, DownloadWorkers = 1, [Next]_vars
  PROVE  Linking'
<1> USE TrackingAssumption DEF Inv, Types, TypeOK, Known, Linking, GrabbedIsLinked, Overlap,
        bytes, library, tracker, drainer, loop, limits
<1>1. CASE PpWork
  BY <1>1, PpStep
<1>2. ASSUME NEW d \in Download,
             GrabSend(d) \/ ClientFinish(d) \/ ClientFail(d) \/ ClientDrop(d)
      PROVE  Linking'
  BY <1>2 DEF GrabSend, ClientFinish, ClientFail, ClientDrop
<1>3. CASE GrabRecord
  BY <1>3 DEF GrabRecord
<1>4. CASE PollQueue \/ PollHistory \/ PollFails
  BY <1>4 DEF PollQueue, PollHistory, PollFails
<1>5. CASE Reconcile
  BY <1>5 DEF Reconcile, Vanished
<1>6. CASE TrackFailures \/ TrackResearch
  BY <1>6 DEF TrackFailures, TrackResearch, PromoteFailures, Research
<1>7. ASSUME NEW d \in Download, Delete(d) \/ ClientRemove(d) \/ ClientRemoveFails(d)
      PROVE  Linking'
  BY <1>7 DEF Delete, ClientRemove, ClientRemoveFails
<1>8. CASE Crash
  BY <1>8 DEF Crash, Idle
<1>9. CASE UNCHANGED vars
  BY <1>9 DEF vars
<1> QED
  BY <1>1, <1>2, <1>3, <1>4, <1>5, <1>6, <1>7, <1>8, <1>9
  DEF Next, Track, Import, Fault, PpWork

(* A row of a grab bears the issue it was grabbed for, when there is one    *)
(* download worker.                                                         *)
THEOREM RowsAlwaysSound ==
  ASSUME DownloadWorkers = 1
  PROVE  Spec => []RowsSound
<1>1. Init => Known /\ Linking
  BY DEF Init, Known, Linking, GrabbedIsLinked, Unseen
<1>2. Inv /\ Known /\ Linking /\ [Next]_vars => Known' /\ Linking'
  BY KnownStep, LinkingStep
<1>3. Inv /\ Linking => RowsSound
  BY DEF Inv, Types, Linking, RowsSound
<1> QED
  BY <1>1, <1>2, <1>3, Invariance, PTL DEF Spec

-----------------------------------------------------------------------------
(* What the refresh has seen of the downloads it follows, while the client  *)
(* goes on: unless a page was too short, each one that it still has.        *)
Watching ==
  /\ \A d \in Download : seen[d] = "bad" => client[d] \in {"bad", "gone"}
  /\ poll = "history" =>
       \A d \in Download \ Ddl :
         row[d] = "downloading" /\ client[d] = "queue" => seen[d] = "queue"
  /\ poll = "reconcile" /\ polled =>
       \A d \in Download :
         row[d] = "downloading" /\ client[d] \in {"queue", "done"} => seen[d] # "none"

(* All jobs fit in a page when all downloads do.                            *)
LEMMA AllInPage ==
  ASSUME Cardinality(Download) <= PollLimit, NEW jobs \in SUBSET Download, NEW page \in Page(jobs)
  PROVE  page = jobs
<1>1. IsFiniteSet(jobs) /\ Cardinality(jobs) <= Cardinality(Download)
  BY TrackingAssumption, FS_Subset
<1>2. Cardinality(jobs) <= PollLimit
  BY <1>1, TrackingAssumption, FS_CardinalityType
<1> QED
  BY <1>2, PageOfJobs

LEMMA WatchingStep ==
  ASSUME Inv, Known, Watching, Cardinality(Download) <= PollLimit, [Next]_vars
  PROVE  Watching'
<1> USE TrackingAssumption DEF Inv, Types, TypeOK, Known, Watching, Holding,
        bytes, library, tracker, drainer, loop, limits
<1>1. CASE PpWork
  BY <1>1, PpStep
<1>2. ASSUME NEW d \in Download,
             GrabSend(d) \/ ClientFinish(d) \/ ClientFail(d) \/ ClientDrop(d)
      PROVE  Watching'
  BY <1>2 DEF GrabSend, ClientFinish, ClientFail, ClientDrop
<1>3. CASE GrabRecord
  BY <1>3 DEF GrabRecord
<1>4. CASE PollQueue
  <2>1. \A d \in Download : seen'[d] = IF d \notin Ddl /\ client[d] = "queue" THEN "queue" ELSE "none"
    BY <1>4, AllInPage DEF PollQueue
  <2> QED
    BY <1>4, <2>1 DEF PollQueue
<1>5. CASE PollHistory
  <2>1. \A d \in Download :
          seen'[d] = IF client[d] \in {"done", "bad"} \/ (d \in Ddl /\ client[d] = "queue")
                     THEN client[d] ELSE seen[d]
    BY <1>5, AllInPage DEF PollHistory
  <2> QED
    BY <1>5, <2>1 DEF PollHistory
<1>6. CASE PollFails
  BY <1>6 DEF PollFails, Unseen
<1>7. CASE Reconcile
  BY <1>7 DEF Reconcile, Unseen
<1>8. CASE TrackFailures \/ TrackResearch
  BY <1>8 DEF TrackFailures, TrackResearch, PromoteFailures, Research
<1>9. ASSUME NEW d \in Download, Delete(d) \/ ClientRemove(d) \/ ClientRemoveFails(d)
      PROVE  Watching'
  BY <1>9 DEF Delete, ClientRemove, ClientRemoveFails
<1>10. CASE Crash
  BY <1>10 DEF Crash, Unseen, Idle
<1>11. CASE UNCHANGED vars
  BY <1>11 DEF vars
<1> QED
  BY <1>1, <1>2, <1>3, <1>4, <1>5, <1>6, <1>7, <1>8, <1>9, <1>10, <1>11
  DEF Next, Track, Import, Fault, PpWork

(* Only the reconciliation ends a poll, and it fails what it saw fail or    *)
(* saw nowhere.                                                             *)
LEMMA FailureStep ==
  ASSUME Inv, Watching, [Next]_vars, poll' = "failures", poll # poll',
         NEW d \in Download, row[d] = "downloading", row'[d] = "failed_pending"
  PROVE  client[d] \notin {"queue", "done"}
<1> USE DEF Inv, Types, TypeOK, Watching
<1>1. Reconcile
  <2>1. ~PpWork
    BY PpStep
  <2> QED
    BY <2>1 DEF Next, Track, Import, Fault, PpWork, tracker, vars, GrabSend, ClientFinish,
       ClientFail, ClientDrop, GrabRecord, PollQueue, PollHistory, PollFails, TrackFailures,
       TrackResearch, Delete, ClientRemove, ClientRemoveFails, Crash
<1>2. seen[d] = "bad" \/ (seen[d] = "none" /\ polled)
  BY <1>1 DEF Reconcile, Classify, Vanished
<1> QED
  BY <1>1, <1>2 DEF Reconcile

(* No outage and no job that changes lists between two reads makes a        *)
(* working download look failed, as long as no page is too short.           *)
THEOREM NoFailureInvented ==
  ASSUME Cardinality(Download) <= PollLimit
  PROVE  Spec => NoFalseFailure
<1>1. Init => Known /\ Watching
  BY DEF Init, Known, Watching, Unseen
<1>2. Inv /\ Known /\ Watching /\ [Next]_vars => Known' /\ Watching'
  BY KnownStep, WatchingStep
<1>3. Inv /\ Watching /\ [Next]_vars =>
        [\A d \in Download :
           (poll' = "failures" /\ poll # poll' /\ row[d] = "downloading" /\ row'[d] = "failed_pending")
              => client[d] \notin {"queue", "done"}]_vars
  BY FailureStep
<1> QED
  BY <1>1, <1>2, <1>3, Invariance, PTL DEF Spec, NoFalseFailure
=============================================================================
