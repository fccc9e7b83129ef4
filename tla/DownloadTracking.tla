-------------------------- MODULE DownloadTracking --------------------------
(***************************************************************************)
(* From a grab to a file in the library: the grab hand-off, the download   *)
(* client, the tracking refresh (poll, reconcile, failure loop), the       *)
(* import drain with its crash recovery, manual import, and the queue's    *)
(* remove.  The download pool, the pp pool and the operator run            *)
(* concurrently over one table of tracked downloads, whose writers are     *)
(* serialised by a lock.                                                   *)
(*                                                                         *)
(* A download is one file for one issue, named differently from the files  *)
(* of other downloads.  The client stages its bytes, an import places them *)
(* in the library; recorded means an issue_files row lists them.           *)
(***************************************************************************)
EXTENDS Naturals, FiniteSets

CONSTANTS
  Download,        \* download ids, as the clients hand them out
  NoDownload,
  IssueOf,         \* the issue a download is for
  Unmapped,        \* downloads completed under a path without a mapping
  Ddl,             \* downloads of the built-in client; the others are SABnzbd's
  Tagged,          \* downloads whose library file name carries the issue id
  Settings,        \* what the operator may have configured: records of transfer, the
                   \* import_transfer_mode, and remove, remove_completed_downloads
  PollLimit,       \* slots per SABnzbd page; no second page is read
  DownloadWorkers, \* workers_download: with one, a grab and a refresh never overlap
  MaxCrashes,      \* bound: crashes
  MaxFaults,       \* bound: unreachable clients and failed commits
  MaxIoErrors,     \* bound: imports that fail after their file was placed
  MaxUser          \* bound: operator actions

ASSUME TrackingAssumption ==
  /\ NoDownload \notin Download
  /\ IsFiniteSet(Download)
  /\ Unmapped \subseteq Download /\ Ddl \subseteq Download /\ Tagged \subseteq Download
  /\ DOMAIN IssueOf = Download
  /\ Settings \subseteq [transfer : {"move", "copy", "hardlink"}, remove : BOOLEAN]
  /\ PollLimit \in Nat /\ DownloadWorkers \in Nat \ {0}
  /\ MaxCrashes \in Nat /\ MaxFaults \in Nat /\ MaxIoErrors \in Nat /\ MaxUser \in Nat

VARIABLES
  settings,                \* the settings in force; nothing in the model changes them
  client,                  \* where the client holds the download
  staged, placed,          \* where its bytes are
  due,                     \* finished, and neither discarded nor superseded since
  recorded, imports,       \* issue_files; imported events per download
  row, linked, grabs,      \* tracked_downloads: state, issue known; grab_history
  sending,                 \* grab handed to the client and not yet recorded
  poll, seen, polled,      \* the refresh and its observations
  drain, batch, cur, mode, \* the pp pool: a drain or a manual import
  owed, researched,        \* failures to re-search, and those re-searched
  removing,                \* removed from the queue, client not yet told
  crashes, faults, ioErrors, user

bytes   == <<staged, placed, due>>
library == <<recorded, imports>>
tracker == <<poll, seen, polled>>
drainer == <<drain, batch, cur, mode>>
loop    == <<owed, researched>>
limits  == <<crashes, faults, ioErrors, user>>
vars    == <<settings, client, staged, placed, due, recorded, imports, row, linked, grabs, sending,
             poll, seen, polled, drain, batch, cur, mode, owed, researched, removing,
             crashes, faults, ioErrors, user>>

Holding   == {"queue", "done", "bad"}
Claimable == {"import_pending", "importing"}

(* The import transaction holds the write lock from the first file move.   *)
LockFree == drain \notin {"placed", "superseded"}

(* With one download worker a grab command and a refresh are serialised.   *)
Overlap == DownloadWorkers > 1

Unseen == [d \in Download |-> "none"]

Init ==
  /\ settings \in Settings
  /\ client = [d \in Download |-> "unsent"]
  /\ staged = {} /\ placed = {} /\ due = {}
  /\ recorded = {} /\ imports = [d \in Download |-> 0]
  /\ row = [d \in Download |-> "absent"] /\ linked = {} /\ grabs = {}
  /\ sending = NoDownload
  /\ poll = "idle" /\ seen = Unseen /\ polled = FALSE
  /\ drain = "idle" /\ batch = {} /\ cur = NoDownload /\ mode = "fresh"
  /\ owed = [a \in {"track", "pp"} |-> {}] /\ researched = {}
  /\ removing = {}
  /\ crashes = 0 /\ faults = 0 /\ ioErrors = 0 /\ user = 0

-----------------------------------------------------------------------------
(* The grab hand-off: the client has the download before grab_history.     *)

GrabSend(d) ==
  /\ sending = NoDownload /\ client[d] = "unsent"
  /\ poll = "idle" \/ Overlap
  /\ client' = [client EXCEPT ![d] = "queue"]
  /\ sending' = d
  /\ UNCHANGED <<settings, bytes, library, row, linked, grabs, tracker, drainer, loop, removing, limits>>

GrabRecord ==
  /\ sending # NoDownload /\ LockFree
  /\ grabs' = grabs \cup {sending}
  /\ sending' = NoDownload
  /\ UNCHANGED <<settings, client, bytes, library, row, linked, tracker, drainer, loop, removing, limits>>

-----------------------------------------------------------------------------
(* The download client, and the operator using the client's own interface. *)

ClientFinish(d) ==
  /\ client[d] = "queue"
  /\ client' = [client EXCEPT ![d] = "done"]
  /\ staged' = staged \cup {d} /\ due' = due \cup {d}
  /\ UNCHANGED <<settings, placed, library, row, linked, grabs, sending, tracker, drainer, loop,
                 removing, limits>>

ClientFail(d) ==
  /\ client[d] = "queue"
  /\ client' = [client EXCEPT ![d] = "bad"]
  /\ UNCHANGED <<settings, bytes, library, row, linked, grabs, sending, tracker, drainer, loop,
                 removing, limits>>

ClientDrop(d) ==
  /\ user < MaxUser /\ user' = user + 1
  /\ client[d] \in Holding
  /\ client' = [client EXCEPT ![d] = "gone"]
  /\ staged' = staged \ {d} /\ due' = due \ {d}
  /\ UNCHANGED <<settings, placed, library, row, linked, grabs, sending, tracker, drainer, loop,
                 removing, crashes, faults, ioErrors>>

-----------------------------------------------------------------------------
(* The tracking refresh.  get_items reads SABnzbd's queue and then its     *)
(* history, so a job that moves between the reads is seen at least once;   *)
(* the built-in client's table is read in one query.                       *)

Page(jobs) == IF Cardinality(jobs) <= PollLimit
              THEN {jobs}
              ELSE {s \in SUBSET jobs : Cardinality(s) = PollLimit}

(* Faulty: the refresh does not wait for a grab that is under way.         *)
PollQueueAnyTime ==
  /\ poll = "idle"
  /\ \E page \in Page({d \in Download \ Ddl : client[d] = "queue"}) :
       seen' = [d \in Download |-> IF d \in page THEN "queue" ELSE "none"]
  /\ poll' = "history" /\ polled' = TRUE
  /\ UNCHANGED <<settings, client, bytes, library, row, linked, grabs, sending, drainer, loop,
                 removing, limits>>

PollQueue ==
  /\ poll = "idle" /\ (sending = NoDownload \/ Overlap)
  /\ \E page \in Page({d \in Download \ Ddl : client[d] = "queue"}) :
       seen' = [d \in Download |-> IF d \in page THEN "queue" ELSE "none"]
  /\ poll' = "history" /\ polled' = TRUE
  /\ UNCHANGED <<settings, client, bytes, library, row, linked, grabs, sending, drainer, loop,
                 removing, limits>>

PollHistory ==
  /\ poll = "history"
  /\ \E page \in Page({d \in Download \ Ddl : client[d] \in {"done", "bad"}}) :
       LET now == page \cup {d \in Ddl : client[d] \in Holding}
       IN seen' = [d \in Download |-> IF d \in now THEN client[d] ELSE seen[d]]
  /\ poll' = "reconcile"
  /\ UNCHANGED <<settings, client, bytes, library, row, linked, grabs, sending, polled, drainer, loop,
                 removing, limits>>

(* A client that cannot be reached is skipped this cycle.                  *)
PollFails ==
  /\ faults < MaxFaults /\ faults' = faults + 1
  /\ \/ poll = "idle" /\ (sending = NoDownload \/ Overlap)
     \/ poll = "history"
  /\ poll' = "reconcile" /\ polled' = FALSE /\ seen' = Unseen
  /\ UNCHANGED <<settings, client, bytes, library, row, linked, grabs, sending, drainer, loop,
                 removing, crashes, ioErrors, user>>

Classify(d) ==
  IF seen[d] = "done"
  THEN IF d \in Unmapped THEN "import_blocked" ELSE "import_pending"
  ELSE IF seen[d] = "bad" THEN "failed_pending" ELSE "downloading"

(* Terminal states stay; a completed item is not dragged back to           *)
(* downloading by a stale queue slot; a failure is not taken back.         *)
ShouldAdvance(from, target) ==
  /\ from \notin {"failed", "importing", "imported"}
  /\ ~(from \in {"import_pending", "import_blocked"} /\ target = "downloading")
  /\ from = "failed_pending" => target = "failed_pending"

(* Faulty: the rows of a client that was not reached vanish too.           *)
VanishedInOutage(d) == seen[d] = "none" /\ row[d] = "downloading"

Vanished(d) == seen[d] = "none" /\ row[d] = "downloading" /\ polled

(* A new row takes its issue from grab_history, or else from its title.    *)
Reconcile ==
  /\ poll = "reconcile" /\ LockFree
  /\ row' = [d \in Download |->
               IF seen[d] # "none" /\ ShouldAdvance(row[d], Classify(d)) THEN Classify(d)
               ELSE IF Vanished(d) THEN "failed_pending"
               ELSE row[d]]
  /\ LET new == {d \in Download : row[d] = "absent" /\ seen[d] # "none"}
     IN \E adopted \in SUBSET (new \ grabs) :
          linked' = (linked \ new) \cup (new \cap grabs) \cup adopted
  /\ poll' = "failures" /\ seen' = Unseen /\ polled' = FALSE
  /\ UNCHANGED <<settings, client, bytes, library, grabs, sending, drainer, loop, removing, limits>>

(* The failed state commits, with its blocklist row and history event; the *)
(* re-search is enqueued after that.  Both pools run this loop.            *)
PromoteFailures(actor) ==
  LET failing == {d \in Download : row[d] = "failed_pending"}
  IN /\ LockFree
     /\ row' = [d \in Download |-> IF d \in failing THEN "failed" ELSE row[d]]
     /\ owed' = [owed EXCEPT ![actor] = failing]

(* Faulty: the loop returns after the first issue.                         *)
ResearchFirst(actor) ==
  /\ \/ owed[actor] = {} /\ UNCHANGED researched
     \/ \E d \in owed[actor] : researched' = researched \cup {d}
  /\ owed' = [owed EXCEPT ![actor] = {}]

(* An issue-search goes out for every failure whose issue is known.        *)
Research(actor) ==
  /\ researched' = researched \cup (owed[actor] \cap (linked \cup grabs))
  /\ owed' = [owed EXCEPT ![actor] = {}]

TrackFailures ==
  /\ poll = "failures" /\ PromoteFailures("track")
  /\ poll' = "research"
  /\ UNCHANGED <<settings, client, bytes, library, linked, grabs, sending, seen, polled, drainer,
                 researched, removing, limits>>

TrackResearch ==
  /\ poll = "research" /\ Research("track")
  /\ poll' = "idle"
  /\ UNCHANGED <<settings, client, bytes, library, row, linked, grabs, sending, seen, polled, drainer,
                 removing, limits>>

-----------------------------------------------------------------------------
(* The pp pool: process_imports visits a snapshot of the claimable rows one *)
(* by one; a manual import shares its exclusivity group and its last steps. *)

TrackingUnchanged == UNCHANGED <<settings, client, linked, grabs, sending, tracker>>
LoopUnchanged     == UNCHANGED <<loop, removing>>

(* What a walk of the mapped output path finds.                             *)
Visible == staged \ Unmapped

Idle == drain' = "idle" /\ cur' = NoDownload /\ mode' = "fresh"
Goto(pc) == drain' = pc /\ UNCHANGED <<cur, mode>>

DrainStart ==
  /\ drain = "idle" /\ batch = {}
  /\ batch' = {d \in Download : row[d] \in Claimable}
  /\ batch' # {}
  /\ UNCHANGED <<drain, cur, mode, row, bytes, library, limits>>
  /\ TrackingUnchanged /\ LoopUnchanged

(* The claim re-reads the row under the lock; an importing row was left by  *)
(* a run that died.                                                         *)
Claim(d) ==
  /\ drain = "idle" /\ d \in batch
  /\ batch' = batch \ {d}
  /\ IF row[d] \in Claimable
     THEN /\ row' = [row EXCEPT ![d] = "importing"]
          /\ drain' = "gather" /\ cur' = d
          /\ mode' = IF row[d] = "importing" THEN "recovering" ELSE "fresh"
     ELSE UNCHANGED <<row, drain, cur, mode>>
  /\ UNCHANGED <<bytes, library, limits>>
  /\ TrackingUnchanged /\ LoopUnchanged

(* Faulty: a re-claimed row is treated like a fresh one.                    *)
GatherForgettingRecovery ==
  /\ drain = "gather"
  /\ Goto(IF cur \in Visible THEN "import" ELSE "empty")
  /\ UNCHANGED <<batch, row, bytes, library, limits>>
  /\ TrackingUnchanged /\ LoopUnchanged

Gather ==
  /\ drain = "gather"
  /\ Goto(IF cur \in Visible THEN "import"
          ELSE IF mode = "recovering" THEN "recover" ELSE "empty")
  /\ UNCHANGED <<batch, row, bytes, library, limits>>
  /\ TrackingUnchanged /\ LoopUnchanged

SameIssue(d) == {e \in Download : IssueOf[e] = IssueOf[d]}
Adoptable(d) == (SameIssue(d) \cap placed \cap Tagged) \ recorded

(* A re-claimed row whose source is empty: a recorded file of the issue     *)
(* that is on disk settles it; else an unrecorded tagged one is adopted.    *)
(* Neither path runs the side effects that follow an import.                *)
Recover ==
  /\ drain = "recover"
  /\ IF cur \notin linked
     THEN Goto("empty") /\ UNCHANGED <<row, library>>
     ELSE \/ /\ SameIssue(cur) \cap recorded \cap placed # {}
             /\ row' = [row EXCEPT ![cur] = "imported"]
             /\ Idle /\ UNCHANGED library
          \/ /\ SameIssue(cur) \cap recorded \cap placed = {}
             /\ \E e \in Adoptable(cur) : recorded' = recorded \cup {e}
             /\ imports' = [imports EXCEPT ![cur] = @ + 1]
             /\ row' = [row EXCEPT ![cur] = "imported"]
             /\ Idle
          \/ /\ SameIssue(cur) \cap recorded \cap placed = {} /\ Adoptable(cur) = {}
             /\ Goto("empty") /\ UNCHANGED <<row, library>>
  /\ UNCHANGED <<batch, bytes, limits>>
  /\ TrackingUnchanged /\ LoopUnchanged

(* The verdict of an import; a row removed meanwhile is left alone.         *)
Verdict(state) ==
  row' = IF row[cur] = "absent" THEN row ELSE [row EXCEPT ![cur] = state]

NothingThere ==
  /\ drain = "empty"
  /\ Verdict("import_blocked") /\ Idle
  /\ UNCHANGED <<batch, bytes, library, limits>>
  /\ TrackingUnchanged /\ LoopUnchanged

(* Faulty: the client is cleaned up after every verdict.                    *)
BlockAndCleanUp ==
  /\ drain = "import" /\ (mode = "manual" => cur \in Visible)
  /\ Verdict("import_blocked") /\ Goto("cleanup")
  /\ UNCHANGED <<batch, bytes, library, limits>>
  /\ TrackingUnchanged /\ LoopUnchanged

(* The decision rejects the file, or placing it fails before any byte moved. *)
Block ==
  /\ drain = "import" /\ (mode = "manual" => cur \in Visible)
  /\ Verdict("import_blocked") /\ Idle
  /\ UNCHANGED <<batch, bytes, library, limits>>
  /\ TrackingUnchanged /\ LoopUnchanged

Corrupt ==
  /\ drain = "import" /\ cur \in Visible
  /\ Verdict("failed_pending") /\ Goto("failures")
  /\ UNCHANGED <<batch, bytes, library, limits>>
  /\ TrackingUnchanged /\ LoopUnchanged

(* A manual pick whose file is gone imports nothing and changes no row.     *)
ManualNothing ==
  /\ drain = "import" /\ mode = "manual" /\ cur \notin Visible
  /\ Idle
  /\ UNCHANGED <<batch, row, bytes, library, limits>>
  /\ TrackingUnchanged /\ LoopUnchanged

(* Faulty: a download is taken for imported when its row says so.           *)
RowSaysImported(d) == row[d] = "imported"

AlreadyImported(d) == imports[d] > 0

(* The file of the issue that the placed one supersedes.                    *)
Old == (SameIssue(cur) \cap recorded \cap placed) \ {cur}

(* os.link does not overwrite; a move and a copy replace the target.        *)
Place ==
  /\ drain = "import" /\ cur \in Visible
  /\ ~AlreadyImported(cur)
  /\ ~(settings.transfer = "hardlink" /\ cur \in placed)
  /\ placed' = placed \cup {cur}
  /\ staged' = IF settings.transfer = "move" THEN staged \ {cur} ELSE staged
  /\ Goto("placed")
  /\ UNCHANGED <<due, batch, row, library, limits>>
  /\ TrackingUnchanged /\ LoopUnchanged

Supersede ==
  /\ drain = "placed" /\ Old # {}
  /\ placed' = placed \ Old /\ due' = due \ Old
  /\ Goto("superseded")
  /\ UNCHANGED <<staged, batch, row, library, limits>>
  /\ TrackingUnchanged /\ LoopUnchanged

(* issue_files, the imported event and the row's state commit together.     *)
Commit ==
  /\ drain \in {"placed", "superseded"} /\ (drain = "placed" => Old = {})
  /\ recorded' = {cur} \cup (IF drain = "superseded" THEN recorded \ SameIssue(cur)
                             ELSE recorded)
  /\ imports' = [imports EXCEPT ![cur] = @ + 1]
  /\ Verdict("imported") /\ Goto("cleanup")
  /\ UNCHANGED <<batch, bytes, limits>>
  /\ TrackingUnchanged /\ LoopUnchanged

(* An error after the placement rolls this file's rows back to a savepoint. *)
FailAfterPlacing ==
  /\ ioErrors < MaxIoErrors /\ ioErrors' = ioErrors + 1
  /\ ~LockFree
  /\ Verdict("import_blocked") /\ Idle
  /\ UNCHANGED <<batch, bytes, library, crashes, faults, user>>
  /\ TrackingUnchanged /\ LoopUnchanged

(* The transaction itself fails: the row stays as the claim left it.        *)
CommitFails ==
  /\ faults < MaxFaults /\ faults' = faults + 1
  /\ drain \in {"recover", "empty", "import", "placed", "superseded"}
  /\ Idle
  /\ UNCHANGED <<batch, row, bytes, library, crashes, ioErrors, user>>
  /\ TrackingUnchanged /\ LoopUnchanged

(* remove with data, or mark_imported, which the built-in client            *)
(* implements as a removal with data and SABnzbd's not at all.              *)
CleanUp ==
  /\ drain = "cleanup"
  /\ IF client[cur] \in Holding /\ (settings.remove \/ cur \in Ddl)
     THEN /\ client' = [client EXCEPT ![cur] = "gone"]
          /\ staged' = staged \ {cur}
     ELSE UNCHANGED <<client, staged>>
  /\ Idle
  /\ UNCHANGED <<settings, placed, due, batch, row, library, linked, grabs, sending, tracker, limits>>
  /\ LoopUnchanged

CleanUpFails ==
  /\ drain = "cleanup" /\ faults < MaxFaults /\ faults' = faults + 1
  /\ Idle
  /\ UNCHANGED <<batch, row, bytes, library, crashes, ioErrors, user>>
  /\ TrackingUnchanged /\ LoopUnchanged

PpFailures ==
  /\ drain = "failures" /\ PromoteFailures("pp")
  /\ Goto("research")
  /\ UNCHANGED <<batch, bytes, library, researched, removing, limits>>
  /\ TrackingUnchanged

PpResearch ==
  /\ drain = "research" /\ Research("pp")
  /\ Idle
  /\ UNCHANGED <<batch, row, bytes, library, removing, limits>>
  /\ TrackingUnchanged

ManualStart(d) ==
  /\ user < MaxUser /\ user' = user + 1
  /\ drain = "idle" /\ batch = {} /\ row[d] # "absent"
  /\ drain' = "import" /\ cur' = d /\ mode' = "manual"
  /\ UNCHANGED <<batch, row, bytes, library, crashes, faults, ioErrors>>
  /\ TrackingUnchanged /\ LoopUnchanged

-----------------------------------------------------------------------------
(* The queue's remove: the row goes first, then the client is told.        *)

Delete(d) ==
  /\ user < MaxUser /\ user' = user + 1
  /\ LockFree /\ row[d] \notin {"absent", "importing"}
  /\ row' = [row EXCEPT ![d] = "absent"] /\ linked' = linked \ {d}
  /\ removing' = removing \cup {d}
  /\ UNCHANGED <<settings, client, bytes, library, grabs, sending, tracker, drainer, loop,
                 crashes, faults, ioErrors>>

ClientRemove(d) ==
  /\ d \in removing /\ removing' = removing \ {d}
  /\ IF client[d] \in Holding
     THEN /\ client' = [client EXCEPT ![d] = "gone"]
          /\ \/ staged' = staged \ {d} /\ due' = due \ {d}
             \/ UNCHANGED <<staged, due>>
     ELSE UNCHANGED <<client, staged, due>>
  /\ UNCHANGED <<settings, placed, library, row, linked, grabs, sending, tracker, drainer, loop, limits>>

ClientRemoveFails(d) ==
  /\ d \in removing /\ removing' = removing \ {d}
  /\ faults < MaxFaults /\ faults' = faults + 1
  /\ UNCHANGED <<settings, client, bytes, library, row, linked, grabs, sending, tracker, drainer, loop,
                 crashes, ioErrors, user>>

-----------------------------------------------------------------------------
(* A crash loses what no table holds; an open transaction rolls back, the  *)
(* files it moved stay moved.                                              *)
Crash ==
  /\ crashes < MaxCrashes /\ crashes' = crashes + 1
  /\ sending' = NoDownload
  /\ poll' = "idle" /\ seen' = Unseen /\ polled' = FALSE
  /\ batch' = {} /\ Idle
  /\ owed' = [a \in {"track", "pp"} |-> {}]
  /\ removing' = {}
  /\ UNCHANGED <<settings, client, bytes, library, row, linked, grabs, researched, faults, ioErrors, user>>

Track == PollQueue \/ PollHistory \/ Reconcile \/ TrackFailures \/ TrackResearch

Import == \/ DrainStart \/ \E d \in Download : Claim(d)
          \/ Gather \/ Recover \/ NothingThere \/ ManualNothing
          \/ Block \/ Corrupt \/ Place \/ Supersede \/ Commit
          \/ CleanUp \/ PpFailures \/ PpResearch

Fault == PollFails \/ CommitFails \/ CleanUpFails \/ FailAfterPlacing \/ Crash

Next ==
  \/ GrabRecord \/ Track \/ Import \/ Fault
  \/ \E d \in Download :
       \/ GrabSend(d) \/ ClientFinish(d) \/ ClientFail(d) \/ ClientDrop(d)
       \/ ManualStart(d) \/ Delete(d) \/ ClientRemove(d) \/ ClientRemoveFails(d)

Spec == Init /\ [][Next]_vars

(* The scheduler re-runs the refresh and the drain every minute, so every   *)
(* step of theirs that stays possible is taken.                             *)
FairSpec == Spec /\ WF_vars(GrabRecord) /\ WF_vars(Track) /\ WF_vars(Import)

-----------------------------------------------------------------------------
TypeOK ==
  /\ settings \in Settings
  /\ client \in [Download -> {"unsent", "gone"} \cup Holding]
  /\ staged \subseteq Download /\ placed \subseteq Download /\ due \subseteq Download
  /\ recorded \subseteq Download /\ imports \in [Download -> Nat]
  /\ row \in [Download -> Claimable \cup {"absent", "downloading", "import_blocked",
                                          "imported", "failed_pending", "failed"}]
  /\ linked \subseteq Download /\ grabs \subseteq Download
  /\ sending \in Download \cup {NoDownload}
  /\ poll \in {"idle", "history", "reconcile", "failures", "research"}
  /\ seen \in [Download -> {"none"} \cup Holding] /\ polled \in BOOLEAN
  /\ drain \in {"idle", "gather", "recover", "empty", "import", "placed", "superseded",
                "cleanup", "failures", "research"}
  /\ batch \subseteq Download /\ cur \in Download \cup {NoDownload}
  /\ mode \in {"fresh", "recovering", "manual"}
  /\ owed \in [{"track", "pp"} -> SUBSET Download] /\ researched \subseteq Download
  /\ removing \subseteq Download
  /\ crashes \in 0..MaxCrashes /\ faults \in 0..MaxFaults
  /\ ioErrors \in 0..MaxIoErrors /\ user \in 0..MaxUser

(* What a client finished is in its staging directory or in the library    *)
(* until somebody discards or replaces it, through every crash, failed      *)
(* commit and cleanup.                                                      *)
DataNotLost == due \subseteq staged \cup placed

(* No download is imported twice, whether the drain or a manual import takes *)
(* it and however often it is retried.  Only the recovery of a run that died *)
(* can record a second event: it adopts an orphaned file of the issue,       *)
(* whichever download that was.                                              *)
ImportedOnce ==
  [][\A d \in Download :
       imports[d] > 0 /\ imports'[d] > imports[d] => mode = "recovering"]_vars

(* A download is imported only if the library has recorded a file for its   *)
(* issue.                                                                   *)
ImportedIsOwned ==
  \A d \in Download : row[d] = "imported" => SameIssue(d) \cap recorded # {}

(* An issue that was recorded as owned never loses its last file: the new   *)
(* one is in place before the old one leaves.                               *)
OwnedStaysOwned == \A d \in recorded : SameIssue(d) \cap placed # {}

(* The files: what was finished is not lost, what counts as imported or     *)
(* owned is there, through every crash, failed commit and retry.            *)
FilesKept == DataNotLost /\ ImportedIsOwned /\ OwnedStaysOwned

(* The drain works on a row nobody else moves: it stays importing until the *)
(* verdict.                                                                 *)
ClaimIsHeld ==
  (mode # "manual" /\ drain \in {"gather", "recover", "empty", "import", "placed", "superseded"})
     => row[cur] = "importing"

(* A refresh does not declare a download failed while its client has it and *)
(* it works: neither an outage nor a job that changes lists between the two *)
(* reads makes it look vanished.                                            *)
NoFalseFailure ==
  [][\A d \in Download :
       (poll' = "failures" /\ poll # poll' /\ row[d] = "downloading" /\ row'[d] = "failed_pending")
          => client[d] \notin {"queue", "done"}]_vars

(* A grabbed download is tracked under the issue it was grabbed for: no     *)
(* refresh runs between the hand-off and its grab_history row.              *)
GrabbedIsLinked == \A d \in grabs : row[d] # "absent" => d \in linked

(* The rows: the one the drain works on is its own, and one of a grab bears *)
(* the issue it was grabbed for, however refreshes and drains interleave.   *)
RowsSound == TypeOK /\ ClaimIsHeld /\ GrabbedIsLinked

(* What the client finished reaches a verdict.                              *)
CompletedSettles ==
  \A d \in Download : (client[d] = "done")
                        ~> (row[d] \in {"imported", "import_blocked", "failed"})

(* A failed download of a known issue is searched for again, whichever pool *)
(* promoted it and whatever the other one does (FRG-DL-013), unless the     *)
(* process died after the failed state was committed.                       *)
FailedIsResearched ==
  \A d \in Download :
    (row[d] = "failed" /\ d \in linked) ~> (d \in researched \/ crashes > 0)

(* A file that an import put in the library is recorded there, also when the *)
(* import died in between.                                                   *)
PlacedIsRecorded ==
  \A d \in Download : (d \in placed /\ d \in linked) ~> (d \in recorded)

(* What a client finished is settled, and what an import placed is recorded. *)
ImportsSettle == CompletedSettles /\ PlacedIsRecorded
=============================================================================
