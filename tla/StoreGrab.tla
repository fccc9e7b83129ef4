------------------------------ MODULE StoreGrab ------------------------------
(***************************************************************************)
(* What happens to a store purchase once it is accepted: the grab command  *)
(* downloads and verifies it and hands it to the import drain, while the   *)
(* operator and the auto-sync accept, ignore, restore and retry it and     *)
(* the queue API removes it.  Three axes describe one entitlement:         *)
(* review_status, download_state and the row of tracked_downloads known    *)
(* as humble:<id>.                                                         *)
(*                                                                         *)
(* A step is a transaction.  A request of a user (or an acceptance of the  *)
(* auto-sync) is several: what it read or wrote before an await may have   *)
(* changed after it.                                                       *)
(***************************************************************************)
EXTENDS Naturals, FiniteSets

CONSTANTS
  Entitlement,     \* grabbable comics of a connected source
  NoEntitlement,
  User,            \* concurrent requests: browser tabs and the auto-sync
  DownloadWorkers, \* workers_download
  UserMay,         \* what users do, of "match", "retry", "ignore", "restore",
                   \* "remove" and "import"
  MaxActs,         \* bound: actions of users
  MaxCrashes,      \* bound: crashes
  MaxFaults        \* bound: transport errors and imports that raise

ASSUME StoreAssumption ==
  /\ IsFiniteSet(Entitlement) /\ NoEntitlement \notin Entitlement
  /\ DownloadWorkers \in Nat \ {0}
  /\ MaxActs \in Nat /\ MaxCrashes \in Nat /\ MaxFaults \in Nat

VARIABLES
  review,   \* store_entitlements.review_status
  axis,     \* store_entitlements.download_state
  tracked,  \* the state of the row humble:<id> of tracked_downloads
  library,  \* entitlements with an entry in import_history
  cmd,      \* the source-grab command of an entitlement
  run,      \* how far run_grab is
  request,  \* what a user's request has still to do, and for which entitlement
  importer, \* the entitlement the pp pool imports, and by which command
  acts, crashes, faults

vars == <<review, axis, tracked, library, cmd, run, request, importer, acts,
          crashes, faults>>

entitlement == <<review, axis>>
grabbing    == <<cmd, run>>
limits      == <<acts, crashes, faults>>

Idle     == [by |-> "nobody", ent |-> NoEntitlement]
NoRequest == [todo |-> "nothing", ent |-> NoEntitlement]
Verdict  == {"imported", "import_blocked", "failed"}
Claimable == {"import_pending", "importing"}

Init ==
  /\ review = [e \in Entitlement |-> "new"]
  /\ axis = [e \in Entitlement |-> "none"]
  /\ tracked = [e \in Entitlement |-> "absent"]
  /\ library = {}
  /\ cmd = [e \in Entitlement |-> "none"]
  /\ run = [e \in Entitlement |-> "idle"]
  /\ request = [u \in User |-> NoRequest]
  /\ importer = Idle
  /\ acts = 0 /\ crashes = 0 /\ faults = 0

-----------------------------------------------------------------------------
(* Users.                                                                   *)

May(u, action) ==
  /\ action \in UserMay /\ request[u] = NoRequest
  /\ acts < MaxActs /\ acts' = acts + 1

Owes(u, e, todo) == request[u] = [todo |-> todo, ent |-> e]
Then(u, e, todo) == request' = [request EXCEPT ![u] = [todo |-> todo, ent |-> e]]
Answered(u)      == request' = [request EXCEPT ![u] = NoRequest]

(* match_entitlement: an acceptance needs a new item, and tests it here; an *)
(* operator who picks the series may decide any item again.                 *)
Match(u, e, requireNew) ==
  /\ May(u, "match")
  /\ requireNew => review[e] = "new"
  /\ review' = [review EXCEPT ![e] = "matched"]
  /\ Then(u, e, "queue")
  /\ UNCHANGED <<axis, tracked, library, grabbing, importer, crashes, faults>>

(* _queue_grab, its transaction: only a matched item out of an unstarted or *)
(* failed download is queued.                                               *)
QueueGrab(u, e) ==
  /\ Owes(u, e, "queue")
  /\ IF review[e] = "matched" /\ axis[e] \in {"none", "failed"}
     THEN axis' = [axis EXCEPT ![e] = "queued"] /\ Then(u, e, "enqueue")
     ELSE Answered(u) /\ UNCHANGED axis
  /\ UNCHANGED <<review, tracked, library, grabbing, importer, limits>>

(* _queue_grab, its second half: a live command of the same body is the     *)
(* answer, whatever state it is in.  A run that returned has asked for its  *)
(* last write first: the write lock is taken in the order of requests.      *)
Enqueue(u, e) ==
  /\ Owes(u, e, "enqueue")
  /\ run[e] # "ending"
  /\ cmd' = [cmd EXCEPT ![e] = IF @ = "none" THEN "queued" ELSE @]
  /\ Answered(u)
  /\ UNCHANGED <<entitlement, tracked, library, run, importer, limits>>

(* retry_download, its validation.                                          *)
Retry(u, e) ==
  /\ May(u, "retry")
  /\ axis[e] = "failed"
  /\ Then(u, e, "drop")
  /\ UNCHANGED <<entitlement, tracked, library, grabbing, importer, crashes, faults>>

(* _drop_stale_tracked_row: the row a failed import left would swallow the  *)
(* hand-off; an import that is under way refuses the retry.                 *)
DropStale(u, e) ==
  /\ Owes(u, e, "drop")
  /\ IF tracked[e] = "importing"
     THEN Answered(u) /\ UNCHANGED tracked
     ELSE tracked' = [tracked EXCEPT ![e] = "absent"] /\ Then(u, e, "queue")
  /\ UNCHANGED <<entitlement, library, grabbing, importer, limits>>

(* ignore_entitlement, one transaction: a row that is being imported is     *)
(* left to the importer's own test.                                         *)
Ignore(u, e) ==
  /\ May(u, "ignore")
  /\ tracked' = [tracked EXCEPT ![e] = IF @ = "importing" THEN @ ELSE "absent"]
  /\ review' = [review EXCEPT ![e] = "ignored"]
  /\ axis' = [axis EXCEPT ![e] = "none"]
  /\ UNCHANGED <<library, grabbing, request, importer, crashes, faults>>

(* restore_entitlement: the download axis is as the ignore, or the run it   *)
(* cancelled, left it.                                                      *)
Restore(u, e) ==
  /\ May(u, "restore")
  /\ review[e] = "ignored"
  /\ review' = [review EXCEPT ![e] = "new"]
  /\ UNCHANGED <<axis, tracked, library, grabbing, request, importer, crashes, faults>>

(* delete_queue_item, for a row of this source.                             *)
QueueRemove(u, e) ==
  /\ May(u, "remove")
  /\ tracked[e] \notin {"absent", "importing"}
  /\ tracked' = [tracked EXCEPT ![e] = "absent"]
  /\ UNCHANGED <<entitlement, library, grabbing, request, importer, crashes, faults>>

-----------------------------------------------------------------------------
(* run_grab, on the download pool.                                          *)

To(e, step)     == run' = [run EXCEPT ![e] = step]
State(e, state) == axis' = [axis EXCEPT ![e] = state]

GrabStart(e) ==
  /\ cmd[e] = "queued"
  /\ Cardinality({o \in Entitlement : cmd[o] = "started"}) < DownloadWorkers
  /\ cmd' = [cmd EXCEPT ![e] = "started"]
  /\ To(e, IF review[e] = "matched" THEN "admitted" ELSE "ending")
  /\ UNCHANGED <<entitlement, tracked, library, request, importer, limits>>

Fetch(e) ==
  /\ run[e] = "admitted"
  /\ State(e, "fetching") /\ To(e, "streaming")
  /\ UNCHANGED <<review, tracked, library, cmd, request, importer, limits>>

(* The stream is complete; the state is written whatever became of the item. *)
Streamed(e) ==
  /\ run[e] = "streaming"
  /\ State(e, "verifying") /\ To(e, "verifying")
  /\ UNCHANGED <<review, tracked, library, cmd, request, importer, limits>>

(* _fail: no copy, no size, source not connected, session expired, no URL,  *)
(* download refused, md5 mismatch.                                          *)
GrabFails(e) ==
  /\ run[e] \in {"admitted", "streaming", "verifying"}
  /\ State(e, "failed") /\ To(e, "ending")
  /\ UNCHANGED <<review, tracked, library, cmd, request, importer, limits>>

(* A transport error of the HTTP client is none of the errors run_grab      *)
(* catches: the command fails and the axis stays.                           *)
TransportFault(e) ==
  /\ run[e] = "streaming" /\ faults < MaxFaults
  /\ faults' = faults + 1
  /\ To(e, "ending")
  /\ UNCHANGED <<entitlement, tracked, library, cmd, request, importer, acts, crashes>>

(* The acceptance is read again when the file is verified.                  *)
Recheck(e) ==
  /\ run[e] = "verifying"
  /\ To(e, IF review[e] = "matched" THEN "checked" ELSE "ending")
  /\ UNCHANGED <<entitlement, tracked, library, cmd, request, importer, limits>>

(* Faulty: a second hand-off makes the row claimable again.                 *)
HandOffAgain(e) ==
  /\ run[e] = "checked"
  /\ tracked' = [tracked EXCEPT ![e] = "import_pending"]
  /\ To(e, "handed")
  /\ UNCHANGED <<entitlement, library, cmd, request, importer, limits>>

(* _handoff_to_import: any row of the download makes it a no-op.            *)
HandOff(e) ==
  /\ run[e] = "checked"
  /\ tracked' = [tracked EXCEPT ![e] = IF @ = "absent" THEN "import_pending" ELSE @]
  /\ To(e, "handed")
  /\ UNCHANGED <<entitlement, library, cmd, request, importer, limits>>

(* Faulty: ownership is claimed at the hand-off.                            *)
SettleEarly(e) ==
  /\ run[e] = "handed"
  /\ State(e, "imported") /\ To(e, "ending")
  /\ UNCHANGED <<review, tracked, library, cmd, request, importer, limits>>

Settle(e) ==
  /\ run[e] = "handed"
  /\ State(e, "import_pending") /\ To(e, "ending")
  /\ UNCHANGED <<review, tracked, library, cmd, request, importer, limits>>

GrabEnds(e) ==
  /\ run[e] = "ending"
  /\ cmd' = [cmd EXCEPT ![e] = "none"] /\ To(e, "idle")
  /\ UNCHANGED <<entitlement, tracked, library, request, importer, limits>>

-----------------------------------------------------------------------------
(* The pp pool: one process-imports or manual-import at a time.             *)

(* Faulty: a row a dead process had claimed is not claimed again.           *)
ClaimPendingOnly(e) ==
  /\ importer = Idle /\ tracked[e] = "import_pending"
  /\ tracked' = [tracked EXCEPT ![e] = "importing"]
  /\ importer' = [by |-> "drain", ent |-> e]
  /\ UNCHANGED <<entitlement, library, grabbing, request, limits>>

Claim(e) ==
  /\ importer = Idle /\ tracked[e] \in Claimable
  /\ tracked' = [tracked EXCEPT ![e] = "importing"]
  /\ importer' = [by |-> "drain", ent |-> e]
  /\ UNCHANGED <<entitlement, library, grabbing, request, limits>>

(* execute_manual_import plans from the row and does not claim it.  The     *)
(* files of an imported download have left its folder.                      *)
PlanManual(e) ==
  /\ "import" \in UserMay /\ acts < MaxActs /\ acts' = acts + 1
  /\ importer = Idle /\ tracked[e] \notin {"absent", "imported"}
  /\ importer' = [by |-> "manual", ent |-> e]
  /\ UNCHANGED <<entitlement, tracked, library, grabbing, request, crashes, faults>>

(* finalize_download_import and apply_source_import, in the transaction     *)
(* that imports: a download is imported once, and the axis mirrors the row. *)
Finalize(e) ==
  \E verdict \in Verdict :
    /\ verdict = "imported" => e \notin library
    /\ library' = IF verdict = "imported" THEN library \cup {e} ELSE library
    /\ tracked' = [tracked EXCEPT ![e] = IF @ = "absent" THEN @ ELSE verdict]
    /\ axis' = IF review[e] = "matched" THEN [axis EXCEPT ![e] = verdict] ELSE axis

(* The import transaction; a withdrawn item loses its row instead.  It      *)
(* cannot pass a grab between its last two transactions, for the same order. *)
Import(e) ==
  /\ importer.ent = e
  /\ run[e] # "handed"
  /\ IF review[e] = "matched"
     THEN Finalize(e)
     ELSE tracked' = [tracked EXCEPT ![e] = "absent"] /\ UNCHANGED <<axis, library>>
  /\ importer' = Idle
  /\ UNCHANGED <<review, grabbing, request, limits>>

(* The import raises: its transaction is rolled back, its claim stays.      *)
ImportAborts(e) ==
  /\ importer.ent = e /\ faults < MaxFaults
  /\ faults' = faults + 1
  /\ importer' = Idle
  /\ UNCHANGED <<entitlement, tracked, library, grabbing, request, acts, crashes>>

-----------------------------------------------------------------------------
(* Requests and runs are gone; started commands are queued again.           *)
Crash ==
  /\ crashes < MaxCrashes /\ crashes' = crashes + 1
  /\ cmd' = [e \in Entitlement |-> IF cmd[e] = "started" THEN "queued" ELSE cmd[e]]
  /\ run' = [e \in Entitlement |-> "idle"]
  /\ request' = [u \in User |-> NoRequest]
  /\ importer' = Idle
  /\ UNCHANGED <<entitlement, tracked, library, acts, faults>>

UserActs(u, e) ==
  \/ \E requireNew \in BOOLEAN : Match(u, e, requireNew)
  \/ Retry(u, e) \/ Ignore(u, e) \/ Restore(u, e) \/ QueueRemove(u, e)

Proceed(u, e) == QueueGrab(u, e) \/ Enqueue(u, e) \/ DropStale(u, e)

GrabStep(e) ==
  \/ GrabStart(e) \/ Fetch(e) \/ Streamed(e) \/ GrabFails(e)
  \/ Recheck(e) \/ HandOff(e) \/ Settle(e) \/ GrabEnds(e)

Next ==
  \/ \E u \in User, e \in Entitlement : UserActs(u, e) \/ Proceed(u, e)
  \/ \E e \in Entitlement :
       \/ GrabStep(e) \/ TransportFault(e)
       \/ Claim(e) \/ PlanManual(e) \/ Import(e) \/ ImportAborts(e)
  \/ Crash

Spec == Init /\ [][Next]_vars

(* Requests are answered, the download pool takes its commands by age, and  *)
(* process-imports is scheduled again every minute over all claimable rows. *)
FairSpec ==
  /\ Spec
  /\ \A u \in User : WF_vars(\E e \in Entitlement : Proceed(u, e))
  /\ \A e \in Entitlement :
       /\ SF_vars(GrabStart(e)) /\ WF_vars(GrabStep(e))
       /\ SF_vars(Claim(e)) /\ WF_vars(Import(e))

-----------------------------------------------------------------------------
TypeOK ==
  /\ review \in [Entitlement -> {"new", "matched", "ignored"}]
  /\ axis \in [Entitlement -> {"none", "queued", "fetching", "verifying",
                               "import_pending"} \cup Verdict]
  /\ tracked \in [Entitlement -> {"absent"} \cup Claimable \cup Verdict]
  /\ library \subseteq Entitlement
  /\ cmd \in [Entitlement -> {"none", "queued", "started"}]
  /\ run \in [Entitlement -> {"idle", "admitted", "streaming", "verifying",
                              "checked", "handed", "ending"}]
  /\ request \in [User -> {NoRequest} \cup
                   [todo : {"queue", "enqueue", "drop"}, ent : Entitlement]]
  /\ importer \in {Idle} \cup [by : {"drain", "manual"}, ent : Entitlement]
  /\ acts \in Nat /\ crashes \in Nat /\ faults \in Nat

(* FRG-SRC-004: "nothing lands in the library" for an item ignored before   *)
(* its import, wherever in the grab or the import the ignore falls.         *)
WithdrawnImportsNothing ==
  [][\A e \in library' \ library : review[e] = "matched"]_vars

(* FRG-SRC-006: ownership is never claimed early: an item shown as imported *)
(* is accepted and its file is in the library.                              *)
OwnedOnlyWhenImported ==
  \A e \in Entitlement : axis[e] = "imported" => e \in library /\ review[e] = "matched"

(* A grab that runs again after a crash does not reopen an import that has  *)
(* its verdict: a row that left the drain is claimable again only as a new  *)
(* row.                                                                     *)
VerdictsStand ==
  [][\A e \in Entitlement : tracked[e] \in Verdict => tracked'[e] \notin Claimable]_vars

(* No request deletes the row of an import that is moving its files.        *)
ClaimIsHeld ==
  [][\A e \in Entitlement :
       tracked[e] = "importing" /\ tracked'[e] = "absent" => importer.ent = e /\ importer' = Idle]_vars

(* What the operator and the importer decided holds: nothing withdrawn is  *)
(* imported, no verdict is taken back, no claimed row is pulled away.       *)
DecisionsHold == WithdrawnImportsNothing /\ VerdictsStand /\ ClaimIsHeld

(* An ignore that lands between a request's validation and its queueing     *)
(* leaves no queued download on the ignored item.                           *)
IgnoredIsNotQueued ==
  \A e \in Entitlement : axis[e] = "queued" => review[e] = "matched"

(* The review and the download of an item tell one story, although they are *)
(* written by requests, runs and the importer in transactions of their own. *)
AxesAgree == TypeOK /\ OwnedOnlyWhenImported /\ IgnoredIsNotQueued

(* "any surviving row would strand a later restore": the row of an ignored  *)
(* item, one that was claimed or handed off too late for the ignore to      *)
(* delete it, goes away by itself.                                          *)
IgnoredLeavesNothing ==
  \A e \in Entitlement :
    review[e] = "ignored" /\ tracked[e] # "absent"
      ~> review[e] # "ignored" \/ tracked[e] = "absent"

=============================================================================
