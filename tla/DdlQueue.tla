------------------------------ MODULE DdlQueue ------------------------------
(***************************************************************************)
(* foragerr's built-in direct-download client: the persistent ddl_queue    *)
(* table, the single-flight engine of ddl/queue.py that drains it one      *)
(* process-ddl-queue command at a time, the resume of ddl/download.py, and *)
(* the manual actions on a queue item.                                     *)
(*                                                                         *)
(* The engine reads the row, awaits the network or the write lock, and     *)
(* writes; every await is a point where a user action may come between, so *)
(* each stretch from one await to the next is a step of its own.  Files    *)
(* are modelled by whose bytes they hold: a set of <<item, host>> streams. *)
(* The primary key is an INTEGER PRIMARY KEY without AUTOINCREMENT, so a   *)
(* new row takes the highest id in the table plus one, and the id of a     *)
(* removed last row, which also names the partial file, is used again.     *)
(***************************************************************************)
EXTENDS Naturals, FiniteSets

CONSTANTS
  Item,          \* grab requests; each is enqueued at most once
  NoItem,
  Host,          \* link types a post can offer
  NoHost,
  Rank,          \* host priority: a lower rank is tried first
  DeadHosts,     \* hosts whose connection always breaks with a transport error
  OutputOf,      \* the final file name built from an item's issue
  NoFile,
  MaxRow,        \* bound: highest row id
  MaxInterrupts, \* bound: crashes, cancelled drains and unexpected exceptions
  MaxRetries     \* bound: retry and resume requests

ASSUME ItemsAssumption ==
  /\ NoItem \notin Item
  /\ NoHost \notin Host
  /\ DeadHosts \subseteq Host
  /\ Rank \in [Host -> Nat]
  /\ DOMAIN OutputOf = Item /\ \A i \in Item : OutputOf[i] # NoFile
  /\ MaxRow \in Nat /\ MaxInterrupts \in Nat /\ MaxRetries \in Nat

VARIABLES
  status, item, failed, output,   \* the ddl_queue table, by row id
  partial,                        \* <id>.partial: whose bytes it holds
  final,                          \* staged output files: whose bytes they hold
  at, cur, mine, tried, host,     \* the engine: where it is, and its locals
  grabbed,                        \* items enqueued so far
  interrupts, retries

rows   == <<status, item, failed, output>>
files  == <<partial, final>>
engine == <<at, cur, mine, tried, host>>
limits == <<interrupts, retries>>
vars   == <<status, item, failed, output, partial, final,
            at, cur, mine, tried, host, grabbed, interrupts, retries>>

Row     == 1 .. MaxRow
NoRow   == 0
File    == {OutputOf[i] : i \in Item}
Stream  == Item \X Host
Present(r) == status[r] # "absent"
Status  == {"absent", "queued", "downloading", "completed", "failed", "aborted"}
Place   == {"idle", "claim", "load", "check", "fetch", "giveup", "open", "stream",
            "unlinked", "failcheck", "record", "donecheck", "complete"}

Init ==
  /\ status = [r \in Row |-> "absent"]
  /\ item = [r \in Row |-> NoItem]
  /\ failed = [r \in Row |-> {}]
  /\ output = [r \in Row |-> NoFile]
  /\ partial = [r \in Row |-> {}]
  /\ final = [f \in File |-> {}]
  /\ at = "idle" /\ cur = NoRow /\ mine = NoItem /\ tried = {} /\ host = NoHost
  /\ grabbed = {}
  /\ interrupts = 0 /\ retries = 0

-----------------------------------------------------------------------------
(* The client's download(): a queued row under the next free row id.       *)
Enqueue(i) ==
  /\ i \notin grabbed
  /\ grabbed' = grabbed \cup {i}
  /\ \E r \in Row :
       /\ \A s \in Row : s = r - 1 => Present(s)
       /\ \A s \in Row : s >= r => ~Present(s)
       /\ status' = [status EXCEPT ![r] = "queued"]
       /\ item' = [item EXCEPT ![r] = i]
       /\ failed' = [failed EXCEPT ![r] = {}]
       /\ output' = [output EXCEPT ![r] = NoFile]
  /\ UNCHANGED <<files, engine, limits>>

Become(r, from, to) ==
  /\ status[r] \in from
  /\ status' = [status EXCEPT ![r] = to]

Abort(r) ==
  /\ Become(r, {"queued", "downloading"}, "aborted")
  /\ UNCHANGED <<item, failed, output, files, engine, grabbed, limits>>

Retry(r) ==
  /\ retries < MaxRetries /\ retries' = retries + 1
  /\ Become(r, {"failed", "aborted"}, "queued")
  /\ failed' = [failed EXCEPT ![r] = {}]
  /\ UNCHANGED <<item, output, files, engine, grabbed, interrupts>>

Resume(r) ==
  /\ retries < MaxRetries /\ retries' = retries + 1
  /\ Become(r, {"failed"}, "queued")
  /\ UNCHANGED <<item, failed, output, files, engine, grabbed, interrupts>>

(* remove: the row goes; with deleteData its partial and its output go too. *)
(* An attempt that has the partial open keeps writing to an unlinked file.  *)
Remove(r, deleteData) ==
  /\ Present(r)
  /\ status' = [status EXCEPT ![r] = "absent"]
  /\ item' = [item EXCEPT ![r] = NoItem]
  /\ failed' = [failed EXCEPT ![r] = {}]
  /\ output' = [output EXCEPT ![r] = NoFile]
  /\ IF deleteData
       THEN /\ partial' = [partial EXCEPT ![r] = {}]
            /\ final' = [f \in File |-> IF f = output[r] THEN {} ELSE final[f]]
            /\ at' = IF at = "stream" /\ cur = r THEN "unlinked" ELSE at
       ELSE UNCHANGED <<partial, final, at>>
  /\ UNCHANGED <<cur, mine, tried, host, grabbed, limits>>

-----------------------------------------------------------------------------
(* One run of the process-ddl-queue command; its exclusivity group makes   *)
(* the engine single-flight.                                               *)

Goto(place) == at' = place
Drop(place) == /\ at' = place
               /\ cur' = NoRow /\ mine' = NoItem /\ tried' = {} /\ host' = NoHost

(* Faulty: the run starts without resetting orphaned rows.                 *)
RunStartWithoutReconcile ==
  /\ at = "idle"
  /\ Goto("claim")
  /\ UNCHANGED <<rows, files, cur, mine, tried, host, grabbed, limits>>

RunStart ==
  /\ at = "idle"
  /\ status' = [r \in Row |-> IF status[r] = "downloading" THEN "queued" ELSE status[r]]
  /\ Goto("claim")
  /\ UNCHANGED <<item, failed, output, files, cur, mine, tried, host, grabbed, limits>>

ClaimNext ==
  /\ at = "claim"
  /\ \E r \in Row :
       /\ status[r] = "queued"
       /\ \A s \in Row : s < r => status[s] # "queued"
       /\ status' = [status EXCEPT ![r] = "downloading"]
       /\ cur' = r
  /\ Goto("load")
  /\ UNCHANGED <<item, failed, output, files, mine, tried, host, grabbed, limits>>

RunEnd ==
  /\ at = "claim"
  /\ \A r \in Row : status[r] # "queued"
  /\ Goto("idle")
  /\ UNCHANGED <<rows, files, cur, mine, tried, host, grabbed, limits>>

(* The detached snapshot of the claimed row, read after the claim commits. *)
Load ==
  /\ at = "load"
  /\ IF Present(cur)
       THEN /\ Goto("check")
            /\ mine' = item[cur] /\ tried' = failed[cur]
            /\ UNCHANGED <<cur, host>>
       ELSE Drop("claim")
  /\ UNCHANGED <<rows, files, grabbed, limits>>

(* _is_downloading, asked before the page is fetched, after a failed       *)
(* attempt and after a successful one; otherwise the item is left alone.   *)
IsDownloading ==
  /\ at \in {"check", "failcheck", "donecheck"}
  /\ IF status[cur] = "downloading"
       THEN /\ Goto([check |-> "fetch", failcheck |-> "record", donecheck |-> "complete"][at])
            /\ UNCHANGED <<cur, mine, tried, host>>
       ELSE Drop("claim")
  /\ UNCHANGED <<rows, files, grabbed, limits>>

(* The post page is fetched live, so each fetch may offer other hosts; the *)
(* best-ranked one that has not failed is picked.                          *)
Fetch(offered) ==
  /\ at = "fetch"
  /\ IF offered \subseteq tried
       THEN Goto("giveup") /\ UNCHANGED host
       ELSE /\ \E h \in offered \ tried :
                 /\ \A k \in offered \ tried : Rank[h] <= Rank[k]
                 /\ host' = h
            /\ Goto("open")
  /\ UNCHANGED <<rows, files, cur, mine, tried, grabbed, limits>>

(* _mark_failed writes whatever row has the id, whatever its status.       *)
GiveUp ==
  /\ at = "giveup"
  /\ status' = [status EXCEPT ![cur] = IF Present(cur) THEN "failed" ELSE @]
  /\ Drop("claim")
  /\ UNCHANGED <<item, failed, output, files, grabbed, limits>>

(* The response headers arrived: a partial is appended to if the server    *)
(* honours the Range request, and written over otherwise.                  *)
Open ==
  /\ at = "open" /\ host \notin DeadHosts
  /\ \E kept \in {partial[cur], {}} :
       partial' = [partial EXCEPT ![cur] = kept \cup {<<mine, host>>}]
  /\ Goto("stream")
  /\ UNCHANGED <<rows, final, cur, mine, tried, host, grabbed, limits>>

(* The file passed verify_file and was renamed to its final name.          *)
Deliver ==
  /\ at = "stream"
  /\ final' = [final EXCEPT ![OutputOf[mine]] = partial[cur]]
  /\ partial' = [partial EXCEPT ![cur] = {}]
  /\ Goto("donecheck")
  /\ UNCHANGED <<rows, cur, mine, tried, host, grabbed, limits>>

(* A DdlDownloadError: an unsupported host, an error page, a wrong size or *)
(* a file that does not verify.                                            *)
Reject ==
  /\ at \in {"open", "stream"} /\ host \notin DeadHosts
  /\ Goto("failcheck")
  /\ UNCHANGED <<rows, files, cur, mine, tried, host, grabbed, limits>>

(* Faulty: the failed host's partial is kept for the next host.            *)
RecordKeepingPartial ==
  /\ at = "record"
  /\ tried' = tried \cup {host}
  /\ failed' = [failed EXCEPT ![cur] = IF Present(cur) THEN tried \cup {host} ELSE @]
  /\ Goto("check") /\ host' = NoHost
  /\ UNCHANGED <<status, item, output, files, cur, mine, grabbed, limits>>

(* Faulty: the failed host is not recorded, so it is picked again.         *)
RecordForgettingHost ==
  /\ at = "record"
  /\ partial' = [partial EXCEPT ![cur] = {}]
  /\ Goto("check") /\ host' = NoHost
  /\ UNCHANGED <<rows, final, cur, mine, tried, grabbed, limits>>

(* The failed host's partial is discarded and the host recorded.           *)
Record ==
  /\ at = "record"
  /\ partial' = [partial EXCEPT ![cur] = {}]
  /\ tried' = tried \cup {host}
  /\ failed' = [failed EXCEPT ![cur] = IF Present(cur) THEN tried \cup {host} ELSE @]
  /\ Goto("check") /\ host' = NoHost
  /\ UNCHANGED <<status, item, output, final, cur, mine, grabbed, limits>>

(* _complete writes whatever row has the id, whatever its status.          *)
Complete ==
  /\ at = "complete"
  /\ IF Present(cur)
       THEN /\ status' = [status EXCEPT ![cur] = "completed"]
            /\ output' = [output EXCEPT ![cur] = OutputOf[mine]]
       ELSE UNCHANGED <<status, output>>
  /\ Drop("claim")
  /\ UNCHANGED <<item, failed, files, grabbed, limits>>

(* A transport error is not a DdlDownloadError: it leaves the run, and the *)
(* command fails with the row still downloading.  A dead host always ends  *)
(* so, another one within the bound on interruptions.                      *)
TransportFault ==
  /\ at = "open"
  /\ IF host \in DeadHosts
       THEN UNCHANGED interrupts
       ELSE interrupts < MaxInterrupts /\ interrupts' = interrupts + 1
  /\ \E got \in {partial[cur], partial[cur] \cup {<<mine, host>>}, {<<mine, host>>}} :
       partial' = [partial EXCEPT ![cur] = got]
  /\ Drop("idle")
  /\ UNCHANGED <<rows, final, grabbed, retries>>

(* The end of an attempt whose partial was unlinked under it: stat raises  *)
(* FileNotFoundError, which also leaves the run.                           *)
FileGone ==
  /\ at = "unlinked"
  /\ Drop("idle")
  /\ UNCHANGED <<rows, files, grabbed, limits>>

(* The process dies, the drain cancels the command, or a write gives up.   *)
Interrupt ==
  /\ at # "idle" /\ interrupts < MaxInterrupts
  /\ interrupts' = interrupts + 1
  /\ Drop("idle")
  /\ UNCHANGED <<rows, files, grabbed, retries>>

EngineStep ==
  \/ RunStart \/ ClaimNext \/ RunEnd \/ Load \/ IsDownloading
  \/ \E offered \in SUBSET Host : Fetch(offered)
  \/ GiveUp \/ Open \/ Deliver \/ Reject \/ Record \/ Complete
  \/ TransportFault \/ FileGone

UserStep ==
  \/ \E i \in Item : Enqueue(i)
  \/ \E r \in Row : Abort(r) \/ Retry(r) \/ Resume(r)
  \/ \E r \in Row, deleteData \in BOOLEAN : Remove(r, deleteData)

Next == EngineStep \/ UserStep \/ Interrupt

Spec == Init /\ [][Next]_vars

(* The scheduler starts the command again and again, and each await of a   *)
(* run ends; users owe nothing.                                            *)
FairSpec == Spec /\ WF_vars(EngineStep)

-----------------------------------------------------------------------------
TypeOK ==
  /\ status \in [Row -> Status]
  /\ item \in [Row -> Item \cup {NoItem}]
  /\ failed \in [Row -> SUBSET Host]
  /\ output \in [Row -> File \cup {NoFile}]
  /\ partial \in [Row -> SUBSET Stream]
  /\ final \in [File -> SUBSET Stream]
  /\ at \in Place
  /\ cur \in Row \cup {NoRow}
  /\ mine \in Item \cup {NoItem}
  /\ tried \subseteq Host
  /\ host \in Host \cup {NoHost}
  /\ grabbed \subseteq Item
  /\ interrupts \in Nat /\ retries \in Nat

(* FRG-DDL-007: at most one item is downloading, however runs die and      *)
(* users abort, retry and remove.                                          *)
SingleFlight ==
  \A r, s \in Row : status[r] = "downloading" /\ status[s] = "downloading" => r = s

(* A host recorded as failed for an item leaves none of its bytes in the   *)
(* item's partial, so the next host starts clean.                          *)
FailedHostLeavesNothing ==
  \A r \in Row, h \in Host :
    h \in failed[r] => <<item[r], h>> \notin partial[r]

(* A completed item has a staged file to import.                           *)
CompletedHasFile ==
  \A r \in Row : status[r] = "completed" => output[r] # NoFile /\ final[output[r]] # {}

(* Every queued item eventually completes or fails, unless a user stops it. *)
EveryItemSettles ==
  \A r \in Row : status[r] = "queued" ~> status[r] \notin {"queued", "downloading"}
=============================================================================
