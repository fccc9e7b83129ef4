-------------------------- MODULE DdlQueue_proofs ---------------------------
(***************************************************************************)
(* The direct-download queue is single-flight and a failed host's bytes    *)
(* are discarded, for any number of items, hosts, faults and user actions; *)
(* and when two items never share an output name, a completed item has a   *)
(* file, although rows are removed and their ids taken again mid-attempt.  *)
(***************************************************************************)
EXTENDS DdlQueue, TLAPS

Attempting == {"open", "stream", "unlinked", "failcheck", "record", "donecheck", "complete"}
Loaded     == at \notin {"idle", "claim", "load"}

(* The engine's locals: it has a row, and the row's snapshot, exactly       *)
(* between a claim and its end; a host not tried before, from the pick on.  *)
Locals ==
  /\ at \in {"idle", "claim"} <=> cur = NoRow
  /\ Loaded => mine \in Item
  /\ at \in Attempting => host \in Host \ tried

(* A row that is there holds an item.                                      *)
RowsHoldItems == \A r \in Row : Present(r) => item[r] \in Item

(* While a run is on, only its row can be downloading.                      *)
InFlightIsCurrent ==
  \A r \in Row : status[r] = "downloading" /\ at # "idle" => r = cur

(* The engine's failed set is at least what its row has recorded, even when *)
(* the row was removed and its id taken by another item.                    *)
RecordedIsTried == Loaded => failed[cur] \subseteq tried

Inv ==
  /\ TypeOK /\ RowsHoldItems /\ Locals /\ SingleFlight /\ InFlightIsCurrent
  /\ RecordedIsTried /\ FailedHostLeavesNothing

(* The engine's idle row id is not an id of the table.                      *)
LEMMA NoRowIsNoRow == NoRow \notin Row
  BY ItemsAssumption DEF Row, NoRow

(* The empty ddl_queue satisfies the invariant.                             *)
LEMMA InitInv == Init => Inv
  BY ItemsAssumption, NoRowIsNoRow
  DEF Init, Inv, TypeOK, RowsHoldItems, Locals, SingleFlight, InFlightIsCurrent, RecordedIsTried,
      FailedHostLeavesNothing, Present, Status, Place, Loaded, Attempting, Stream, File

(* Every action keeps the invariant.                                        *)
LEMMA StepInv == Inv /\ [Next]_vars => Inv'
<1> SUFFICES ASSUME Inv, [Next]_vars PROVE Inv'
  OBVIOUS
<1> USE ItemsAssumption, NoRowIsNoRow DEF Inv
<1>1. ASSUME NEW i \in Item, Enqueue(i) PROVE Inv'
  <2> USE <1>1 DEF Enqueue, Present, files, engine, limits
  <2>1. TypeOK'
    BY DEF TypeOK, Status, Place, Stream, File
  <2>2. RowsHoldItems'
    BY DEF TypeOK, RowsHoldItems
  <2>3. Locals'
    BY DEF TypeOK, RowsHoldItems, Locals, Loaded, Attempting
  <2>4. SingleFlight'
    BY DEF TypeOK, Locals, SingleFlight, InFlightIsCurrent
  <2>5. InFlightIsCurrent'
    BY DEF TypeOK, Locals, SingleFlight, InFlightIsCurrent
  <2>6. RecordedIsTried'
    BY DEF TypeOK, Locals, RecordedIsTried, Loaded, Attempting
  <2>7. FailedHostLeavesNothing'
    BY DEF TypeOK, Locals, RecordedIsTried, FailedHostLeavesNothing, Loaded, Attempting
  <2> QED BY <2>1, <2>2, <2>3, <2>4, <2>5, <2>6, <2>7
<1>2. ASSUME NEW r \in Row, Abort(r) PROVE Inv'
  <2> USE <1>2 DEF Abort, Become, files, engine, limits
  <2>1. (Locals /\ RecordedIsTried /\ FailedHostLeavesNothing)'
    BY DEF Locals, RecordedIsTried, FailedHostLeavesNothing, Loaded, Attempting
  <2>2. TypeOK'
    BY DEF TypeOK, Status, Place, Stream, File
  <2>3. RowsHoldItems'
    BY DEF TypeOK, RowsHoldItems, Present
  <2>4. SingleFlight'
    BY DEF TypeOK, Locals, SingleFlight, InFlightIsCurrent
  <2>5. InFlightIsCurrent'
    BY DEF TypeOK, Locals, SingleFlight, InFlightIsCurrent
  <2> QED BY <2>1, <2>2, <2>3, <2>4, <2>5
<1>3. ASSUME NEW r \in Row, Retry(r) PROVE Inv'
  <2> USE <1>3 DEF Retry, Become, files, engine
  <2>1. TypeOK'
    BY DEF TypeOK, Status, Place, Stream, File
  <2>2. RowsHoldItems'
    BY DEF TypeOK, RowsHoldItems, Present
  <2>3. Locals'
    BY DEF TypeOK, RowsHoldItems, Locals, Loaded, Attempting, Present
  <2>4. SingleFlight'
    BY DEF TypeOK, Locals, SingleFlight, InFlightIsCurrent
  <2>5. InFlightIsCurrent'
    BY DEF TypeOK, Locals, SingleFlight, InFlightIsCurrent
  <2>6. RecordedIsTried'
    BY DEF TypeOK, Locals, RecordedIsTried, Loaded, Attempting
  <2>7. FailedHostLeavesNothing'
    BY DEF TypeOK, Locals, RecordedIsTried, FailedHostLeavesNothing, Loaded, Attempting
  <2> QED BY <2>1, <2>2, <2>3, <2>4, <2>5, <2>6, <2>7
<1>4. ASSUME NEW r \in Row, Resume(r) PROVE Inv'
  <2> USE <1>4 DEF Resume, Become, files, engine
  <2>1. (Locals /\ RecordedIsTried /\ FailedHostLeavesNothing)'
    BY DEF Locals, RecordedIsTried, FailedHostLeavesNothing, Loaded, Attempting
  <2>2. TypeOK'
    BY DEF TypeOK, Status, Place, Stream, File
  <2>3. RowsHoldItems'
    BY DEF TypeOK, RowsHoldItems, Present
  <2>4. SingleFlight'
    BY DEF TypeOK, Locals, SingleFlight, InFlightIsCurrent
  <2>5. InFlightIsCurrent'
    BY DEF TypeOK, Locals, SingleFlight, InFlightIsCurrent
  <2> QED BY <2>1, <2>2, <2>3, <2>4, <2>5
<1>5. ASSUME NEW r \in Row, NEW deleteData \in BOOLEAN, Remove(r, deleteData) PROVE Inv'
  <2> USE <1>5 DEF Remove, Present, limits, File
  <2>1. TypeOK'
    BY DEF TypeOK, Status, Place, Stream
  <2>2. RowsHoldItems'
    BY DEF TypeOK, RowsHoldItems
  <2>3. Locals'
    BY DEF TypeOK, RowsHoldItems, Locals, Loaded, Attempting
  <2>4. SingleFlight'
    BY DEF TypeOK, Locals, SingleFlight, InFlightIsCurrent
  <2>5. InFlightIsCurrent'
    BY DEF TypeOK, Locals, SingleFlight, InFlightIsCurrent
  <2>6. RecordedIsTried'
    BY DEF TypeOK, Locals, RecordedIsTried, Loaded, Attempting
  <2>7. FailedHostLeavesNothing'
    BY DEF TypeOK, Locals, RecordedIsTried, FailedHostLeavesNothing, Loaded, Attempting
  <2> QED BY <2>1, <2>2, <2>3, <2>4, <2>5, <2>6, <2>7
<1>6. ASSUME RunStart PROVE Inv'
  <2> USE <1>6 DEF RunStart, Goto, files, limits
  <2>1. TypeOK'
    BY DEF TypeOK, Status, Place, Stream, File
  <2>2. RowsHoldItems'
    BY DEF TypeOK, RowsHoldItems, Present
  <2>3. Locals'
    BY DEF TypeOK, RowsHoldItems, Locals, Loaded, Attempting, Present
  <2>4. SingleFlight'
    BY DEF TypeOK, Locals, SingleFlight, InFlightIsCurrent
  <2>5. InFlightIsCurrent'
    BY DEF TypeOK, Locals, SingleFlight, InFlightIsCurrent
  <2>6. RecordedIsTried'
    BY DEF TypeOK, Locals, RecordedIsTried, Loaded, Attempting
  <2>7. FailedHostLeavesNothing'
    BY DEF TypeOK, Locals, RecordedIsTried, FailedHostLeavesNothing, Loaded, Attempting
  <2> QED BY <2>1, <2>2, <2>3, <2>4, <2>5, <2>6, <2>7
<1>7. ASSUME ClaimNext PROVE Inv'
  <2> USE <1>7 DEF ClaimNext, Goto, files, limits
  <2>1. TypeOK'
    BY DEF TypeOK, Status, Place, Stream, File
  <2>2. RowsHoldItems'
    BY DEF TypeOK, RowsHoldItems, Present
  <2>3. Locals'
    BY DEF TypeOK, RowsHoldItems, Locals, Loaded, Attempting, Present
  <2>4. SingleFlight'
    BY DEF TypeOK, Locals, SingleFlight, InFlightIsCurrent
  <2>5. InFlightIsCurrent'
    BY DEF TypeOK, Locals, SingleFlight, InFlightIsCurrent
  <2>6. RecordedIsTried'
    BY DEF TypeOK, Locals, RecordedIsTried, Loaded, Attempting
  <2>7. FailedHostLeavesNothing'
    BY DEF TypeOK, Locals, RecordedIsTried, FailedHostLeavesNothing, Loaded, Attempting
  <2> QED BY <2>1, <2>2, <2>3, <2>4, <2>5, <2>6, <2>7
<1>8. ASSUME RunEnd PROVE Inv'
  <2> USE <1>8 DEF RunEnd, Goto, rows, files, limits
  <2>1. (RowsHoldItems /\ SingleFlight /\ FailedHostLeavesNothing)'
    BY DEF RowsHoldItems, SingleFlight, FailedHostLeavesNothing, Present
  <2>2. TypeOK'
    BY DEF TypeOK, Status, Place, Stream, File
  <2>3. Locals'
    BY DEF TypeOK, RowsHoldItems, Locals, Loaded, Attempting, Present
  <2>4. InFlightIsCurrent'
    BY DEF TypeOK, Locals, SingleFlight, InFlightIsCurrent
  <2>5. RecordedIsTried'
    BY DEF TypeOK, Locals, RecordedIsTried, Loaded, Attempting
  <2> QED BY <2>1, <2>2, <2>3, <2>4, <2>5
<1>9. ASSUME Load PROVE Inv'
  <2> USE <1>9 DEF Load, Goto, Drop, Present, rows, files, limits
  <2>1. (RowsHoldItems /\ SingleFlight /\ FailedHostLeavesNothing)'
    BY DEF RowsHoldItems, SingleFlight, FailedHostLeavesNothing
  <2>2. TypeOK'
    BY DEF TypeOK, RowsHoldItems, Locals, Loaded, Attempting, Status, Place, Stream, File
  <2>3. Locals'
    BY DEF TypeOK, RowsHoldItems, Locals, Loaded, Attempting
  <2>4. InFlightIsCurrent'
    BY DEF TypeOK, Locals, SingleFlight, InFlightIsCurrent
  <2>5. RecordedIsTried'
    BY DEF TypeOK, Locals, RecordedIsTried, Loaded, Attempting
  <2> QED BY <2>1, <2>2, <2>3, <2>4, <2>5
<1>10. ASSUME IsDownloading PROVE Inv'
  <2> USE <1>10 DEF IsDownloading, Goto, Drop, rows, files, limits
  <2>1. (RowsHoldItems /\ SingleFlight /\ FailedHostLeavesNothing)'
    BY DEF RowsHoldItems, SingleFlight, FailedHostLeavesNothing, Present
  <2>2. TypeOK'
    BY DEF TypeOK, Status, Place, Stream, File
  <2>3. Locals'
    BY DEF TypeOK, RowsHoldItems, Locals, Loaded, Attempting, Present
  <2>4. InFlightIsCurrent'
    BY DEF TypeOK, Locals, SingleFlight, InFlightIsCurrent
  <2>5. RecordedIsTried'
    BY DEF TypeOK, Locals, RecordedIsTried, Loaded, Attempting
  <2> QED BY <2>1, <2>2, <2>3, <2>4, <2>5
<1>11. ASSUME NEW offered \in SUBSET Host, Fetch(offered) PROVE Inv'
  <2> USE <1>11 DEF Fetch, Goto, rows, files, limits
  <2>1. (RowsHoldItems /\ SingleFlight /\ FailedHostLeavesNothing)'
    BY DEF RowsHoldItems, SingleFlight, FailedHostLeavesNothing, Present
  <2>2. TypeOK'
    BY DEF TypeOK, Status, Place, Stream, File
  <2>3. Locals'
    BY DEF TypeOK, RowsHoldItems, Locals, Loaded, Attempting, Present
  <2>4. InFlightIsCurrent'
    BY DEF TypeOK, Locals, SingleFlight, InFlightIsCurrent
  <2>5. RecordedIsTried'
    BY DEF TypeOK, Locals, RecordedIsTried, Loaded, Attempting
  <2> QED BY <2>1, <2>2, <2>3, <2>4, <2>5
<1>12. ASSUME GiveUp PROVE Inv'
  <2> USE <1>12 DEF GiveUp, Drop, Present, files, limits
  <2>1. TypeOK'
    BY DEF TypeOK, Status, Place, Stream, File
  <2>2. RowsHoldItems'
    BY DEF TypeOK, RowsHoldItems
  <2>3. Locals'
    BY DEF TypeOK, RowsHoldItems, Locals, Loaded, Attempting
  <2>4. SingleFlight'
    BY DEF TypeOK, Locals, SingleFlight, InFlightIsCurrent
  <2>5. InFlightIsCurrent'
    BY DEF TypeOK, Locals, SingleFlight, InFlightIsCurrent
  <2>6. RecordedIsTried'
    BY DEF TypeOK, Locals, RecordedIsTried, Loaded, Attempting
  <2>7. FailedHostLeavesNothing'
    BY DEF TypeOK, Locals, RecordedIsTried, FailedHostLeavesNothing, Loaded, Attempting
  <2> QED BY <2>1, <2>2, <2>3, <2>4, <2>5, <2>6, <2>7
<1>13. ASSUME Open PROVE Inv'
  <2> USE <1>13 DEF Open, Goto, rows, limits
  <2>1. (RowsHoldItems /\ SingleFlight)'
    BY DEF RowsHoldItems, SingleFlight, Present
  <2>2. TypeOK'
    BY DEF TypeOK, RowsHoldItems, Locals, Loaded, Attempting, Status, Place, Stream, File
  <2>3. Locals'
    BY DEF TypeOK, RowsHoldItems, Locals, Loaded, Attempting, Present
  <2>4. InFlightIsCurrent'
    BY DEF TypeOK, Locals, SingleFlight, InFlightIsCurrent
  <2>5. RecordedIsTried'
    BY DEF TypeOK, Locals, RecordedIsTried, Loaded, Attempting
  <2>6. FailedHostLeavesNothing'
    BY DEF TypeOK, Locals, RecordedIsTried, FailedHostLeavesNothing, Loaded, Attempting
  <2> QED BY <2>1, <2>2, <2>3, <2>4, <2>5, <2>6
<1>14. ASSUME Deliver PROVE Inv'
  <2> USE <1>14 DEF Deliver, Goto, rows, limits
  <2>1. (RowsHoldItems /\ SingleFlight)'
    BY DEF RowsHoldItems, SingleFlight, Present
  <2>2. TypeOK'
    BY DEF TypeOK, RowsHoldItems, Locals, Loaded, Attempting, Status, Place, Stream, File
  <2>3. Locals'
    BY DEF TypeOK, RowsHoldItems, Locals, Loaded, Attempting, Present
  <2>4. InFlightIsCurrent'
    BY DEF TypeOK, Locals, SingleFlight, InFlightIsCurrent
  <2>5. RecordedIsTried'
    BY DEF TypeOK, Locals, RecordedIsTried, Loaded, Attempting
  <2>6. FailedHostLeavesNothing'
    BY DEF TypeOK, Locals, RecordedIsTried, FailedHostLeavesNothing, Loaded, Attempting
  <2> QED BY <2>1, <2>2, <2>3, <2>4, <2>5, <2>6
<1>15. ASSUME Reject PROVE Inv'
  <2> USE <1>15 DEF Reject, Goto, rows, files, limits
  <2>1. (RowsHoldItems /\ SingleFlight /\ FailedHostLeavesNothing)'
    BY DEF RowsHoldItems, SingleFlight, FailedHostLeavesNothing, Present
  <2>2. TypeOK'
    BY DEF TypeOK, Status, Place, Stream, File
  <2>3. Locals'
    BY DEF TypeOK, RowsHoldItems, Locals, Loaded, Attempting, Present
  <2>4. InFlightIsCurrent'
    BY DEF TypeOK, Locals, SingleFlight, InFlightIsCurrent
  <2>5. RecordedIsTried'
    BY DEF TypeOK, Locals, RecordedIsTried, Loaded, Attempting
  <2> QED BY <2>1, <2>2, <2>3, <2>4, <2>5
<1>16. ASSUME Record PROVE Inv'
  <2> USE <1>16 DEF Record, Goto, Present, limits
  <2>1. (RowsHoldItems /\ SingleFlight)'
    BY DEF RowsHoldItems, SingleFlight
  <2>2. TypeOK'
    BY DEF TypeOK, RowsHoldItems, Locals, Loaded, Attempting, Status, Place, Stream, File
  <2>3. Locals'
    BY DEF TypeOK, RowsHoldItems, Locals, Loaded, Attempting
  <2>4. InFlightIsCurrent'
    BY DEF TypeOK, Locals, SingleFlight, InFlightIsCurrent
  <2>5. RecordedIsTried'
    BY DEF TypeOK, Locals, RecordedIsTried, Loaded, Attempting
  <2>6. FailedHostLeavesNothing'
    BY DEF TypeOK, Locals, RecordedIsTried, FailedHostLeavesNothing, Loaded, Attempting
  <2> QED BY <2>1, <2>2, <2>3, <2>4, <2>5, <2>6
<1>17. ASSUME Complete PROVE Inv'
  <2> USE <1>17 DEF Complete, Drop, Present, files, limits
  <2>1. TypeOK'
    BY DEF TypeOK, RowsHoldItems, Locals, Loaded, Attempting, Status, Place, Stream, File
  <2>2. RowsHoldItems'
    BY DEF TypeOK, RowsHoldItems
  <2>3. Locals'
    BY DEF TypeOK, RowsHoldItems, Locals, Loaded, Attempting
  <2>4. SingleFlight'
    BY DEF TypeOK, Locals, SingleFlight, InFlightIsCurrent
  <2>5. InFlightIsCurrent'
    BY DEF TypeOK, Locals, SingleFlight, InFlightIsCurrent
  <2>6. RecordedIsTried'
    BY DEF TypeOK, Locals, RecordedIsTried, Loaded, Attempting
  <2>7. FailedHostLeavesNothing'
    BY DEF TypeOK, Locals, RecordedIsTried, FailedHostLeavesNothing, Loaded, Attempting
  <2> QED BY <2>1, <2>2, <2>3, <2>4, <2>5, <2>6, <2>7
<1>18. ASSUME TransportFault PROVE Inv'
  <2> USE <1>18 DEF TransportFault, Drop, rows, limits
  <2>1. (RowsHoldItems /\ SingleFlight)'
    BY DEF RowsHoldItems, SingleFlight, Present
  <2>2. TypeOK'
    BY DEF TypeOK, RowsHoldItems, Locals, Loaded, Attempting, Status, Place, Stream, File
  <2>3. Locals'
    BY DEF TypeOK, RowsHoldItems, Locals, Loaded, Attempting, Present
  <2>4. InFlightIsCurrent'
    BY DEF TypeOK, Locals, SingleFlight, InFlightIsCurrent
  <2>5. RecordedIsTried'
    BY DEF TypeOK, Locals, RecordedIsTried, Loaded, Attempting
  <2>6. FailedHostLeavesNothing'
    BY DEF TypeOK, Locals, RecordedIsTried, FailedHostLeavesNothing, Loaded, Attempting
  <2> QED BY <2>1, <2>2, <2>3, <2>4, <2>5, <2>6
<1>19. ASSUME FileGone PROVE Inv'
  <2> USE <1>19 DEF FileGone, Drop, rows, files, limits
  <2>1. (RowsHoldItems /\ SingleFlight /\ FailedHostLeavesNothing)'
    BY DEF RowsHoldItems, SingleFlight, FailedHostLeavesNothing, Present
  <2>2. TypeOK'
    BY DEF TypeOK, Status, Place, Stream, File
  <2>3. Locals'
    BY DEF TypeOK, RowsHoldItems, Locals, Loaded, Attempting, Present
  <2>4. InFlightIsCurrent'
    BY DEF TypeOK, Locals, SingleFlight, InFlightIsCurrent
  <2>5. RecordedIsTried'
    BY DEF TypeOK, Locals, RecordedIsTried, Loaded, Attempting
  <2> QED BY <2>1, <2>2, <2>3, <2>4, <2>5
<1>20. ASSUME Interrupt PROVE Inv'
  <2> USE <1>20 DEF Interrupt, Drop, rows, files
  <2>1. (RowsHoldItems /\ SingleFlight /\ FailedHostLeavesNothing)'
    BY DEF RowsHoldItems, SingleFlight, FailedHostLeavesNothing, Present
  <2>2. TypeOK'
    BY DEF TypeOK, Status, Place, Stream, File
  <2>3. Locals'
    BY DEF TypeOK, RowsHoldItems, Locals, Loaded, Attempting, Present
  <2>4. InFlightIsCurrent'
    BY DEF TypeOK, Locals, SingleFlight, InFlightIsCurrent
  <2>5. RecordedIsTried'
    BY DEF TypeOK, Locals, RecordedIsTried, Loaded, Attempting
  <2> QED BY <2>1, <2>2, <2>3, <2>4, <2>5
<1>21. CASE UNCHANGED vars
  BY <1>21 DEF vars, TypeOK, RowsHoldItems, Locals, SingleFlight, InFlightIsCurrent,
     RecordedIsTried, FailedHostLeavesNothing, Loaded, Attempting, Present
<1> QED BY <1>1, <1>2, <1>3, <1>4, <1>5, <1>6, <1>7, <1>8, <1>9, <1>10, <1>11,
           <1>12, <1>13, <1>14, <1>15, <1>16, <1>17, <1>18, <1>19, <1>20, <1>21 DEF Next, EngineStep, UserStep

(***************************************************************************)
(* A completed item has its file.  The engine delivers the file in one     *)
(* step and records it in another, and in between its row may be removed   *)
(* and the id given to another item, so the argument follows the outputs:  *)
(* each is recorded by one row, and by none while its item is attempted.   *)
(***************************************************************************)
Injective == \A i, j \in Item : OutputOf[i] = OutputOf[j] => i = j

Unsettled == {"queued", "downloading", "failed", "aborted"}

(* An item is in at most one row, and only after it was enqueued.           *)
RowsAreGrabbed ==
  /\ \A r \in Row : Present(r) => item[r] \in grabbed
  /\ \A r \in Row : ~Present(r) => item[r] = NoItem /\ output[r] = NoFile
  /\ \A r, s \in Row : Present(r) /\ item[r] = item[s] => r = s

(* The attempted item is in the current row or in none.                     *)
SnapshotIsCurrent ==
  Loaded => mine \in grabbed /\ \A r \in Row : item[r] = mine => r = cur

StreamHasBytes == at = "stream" => partial[cur] # {}

(* A recorded output exists, and so does the one about to be recorded.      *)
OutputHasFile == \A r \in Row : output[r] # NoFile => final[output[r]] # {}
DeliveredHasFile == at \in {"donecheck", "complete"} => final[OutputOf[mine]] # {}

(* No two rows record one output, and no row records the output of an item  *)
(* that is still attempted or still unsettled in some row.                  *)
OutputOwned ==
  \A r, s \in Row : output[r] # NoFile /\ output[r] = output[s] => r = s
AttemptUnrecorded == Loaded => \A r \in Row : output[r] # OutputOf[mine]
LiveUnrecorded ==
  \A r, s \in Row : status[r] \in Unsettled => output[s] # OutputOf[item[r]]
OutputFromGrabbed ==
  \A r \in Row : output[r] # NoFile => \E i \in grabbed : output[r] = OutputOf[i]

CompletedHasOutput == \A r \in Row : status[r] = "completed" => output[r] # NoFile

(* The engine never holds a completed row.                                  *)
CurrentUnsettled == cur # NoRow => status[cur] # "completed"

FileInv ==
  /\ RowsAreGrabbed /\ SnapshotIsCurrent /\ StreamHasBytes
  /\ OutputHasFile /\ DeliveredHasFile /\ OutputOwned /\ AttemptUnrecorded
  /\ LiveUnrecorded /\ OutputFromGrabbed /\ CompletedHasOutput /\ CurrentUnsettled

(* The empty ddl_queue and staging directory satisfy the file invariant.    *)
LEMMA InitFileInv == Init => FileInv
  BY ItemsAssumption
  DEF Init, FileInv, RowsAreGrabbed, SnapshotIsCurrent, StreamHasBytes, OutputHasFile,
      DeliveredHasFile, OutputOwned, AttemptUnrecorded, LiveUnrecorded, OutputFromGrabbed,
      CompletedHasOutput, CurrentUnsettled, Loaded, Unsettled, Present, Row

(* Every action keeps it.                                                   *)
LEMMA FileStep ==
  ASSUME Injective, Inv, FileInv, [Next]_vars PROVE FileInv'
<1> USE ItemsAssumption, NoRowIsNoRow DEF Inv, FileInv, TypeOK, RowsHoldItems, Locals,
      Present, Loaded
<1>1. ASSUME NEW i \in Item, Enqueue(i) PROVE FileInv'
  <2> USE <1>1 DEF Enqueue, files, engine, limits
  <2>1. (StreamHasBytes /\ DeliveredHasFile)'
    BY DEF StreamHasBytes, DeliveredHasFile
  <2>2. RowsAreGrabbed'
    BY DEF RowsAreGrabbed
  <2>3. SnapshotIsCurrent'
    BY DEF SnapshotIsCurrent, RowsAreGrabbed, Attempting, Unsettled
  <2>4. OutputHasFile'
    BY DEF OutputHasFile, OutputOwned, StreamHasBytes, AttemptUnrecorded, DeliveredHasFile,
           Attempting, File, Stream
  <2>5. OutputOwned'
    BY DEF OutputOwned, AttemptUnrecorded, Attempting
  <2>6. AttemptUnrecorded'
    BY DEF AttemptUnrecorded, CurrentUnsettled, LiveUnrecorded, SnapshotIsCurrent, Status,
           Attempting, Unsettled, File, Injective
  <2>7. LiveUnrecorded'
    BY DEF LiveUnrecorded, CurrentUnsettled, RowsAreGrabbed, SnapshotIsCurrent,
           OutputFromGrabbed, Status, Attempting, Unsettled, File, Injective
  <2>8. OutputFromGrabbed'
    BY DEF OutputFromGrabbed, SnapshotIsCurrent, Attempting
  <2>9. CompletedHasOutput'
    BY DEF CompletedHasOutput, Attempting
  <2>10. CurrentUnsettled'
    BY DEF CurrentUnsettled, Attempting
  <2> QED BY <2>1, <2>2, <2>3, <2>4, <2>5, <2>6, <2>7, <2>8, <2>9, <2>10
<1>2. ASSUME NEW r \in Row, Abort(r) PROVE FileInv'
  <2> USE <1>2 DEF Abort, Become, files, engine, limits
  <2>1. (SnapshotIsCurrent /\ StreamHasBytes /\ OutputHasFile /\ DeliveredHasFile /\
       OutputOwned /\ AttemptUnrecorded /\ OutputFromGrabbed)'
    BY DEF SnapshotIsCurrent, StreamHasBytes, OutputHasFile, DeliveredHasFile, OutputOwned,
           AttemptUnrecorded, OutputFromGrabbed
  <2>2. RowsAreGrabbed'
    BY DEF RowsAreGrabbed
  <2>3. LiveUnrecorded'
    BY DEF LiveUnrecorded, CurrentUnsettled, RowsAreGrabbed, SnapshotIsCurrent,
           OutputFromGrabbed, Status, Attempting, Unsettled, File, Injective
  <2>4. CompletedHasOutput'
    BY DEF CompletedHasOutput, Attempting
  <2>5. CurrentUnsettled'
    BY DEF CurrentUnsettled, Attempting
  <2> QED BY <2>1, <2>2, <2>3, <2>4, <2>5
<1>3. ASSUME NEW r \in Row, Retry(r) PROVE FileInv'
  <2> USE <1>3 DEF Retry, Become, files, engine
  <2>1. (SnapshotIsCurrent /\ StreamHasBytes /\ OutputHasFile /\ DeliveredHasFile /\
       OutputOwned /\ AttemptUnrecorded /\ OutputFromGrabbed)'
    BY DEF SnapshotIsCurrent, StreamHasBytes, OutputHasFile, DeliveredHasFile, OutputOwned,
           AttemptUnrecorded, OutputFromGrabbed
  <2>2. RowsAreGrabbed'
    BY DEF RowsAreGrabbed
  <2>3. LiveUnrecorded'
    BY DEF LiveUnrecorded, CurrentUnsettled, RowsAreGrabbed, SnapshotIsCurrent,
           OutputFromGrabbed, Status, Attempting, Unsettled, File, Injective
  <2>4. CompletedHasOutput'
    BY DEF CompletedHasOutput, Attempting
  <2>5. CurrentUnsettled'
    BY DEF CurrentUnsettled, Attempting
  <2> QED BY <2>1, <2>2, <2>3, <2>4, <2>5
<1>4. ASSUME NEW r \in Row, Resume(r) PROVE FileInv'
  <2> USE <1>4 DEF Resume, Become, files, engine
  <2>1. (SnapshotIsCurrent /\ StreamHasBytes /\ OutputHasFile /\ DeliveredHasFile /\
       OutputOwned /\ AttemptUnrecorded /\ OutputFromGrabbed)'
    BY DEF SnapshotIsCurrent, StreamHasBytes, OutputHasFile, DeliveredHasFile, OutputOwned,
           AttemptUnrecorded, OutputFromGrabbed
  <2>2. RowsAreGrabbed'
    BY DEF RowsAreGrabbed
  <2>3. LiveUnrecorded'
    BY DEF LiveUnrecorded, CurrentUnsettled, RowsAreGrabbed, SnapshotIsCurrent,
           OutputFromGrabbed, Status, Attempting, Unsettled, File, Injective
  <2>4. CompletedHasOutput'
    BY DEF CompletedHasOutput, Attempting
  <2>5. CurrentUnsettled'
    BY DEF CurrentUnsettled, Attempting
  <2> QED BY <2>1, <2>2, <2>3, <2>4, <2>5
<1>5. ASSUME NEW r \in Row, NEW deleteData \in BOOLEAN, Remove(r, deleteData) PROVE FileInv'
  <2> USE <1>5 DEF Remove, limits, File
  <2>1. RowsAreGrabbed'
    BY DEF RowsAreGrabbed
  <2>2. SnapshotIsCurrent'
    BY DEF SnapshotIsCurrent, RowsAreGrabbed, Attempting, Unsettled
  <2>3. StreamHasBytes'
    BY DEF StreamHasBytes
  <2>4. OutputHasFile'
    BY DEF OutputHasFile, OutputOwned, StreamHasBytes, AttemptUnrecorded, DeliveredHasFile,
           Attempting, Stream
  <2>5. DeliveredHasFile'
    BY DEF DeliveredHasFile, StreamHasBytes, AttemptUnrecorded, Attempting, Stream
  <2>6. OutputOwned'
    BY DEF OutputOwned, AttemptUnrecorded, Attempting
  <2>7. AttemptUnrecorded'
    BY DEF AttemptUnrecorded, CurrentUnsettled, LiveUnrecorded, SnapshotIsCurrent, Status,
           Attempting, Unsettled, Injective
  <2>8. LiveUnrecorded'
    BY DEF LiveUnrecorded, CurrentUnsettled, RowsAreGrabbed, SnapshotIsCurrent,
           OutputFromGrabbed, Status, Attempting, Unsettled, Injective
  <2>9. OutputFromGrabbed'
    BY DEF OutputFromGrabbed, SnapshotIsCurrent, Attempting
  <2>10. CompletedHasOutput'
    BY DEF CompletedHasOutput, Attempting
  <2>11. CurrentUnsettled'
    BY DEF CurrentUnsettled, Attempting
  <2> QED BY <2>1, <2>2, <2>3, <2>4, <2>5, <2>6, <2>7, <2>8, <2>9, <2>10, <2>11
<1>6. ASSUME RunStart PROVE FileInv'
  <2> USE <1>6 DEF RunStart, Goto, files, limits
  <2>1. (OutputHasFile /\ OutputOwned /\ OutputFromGrabbed)'
    BY DEF OutputHasFile, OutputOwned, OutputFromGrabbed
  <2>2. RowsAreGrabbed'
    BY DEF RowsAreGrabbed
  <2>3. SnapshotIsCurrent'
    BY DEF SnapshotIsCurrent, RowsAreGrabbed, Attempting, Unsettled
  <2>4. StreamHasBytes'
    BY DEF StreamHasBytes
  <2>5. DeliveredHasFile'
    BY DEF DeliveredHasFile, StreamHasBytes, AttemptUnrecorded, Attempting, File, Stream
  <2>6. AttemptUnrecorded'
    BY DEF AttemptUnrecorded, CurrentUnsettled, LiveUnrecorded, SnapshotIsCurrent, Status,
           Attempting, Unsettled, File, Injective
  <2>7. LiveUnrecorded'
    BY DEF LiveUnrecorded, CurrentUnsettled, RowsAreGrabbed, SnapshotIsCurrent,
           OutputFromGrabbed, Status, Attempting, Unsettled, File, Injective
  <2>8. CompletedHasOutput'
    BY DEF CompletedHasOutput, Attempting
  <2>9. CurrentUnsettled'
    BY DEF CurrentUnsettled, Attempting
  <2> QED BY <2>1, <2>2, <2>3, <2>4, <2>5, <2>6, <2>7, <2>8, <2>9
<1>7. ASSUME ClaimNext PROVE FileInv'
  <2> USE <1>7 DEF ClaimNext, Goto, files, limits
  <2>1. (OutputHasFile /\ OutputOwned /\ OutputFromGrabbed)'
    BY DEF OutputHasFile, OutputOwned, OutputFromGrabbed
  <2>2. RowsAreGrabbed'
    BY DEF RowsAreGrabbed
  <2>3. SnapshotIsCurrent'
    BY DEF SnapshotIsCurrent, RowsAreGrabbed, Attempting, Unsettled
  <2>4. StreamHasBytes'
    BY DEF StreamHasBytes
  <2>5. DeliveredHasFile'
    BY DEF DeliveredHasFile, StreamHasBytes, AttemptUnrecorded, Attempting, File, Stream
  <2>6. AttemptUnrecorded'
    BY DEF AttemptUnrecorded, CurrentUnsettled, LiveUnrecorded, SnapshotIsCurrent, Status,
           Attempting, Unsettled, File, Injective
  <2>7. LiveUnrecorded'
    BY DEF LiveUnrecorded, CurrentUnsettled, RowsAreGrabbed, SnapshotIsCurrent,
           OutputFromGrabbed, Status, Attempting, Unsettled, File, Injective
  <2>8. CompletedHasOutput'
    BY DEF CompletedHasOutput, Attempting
  <2>9. CurrentUnsettled'
    BY DEF CurrentUnsettled, Attempting
  <2> QED BY <2>1, <2>2, <2>3, <2>4, <2>5, <2>6, <2>7, <2>8, <2>9
<1>8. ASSUME RunEnd PROVE FileInv'
  <2> USE <1>8 DEF RunEnd, Goto, rows, files, limits
  <2>1. (RowsAreGrabbed /\ OutputHasFile /\ OutputOwned /\ LiveUnrecorded /\
       OutputFromGrabbed /\ CompletedHasOutput /\ CurrentUnsettled)'
    BY DEF RowsAreGrabbed, OutputHasFile, OutputOwned, LiveUnrecorded, OutputFromGrabbed,
           CompletedHasOutput, CurrentUnsettled, Unsettled
  <2>2. SnapshotIsCurrent'
    BY DEF SnapshotIsCurrent, RowsAreGrabbed, Attempting, Unsettled
  <2>3. StreamHasBytes'
    BY DEF StreamHasBytes
  <2>4. DeliveredHasFile'
    BY DEF DeliveredHasFile, StreamHasBytes, AttemptUnrecorded, Attempting, File, Stream
  <2>5. AttemptUnrecorded'
    BY DEF AttemptUnrecorded, CurrentUnsettled, LiveUnrecorded, SnapshotIsCurrent, Status,
           Attempting, Unsettled, File, Injective
  <2> QED BY <2>1, <2>2, <2>3, <2>4, <2>5
<1>9. ASSUME Load PROVE FileInv'
  <2> USE <1>9 DEF Load, Goto, Drop, rows, files, limits
  <2>1. (RowsAreGrabbed /\ OutputHasFile /\ OutputOwned /\ LiveUnrecorded /\
       OutputFromGrabbed /\ CompletedHasOutput)'
    BY DEF RowsAreGrabbed, OutputHasFile, OutputOwned, LiveUnrecorded, OutputFromGrabbed,
           CompletedHasOutput, Unsettled
  <2>2. SnapshotIsCurrent'
    BY DEF SnapshotIsCurrent, RowsAreGrabbed, Attempting, Unsettled
  <2>3. StreamHasBytes'
    BY DEF StreamHasBytes
  <2>4. DeliveredHasFile'
    BY DEF DeliveredHasFile, StreamHasBytes, AttemptUnrecorded, Attempting, File, Stream
  <2>5. AttemptUnrecorded'
    BY DEF AttemptUnrecorded, CurrentUnsettled, LiveUnrecorded, SnapshotIsCurrent, Status,
           Attempting, Unsettled, File, Injective
  <2>6. CurrentUnsettled'
    BY DEF CurrentUnsettled, Attempting
  <2> QED BY <2>1, <2>2, <2>3, <2>4, <2>5, <2>6
<1>10. ASSUME IsDownloading PROVE FileInv'
  <2> USE <1>10 DEF IsDownloading, Goto, Drop, rows, files, limits
  <2>1. (RowsAreGrabbed /\ OutputHasFile /\ OutputOwned /\ LiveUnrecorded /\
       OutputFromGrabbed /\ CompletedHasOutput)'
    BY DEF RowsAreGrabbed, OutputHasFile, OutputOwned, LiveUnrecorded, OutputFromGrabbed,
           CompletedHasOutput, Unsettled
  <2>2. SnapshotIsCurrent'
    BY DEF SnapshotIsCurrent, RowsAreGrabbed, Attempting, Unsettled
  <2>3. StreamHasBytes'
    BY DEF StreamHasBytes
  <2>4. DeliveredHasFile'
    BY DEF DeliveredHasFile, StreamHasBytes, AttemptUnrecorded, Attempting, File, Stream
  <2>5. AttemptUnrecorded'
    BY DEF AttemptUnrecorded, CurrentUnsettled, LiveUnrecorded, SnapshotIsCurrent, Status,
           Attempting, Unsettled, File, Injective
  <2>6. CurrentUnsettled'
    BY DEF CurrentUnsettled, Attempting
  <2> QED BY <2>1, <2>2, <2>3, <2>4, <2>5, <2>6
<1>11. ASSUME NEW offered \in SUBSET Host, Fetch(offered) PROVE FileInv'
  <2> USE <1>11 DEF Fetch, Goto, rows, files, limits
  <2>1. (RowsAreGrabbed /\ OutputHasFile /\ OutputOwned /\ LiveUnrecorded /\
       OutputFromGrabbed /\ CompletedHasOutput /\ CurrentUnsettled)'
    BY DEF RowsAreGrabbed, OutputHasFile, OutputOwned, LiveUnrecorded, OutputFromGrabbed,
           CompletedHasOutput, CurrentUnsettled, Unsettled
  <2>2. SnapshotIsCurrent'
    BY DEF SnapshotIsCurrent, RowsAreGrabbed, Attempting, Unsettled
  <2>3. StreamHasBytes'
    BY DEF StreamHasBytes
  <2>4. DeliveredHasFile'
    BY DEF DeliveredHasFile, StreamHasBytes, AttemptUnrecorded, Attempting, File, Stream
  <2>5. AttemptUnrecorded'
    BY DEF AttemptUnrecorded, CurrentUnsettled, LiveUnrecorded, SnapshotIsCurrent, Status,
           Attempting, Unsettled, File, Injective
  <2> QED BY <2>1, <2>2, <2>3, <2>4, <2>5
<1>12. ASSUME GiveUp PROVE FileInv'
  <2> USE <1>12 DEF GiveUp, Drop, files, limits
  <2>1. (OutputHasFile /\ OutputOwned /\ OutputFromGrabbed)'
    BY DEF OutputHasFile, OutputOwned, OutputFromGrabbed
  <2>2. RowsAreGrabbed'
    BY DEF RowsAreGrabbed
  <2>3. SnapshotIsCurrent'
    BY DEF SnapshotIsCurrent, RowsAreGrabbed, Attempting, Unsettled
  <2>4. StreamHasBytes'
    BY DEF StreamHasBytes
  <2>5. DeliveredHasFile'
    BY DEF DeliveredHasFile, StreamHasBytes, AttemptUnrecorded, Attempting, File, Stream
  <2>6. AttemptUnrecorded'
    BY DEF AttemptUnrecorded, CurrentUnsettled, LiveUnrecorded, SnapshotIsCurrent, Status,
           Attempting, Unsettled, File, Injective
  <2>7. LiveUnrecorded'
    BY DEF LiveUnrecorded, CurrentUnsettled, RowsAreGrabbed, SnapshotIsCurrent,
           OutputFromGrabbed, Status, Attempting, Unsettled, File, Injective
  <2>8. CompletedHasOutput'
    BY DEF CompletedHasOutput, Attempting
  <2>9. CurrentUnsettled'
    BY DEF CurrentUnsettled, Attempting
  <2> QED BY <2>1, <2>2, <2>3, <2>4, <2>5, <2>6, <2>7, <2>8, <2>9
<1>13. ASSUME Open PROVE FileInv'
  <2> USE <1>13 DEF Open, Goto, rows, limits
  <2>1. (RowsAreGrabbed /\ OutputHasFile /\ OutputOwned /\ LiveUnrecorded /\
       OutputFromGrabbed /\ CompletedHasOutput /\ CurrentUnsettled)'
    BY DEF RowsAreGrabbed, OutputHasFile, OutputOwned, LiveUnrecorded, OutputFromGrabbed,
           CompletedHasOutput, CurrentUnsettled, Unsettled
  <2>2. SnapshotIsCurrent'
    BY DEF SnapshotIsCurrent, RowsAreGrabbed, Attempting, Unsettled
  <2>3. StreamHasBytes'
    <3>1. PICK kept \in {partial[cur], {}} :
             partial' = [partial EXCEPT ![cur] = kept \cup {<<mine, host>>}]
      OBVIOUS
    <3>2. partial'[cur] = kept \cup {<<mine, host>>}
      BY <3>1
    <3> QED BY <3>2 DEF StreamHasBytes
  <2>4. DeliveredHasFile'
    BY DEF DeliveredHasFile, StreamHasBytes, AttemptUnrecorded, Attempting, File, Stream
  <2>5. AttemptUnrecorded'
    BY DEF AttemptUnrecorded, CurrentUnsettled, LiveUnrecorded, SnapshotIsCurrent, Status,
           Attempting, Unsettled, File, Injective
  <2> QED BY <2>1, <2>2, <2>3, <2>4, <2>5
<1>14. ASSUME Deliver PROVE FileInv'
  <2> USE <1>14 DEF Deliver, Goto, rows, limits
  <2>1. (RowsAreGrabbed /\ OutputOwned /\ LiveUnrecorded /\ OutputFromGrabbed /\
       CompletedHasOutput /\ CurrentUnsettled)'
    BY DEF RowsAreGrabbed, OutputOwned, LiveUnrecorded, OutputFromGrabbed,
           CompletedHasOutput, CurrentUnsettled, Unsettled
  <2>2. SnapshotIsCurrent'
    BY DEF SnapshotIsCurrent, RowsAreGrabbed, Attempting, Unsettled
  <2>3. StreamHasBytes'
    BY DEF StreamHasBytes
  <2>4. OutputHasFile'
    BY DEF OutputHasFile, OutputOwned, StreamHasBytes, AttemptUnrecorded, DeliveredHasFile,
           Attempting, File, Stream
  <2>5. DeliveredHasFile'
    BY DEF DeliveredHasFile, StreamHasBytes, AttemptUnrecorded, Attempting, File, Stream
  <2>6. AttemptUnrecorded'
    BY DEF AttemptUnrecorded, CurrentUnsettled, LiveUnrecorded, SnapshotIsCurrent, Status,
           Attempting, Unsettled, File, Injective
  <2> QED BY <2>1, <2>2, <2>3, <2>4, <2>5, <2>6
<1>15. ASSUME Reject PROVE FileInv'
  <2> USE <1>15 DEF Reject, Goto, rows, files, limits
  <2>1. (RowsAreGrabbed /\ OutputHasFile /\ OutputOwned /\ LiveUnrecorded /\
       OutputFromGrabbed /\ CompletedHasOutput /\ CurrentUnsettled)'
    BY DEF RowsAreGrabbed, OutputHasFile, OutputOwned, LiveUnrecorded, OutputFromGrabbed,
           CompletedHasOutput, CurrentUnsettled, Unsettled
  <2>2. SnapshotIsCurrent'
    BY DEF SnapshotIsCurrent, RowsAreGrabbed, Attempting, Unsettled
  <2>3. StreamHasBytes'
    BY DEF StreamHasBytes
  <2>4. DeliveredHasFile'
    BY DEF DeliveredHasFile, StreamHasBytes, AttemptUnrecorded, Attempting, File, Stream
  <2>5. AttemptUnrecorded'
    BY DEF AttemptUnrecorded, CurrentUnsettled, LiveUnrecorded, SnapshotIsCurrent, Status,
           Attempting, Unsettled, File, Injective
  <2> QED BY <2>1, <2>2, <2>3, <2>4, <2>5
<1>16. ASSUME Record PROVE FileInv'
  <2> USE <1>16 DEF Record, Goto, limits
  <2>1. (RowsAreGrabbed /\ OutputHasFile /\ OutputOwned /\ LiveUnrecorded /\
       OutputFromGrabbed /\ CompletedHasOutput /\ CurrentUnsettled)'
    BY DEF RowsAreGrabbed, OutputHasFile, OutputOwned, LiveUnrecorded, OutputFromGrabbed,
           CompletedHasOutput, CurrentUnsettled, Unsettled
  <2>2. SnapshotIsCurrent'
    BY DEF SnapshotIsCurrent, RowsAreGrabbed, Attempting, Unsettled
  <2>3. StreamHasBytes'
    BY DEF StreamHasBytes
  <2>4. DeliveredHasFile'
    BY DEF DeliveredHasFile, StreamHasBytes, AttemptUnrecorded, Attempting, File, Stream
  <2>5. AttemptUnrecorded'
    BY DEF AttemptUnrecorded, CurrentUnsettled, LiveUnrecorded, SnapshotIsCurrent, Status,
           Attempting, Unsettled, File, Injective
  <2> QED BY <2>1, <2>2, <2>3, <2>4, <2>5
<1>17. ASSUME Complete PROVE FileInv'
  <2> USE <1>17 DEF Complete, Drop, files, limits
  <2>1. RowsAreGrabbed'
    BY DEF RowsAreGrabbed
  <2>2. SnapshotIsCurrent'
    BY DEF SnapshotIsCurrent, RowsAreGrabbed, Attempting, Unsettled
  <2>3. StreamHasBytes'
    BY DEF StreamHasBytes
  <2>4. OutputHasFile'
    BY DEF OutputHasFile, OutputOwned, StreamHasBytes, AttemptUnrecorded, DeliveredHasFile,
           Attempting, File, Stream
  <2>5. DeliveredHasFile'
    BY DEF DeliveredHasFile, StreamHasBytes, AttemptUnrecorded, Attempting, File, Stream
  <2>6. OutputOwned'
    BY DEF OutputOwned, AttemptUnrecorded, Attempting
  <2>7. AttemptUnrecorded'
    BY DEF AttemptUnrecorded, CurrentUnsettled, LiveUnrecorded, SnapshotIsCurrent, Status,
           Attempting, Unsettled, File, Injective
  <2>8. LiveUnrecorded'
    BY DEF LiveUnrecorded, CurrentUnsettled, RowsAreGrabbed, SnapshotIsCurrent,
           OutputFromGrabbed, Status, Attempting, Unsettled, File, Injective
  <2>9. OutputFromGrabbed'
    BY DEF OutputFromGrabbed, SnapshotIsCurrent, Attempting
  <2>10. CompletedHasOutput'
    BY DEF CompletedHasOutput, Attempting
  <2>11. CurrentUnsettled'
    BY DEF CurrentUnsettled, Attempting
  <2> QED BY <2>1, <2>2, <2>3, <2>4, <2>5, <2>6, <2>7, <2>8, <2>9, <2>10, <2>11
<1>18. ASSUME TransportFault PROVE FileInv'
  <2> USE <1>18 DEF TransportFault, Drop, rows, limits
  <2>1. (RowsAreGrabbed /\ OutputHasFile /\ OutputOwned /\ LiveUnrecorded /\
       OutputFromGrabbed /\ CompletedHasOutput)'
    BY DEF RowsAreGrabbed, OutputHasFile, OutputOwned, LiveUnrecorded, OutputFromGrabbed,
           CompletedHasOutput, Unsettled
  <2>2. SnapshotIsCurrent'
    BY DEF SnapshotIsCurrent, RowsAreGrabbed, Attempting, Unsettled
  <2>3. StreamHasBytes'
    BY DEF StreamHasBytes
  <2>4. DeliveredHasFile'
    BY DEF DeliveredHasFile, StreamHasBytes, AttemptUnrecorded, Attempting, File, Stream
  <2>5. AttemptUnrecorded'
    BY DEF AttemptUnrecorded, CurrentUnsettled, LiveUnrecorded, SnapshotIsCurrent, Status,
           Attempting, Unsettled, File, Injective
  <2>6. CurrentUnsettled'
    BY DEF CurrentUnsettled, Attempting
  <2> QED BY <2>1, <2>2, <2>3, <2>4, <2>5, <2>6
<1>19. ASSUME FileGone PROVE FileInv'
  <2> USE <1>19 DEF FileGone, Drop, rows, files, limits
  <2>1. (RowsAreGrabbed /\ OutputHasFile /\ OutputOwned /\ LiveUnrecorded /\
       OutputFromGrabbed /\ CompletedHasOutput)'
    BY DEF RowsAreGrabbed, OutputHasFile, OutputOwned, LiveUnrecorded, OutputFromGrabbed,
           CompletedHasOutput, Unsettled
  <2>2. SnapshotIsCurrent'
    BY DEF SnapshotIsCurrent, RowsAreGrabbed, Attempting, Unsettled
  <2>3. StreamHasBytes'
    BY DEF StreamHasBytes
  <2>4. DeliveredHasFile'
    BY DEF DeliveredHasFile, StreamHasBytes, AttemptUnrecorded, Attempting, File, Stream
  <2>5. AttemptUnrecorded'
    BY DEF AttemptUnrecorded, CurrentUnsettled, LiveUnrecorded, SnapshotIsCurrent, Status,
           Attempting, Unsettled, File, Injective
  <2>6. CurrentUnsettled'
    BY DEF CurrentUnsettled, Attempting
  <2> QED BY <2>1, <2>2, <2>3, <2>4, <2>5, <2>6
<1>20. ASSUME Interrupt PROVE FileInv'
  <2> USE <1>20 DEF Interrupt, Drop, rows, files
  <2>1. (RowsAreGrabbed /\ OutputHasFile /\ OutputOwned /\ LiveUnrecorded /\
       OutputFromGrabbed /\ CompletedHasOutput)'
    BY DEF RowsAreGrabbed, OutputHasFile, OutputOwned, LiveUnrecorded, OutputFromGrabbed,
           CompletedHasOutput, Unsettled
  <2>2. SnapshotIsCurrent'
    BY DEF SnapshotIsCurrent, RowsAreGrabbed, Attempting, Unsettled
  <2>3. StreamHasBytes'
    BY DEF StreamHasBytes
  <2>4. DeliveredHasFile'
    BY DEF DeliveredHasFile, StreamHasBytes, AttemptUnrecorded, Attempting, File, Stream
  <2>5. AttemptUnrecorded'
    BY DEF AttemptUnrecorded, CurrentUnsettled, LiveUnrecorded, SnapshotIsCurrent, Status,
           Attempting, Unsettled, File, Injective
  <2>6. CurrentUnsettled'
    BY DEF CurrentUnsettled, Attempting
  <2> QED BY <2>1, <2>2, <2>3, <2>4, <2>5, <2>6
<1>21. CASE UNCHANGED vars
  BY <1>21 DEF vars, RowsAreGrabbed, SnapshotIsCurrent, StreamHasBytes, OutputHasFile,
      DeliveredHasFile, OutputOwned, AttemptUnrecorded, LiveUnrecorded, OutputFromGrabbed,
      CompletedHasOutput, CurrentUnsettled, Unsettled
<1> QED BY <1>1, <1>2, <1>3, <1>4, <1>5, <1>6, <1>7, <1>8, <1>9, <1>10, <1>11,
           <1>12, <1>13, <1>14, <1>15, <1>16, <1>17, <1>18, <1>19, <1>20, <1>21 DEF Next, EngineStep, UserStep

-----------------------------------------------------------------------------
(* The inductive invariant holds of every reachable state.                  *)
THEOREM Invariance == Spec => []Inv
  BY InitInv, StepInv, PTL DEF Spec

(* The types of the queue's table, files and engine.                        *)
THEOREM TypeCorrect == Spec => []TypeOK
  BY Invariance, PTL DEF Inv

(* One item downloads at a time, for any number of rows, users and faults.  *)
THEOREM SingleFlightHolds == Spec => []SingleFlight
  BY Invariance, PTL DEF Inv

(* A host recorded as failed left no byte in its item's partial.            *)
THEOREM FailedHostsLeaveNothing == Spec => []FailedHostLeavesNothing
  BY Invariance, PTL DEF Inv

(* When no two items share an output name, a completed item has its file.   *)
THEOREM CompletedHaveFiles == ASSUME Injective PROVE Spec => []CompletedHasFile
<1>1. FileInv => CompletedHasFile
  BY DEF FileInv, OutputHasFile, CompletedHasOutput, CompletedHasFile
<1>2. Inv /\ FileInv /\ [Next]_vars => FileInv'
  BY FileStep, Injective
<1> QED
  BY <1>1, <1>2, InitFileInv, Invariance, PTL DEF Spec
=============================================================================
