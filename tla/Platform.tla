------------------------------- MODULE Platform -------------------------------
(***************************************************************************)
(* What carries an installation: a boot with its backups and migrations    *)
(* (Startup), the way in with its sessions, passwords and keys (Access),   *)
(* the listener with its limits, write lock and websocket (Edge), and the  *)
(* import of the library that was there before (LibraryImport).  They      *)
(* share no state here: the first state chooses the one that runs, of      *)
(* Focus.                                                                  *)
(***************************************************************************)
EXTENDS Integers, Sequences

CONSTANTS
  Focus,           \* the components explored
  Revisions, Keep, Deployments, Passwords, Keys, Unset,                \* Startup
  Clients, Source, Uses, SessionLife, TouchAfter, CacheLife,           \* Access
  CacheCapacity, Threshold, Window, BackoffBase, RegistryCapacity,
  MaxNow, MaxRequests, MaxTokens, MaxRestarts,
  Reqs, Writes, Peer, Sizes, Rows, Socks, RateMax, RateClients,        \* Edge
  QueueMax, MaxConnections, InboundMax, CancelledCommits, MaxAborts,
  MatchKey, Volume, NoVolume, File, KeyOf, Rank, Best, Loose, Unparsed,     \* LibraryImport
  Accepted, Scannable, Modes, Cap, Overlap, MaxActs, MaxScans,
  MaxImports, MaxFaults, MaxCrashes

VARIABLES
  focus,   \* the component that runs: the others rest in their first state
  bootEnv, bootDb, bootConfig, bootBackups, bootMarker, bootPc, bootJob, bootSpent,
  bootLimit,
  gateNow, gateSess, gateCurrent, gateBootstrap, gateCache, gateGeneration, gateWindows,
  gateRecent, gateHot, gateSeen, gateReq, gateOver, gateBound,
  edgeReq, edgeRate, edgeWriters, edgeRow, edgePending, edgeArmed, edgeSock, edgeView,
  edgeDue, edgeFaults,
  stagingInPlace, stagingDisk, stagingTracked, stagingSeries, stagingRows, stagingScan,
  stagingRequest, stagingExec, stagingMatching, stagingSpent

Boot == INSTANCE Startup WITH
  Regimes <- Deployments, env <- bootEnv, db <- bootDb, config <- bootConfig,
  backups <- bootBackups, marker <- bootMarker, pc <- bootPc, job <- bootJob,
  spent <- bootSpent, limit <- bootLimit
Gate == INSTANCE Access WITH
  now <- gateNow, sess <- gateSess, current <- gateCurrent, bootstrap <- gateBootstrap,
  cache <- gateCache, generation <- gateGeneration, windows <- gateWindows,
  recent <- gateRecent, hot <- gateHot, seen <- gateSeen, req <- gateReq, over <- gateOver,
  bound <- gateBound
Server == INSTANCE Edge WITH
  MaxFaults <- MaxAborts, req <- edgeReq, rate <- edgeRate, writers <- edgeWriters,
  row <- edgeRow, pending <- edgePending, armed <- edgeArmed, sock <- edgeSock,
  view <- edgeView, due <- edgeDue, faults <- edgeFaults
Staging == INSTANCE LibraryImport WITH
  Key <- MatchKey,
  inPlace <- stagingInPlace, disk <- stagingDisk, tracked <- stagingTracked,
  series <- stagingSeries, rows <- stagingRows, scan <- stagingScan,
  request <- stagingRequest, exec <- stagingExec, matching <- stagingMatching,
  spent <- stagingSpent

bootVars == <<bootEnv, bootDb, bootConfig, bootBackups, bootMarker, bootPc, bootJob, bootSpent,
               bootLimit>>
gateVars == <<gateNow, gateSess, gateCurrent, gateBootstrap, gateCache, gateGeneration,
               gateWindows, gateRecent, gateHot, gateSeen, gateReq, gateOver,
               gateBound>>
edgeVars == <<edgeReq, edgeRate, edgeWriters, edgeRow, edgePending, edgeArmed, edgeSock,
               edgeView, edgeDue, edgeFaults>>
stagingVars == <<stagingInPlace, stagingDisk, stagingTracked, stagingSeries, stagingRows,
                  stagingScan, stagingRequest, stagingExec, stagingMatching,
                  stagingSpent>>
vars == <<focus, bootVars, gateVars, edgeVars, stagingVars>>

ASSUME PlatformAssumption ==
  /\ Boot!StartupAssumption /\ Gate!AccessAssumption
  /\ Server!EdgeAssumption /\ Staging!LibraryImportAssumption

\* A component that rests does so in one of its initial states.
Init ==
  /\ focus \in Focus
  /\ Boot!Init /\ (focus = "boot" \/ bootLimit = (CHOOSE r \in Deployments : TRUE).limit)
  /\ Gate!Init /\ Server!Init
  /\ Staging!Init /\ (focus = "staging" \/ stagingInPlace)

BootApplication ==
  /\ focus = "boot" /\ Boot!Next
  /\ UNCHANGED <<focus, gateVars, edgeVars, stagingVars>>
ServeClients ==
  /\ focus = "access" /\ Gate!Next
  /\ UNCHANGED <<focus, bootVars, edgeVars, stagingVars>>
ServeRequests ==
  /\ focus = "edge" /\ Server!Next
  /\ UNCHANGED <<focus, bootVars, gateVars, stagingVars>>
ImportLibrary ==
  /\ focus = "staging" /\ Staging!Next
  /\ UNCHANGED <<focus, bootVars, gateVars, edgeVars>>
Next == BootApplication \/ ServeClients \/ ServeRequests \/ ImportLibrary

Spec == Init /\ [][Next]_vars

(***************************************************************************)
(* Properties.                                                             *)
(***************************************************************************)
\* Whatever a restore, a migration or the pruning of backups does, and however often it is
\* interrupted, there is a copy to go back to: of each saved edit, and of the revision an
\* unfinished upgrade began at (db/restore.py, db/migrations.py, db/backup.py).
NothingLost == focus = "boot" => Boot!TypeOK /\ Boot!EditsKept /\ Boot!UpgradeUndoable

\* Once it serves, the application has sealed its secrets and seeded each default that the
\* operator did not remove, through crashes between any two steps of the start
\* (keystore.py, db/first_run.py).
ServedSound == focus = "boot" => Boot!NoPlainSecret /\ Boot!SeededOnce

\* A start undoes nothing: a restore is over when both files are in place, and a login set
\* in Settings stays while the environment says what it said (auth/bootstrap.py).
BootUndoesNothing == Boot!RestoredWhole /\ Boot!LoginStands

\* A session or a credential whose end was answered admits no later request, whatever was
\* being touched or verified when it ended (auth/sessions.py, auth/perimeter.py).
EndedIsRefused ==
  focus = "access" => Gate!TypeOK /\ Gate!SignedOutStaysOut /\ Gate!OldCredentialRefused

\* A request gets one response although its time may run out as the handler answers, and
\* one that has ended holds no place at the write lock (api/limits.py, db/engine.py).
AnsweredOnce == focus = "edge" => Server!TypeOK /\ Server!AnsweredOnce

\* A change announced while a browser is connected reaches it, or its connection ends
\* (ws/broadcast.py), however many changes share the window that coalesces them.
ConnectedSeesChanges == focus = "edge" => Server!ConnectedSeesChanges

\* What the operator decided about the groups of a staged library is what happens: an import
\* files into the groups selected and no other, although the rows it names by id are replaced
\* by scans; no late answer of a scan changes a decision; and a series created for a group
\* that failed is not left behind empty (flows/library_import.py).
ImportedAsDecided ==
  /\ [](focus = "staging" => Staging!TypeOK)
  /\ Staging!SelectionHonoured /\ Staging!DecisionsKept /\ Staging!NoShellLeft
=============================================================================
