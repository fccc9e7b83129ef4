\* Three workers of two pools, a restart, a drain and one write given up on.
SPECIFICATION FairSpec
CONSTANTS
  NoCommand = NoCommand
  NoGroup = NoGroup
  a = a
  b = b
  c = c
  d = d
  g = g
  d1 = d1
  d2 = d2
  p1 = p1
  Command = {a, b, d}
  Worker = {d1, d2, p1}
  ClassOf <- MCClassOf
  GroupOf <- MCGroupOf
  PoolOf <- MCPoolOf
  Priority = {0}
  MaxCommands = 3
  ScanLimit = 3
  MaxRuns = 2
  MaxBusy = 1
  BusyAt = {"claim", "finish"}
INVARIANTS QueueSound
PROPERTIES  ImplementsLedger EveryCommandFinishes
