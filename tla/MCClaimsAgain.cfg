CONSTANTS
  w1 = w1
  w2 = w2
  w3 = w3
  NoOne = NoOne
  Writer <- TwoWriters
  Clash <- AllClash
  MaxSpawns = 2
  MaxAttempts <- FirstTwice
  MaxSteers <- SecondOnce
SPECIFICATION FairSpec
INVARIANTS
  NoOrphanLane
PROPERTIES
  EveryWaiterIsLetGo
\* Every writer spawned may have finished.
CHECK_DEADLOCK FALSE
