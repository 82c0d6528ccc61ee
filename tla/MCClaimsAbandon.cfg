CONSTANTS
  w1 = w1
  w2 = w2
  w3 = w3
  NoOne = NoOne
  Writer <- TwoWriters
  Clash <- AllClash
  MaxSpawns = 2
  MaxAttempts <- FirstTwice
  MaxSteers <- Never
SPECIFICATION Spec
INVARIANTS
  NoMissedWake
\* Every writer spawned may have finished.
CHECK_DEADLOCK FALSE
