CONSTANTS
  w1 = w1
  w2 = w2
  w3 = w3
  NoOne = NoOne
  Writer <- ThreeWriters
  Clash <- AllClash
  MaxSpawns = 3
  MaxAttempts <- Once
  MaxSteers <- Never
SPECIFICATION Spec
SYMMETRY Symmetry
INVARIANTS
  TypeOK
  FreshWritersApart
  NoMissedWake
PROPERTIES
  WaitersGoInOrder
\* Every writer spawned may have finished.
CHECK_DEADLOCK FALSE
