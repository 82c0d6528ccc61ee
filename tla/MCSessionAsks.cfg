CONSTANTS
  c1 = c1
  c2 = c2
  a1 = a1
  a2 = a2
  Reaper = Reaper
  Shutdown = Shutdown
  Client <- TwoClients
  Ask <- TwoAsks
  MaxTurns = 1
SPECIFICATION Spec
SYMMETRY Symmetry
INVARIANTS
  TypeOK
  OneAnswerPerAsk
  NoAskWithoutAudience
  LoopOutlivesTurns
  LoopClosedOnce
  EndMeansOver
PROPERTIES
  ReapedAfterItsGrace
\* The server may have closed and every client be idle.
CHECK_DEADLOCK FALSE
