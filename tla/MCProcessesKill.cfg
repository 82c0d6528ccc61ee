CONSTANTS
  p1 = p1
  p2 = p2
  n1 = n1
  n2 = n2
  r1 = r1
  r2 = r2
  NoProc = NoProc
  Closer = Closer
  Proc <- TwoProcs
  Foreground <- None
  Attached <- Client
  Name <- OneName
  Request <- OneRequest
  MaxProcesses = 1
  MaxChunks = 0
SPECIFICATION Spec
PROPERTIES
  NoKillOnceReaped
\* Every command may have been run and the session be over.
CHECK_DEADLOCK FALSE
