CONSTANTS
  p1 = p1
  p2 = p2
  n1 = n1
  n2 = n2
  r1 = r1
  r2 = r2
  NoProc = NoProc
  Closer = Closer
  Proc <- OneProc
  Foreground <- OneProc
  Attached <- None
  Name <- OneName
  Request <- None
  MaxProcesses = 1
  MaxChunks = 1
SPECIFICATION Spec
INVARIANTS
  FullLogStored
\* Every command may have been run and the session be over.
CHECK_DEADLOCK FALSE
