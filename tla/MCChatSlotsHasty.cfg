CONSTANTS
  p = p
  q = q
  s1 = s1
  s2 = s2
  s3 = s3
  s4 = s4
  bp = bp
  bq = bq
  NoSlot = NoSlot
  Procs = {p, q}
  Names = {s1, s2, s3, s4}
  Branch <- MCBranch
  Rewinders = {}
  Turns = 2
  InFlight <- MCOneInFlight
  Switches = 1
SPECIFICATION Spec
SYMMETRY MCSymmetry
CHECK_DEADLOCK FALSE
PROPERTIES
  NeitherCostsTheOther
