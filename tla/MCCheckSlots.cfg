CONSTANTS
  c1 = c1
  c2 = c2
  c3 = c3
  c4 = c4
  k1 = k1
  k2 = k2
  Size = 2
  Call <- FourCalls
  Child <- TwoChildren
  Owner <- FourOwners
SPECIFICATION FairSpec
INVARIANTS
  TypeOK
  SlotsAccounted
  NoIdleSlot
  LaneCountsWaits
PROPERTIES
  IsSemaphore
  EveryWaitEnds
