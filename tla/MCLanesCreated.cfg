CONSTANTS
  i1 = i1
  i2 = i2
  i3 = i3
  f1 = f1
  f2 = f2
  Hand = Hand
  Free = Free
  Items = {i1, i2, i3}
  Files = {f1, f2}
  Order <- MCOrder
  Needs <- MCNeeds
  Touches <- MCTouches
  Writes <- MCWrites
  Parallel = 2
  Every = 1
  Rounds = 1
  Crashes = 0
  Hands = {}
  Created = {f1}
  NoCommits = {TRUE}
  CloseGates = {FALSE}
SPECIFICATION Spec
PROPERTIES
  LandsVerified
