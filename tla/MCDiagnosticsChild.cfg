CONSTANTS
  s1 = s1
  s2 = s2
  k = k
  f = f
  Session = {s1}
  Children = {k}
  Files = {f}
  Texts = {t, u}
  Calls <- ChildReads
  Asks <- MCAsks
  Hands = 0
SPECIFICATION Spec
PROPERTY NoAnswerLost
