CONSTANTS
  s1 = s1
  s2 = s2
  k = k
  f = f
  Session = {s1, s2}
  Children = {}
  Files = {f}
  Texts = {t, u}
  Calls <- MCCalls
  Asks <- MCAsks
  Hands = 1
SPECIFICATION Spec
INVARIANT VerdictIsOnText
