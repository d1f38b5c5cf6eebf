\* Two sessions inside set at once.
SPECIFICATION Spec
CONSTANTS
  w1 = w1
  w2 = w2
  c1 = c1
  c2 = c2
  c3 = c3
  bad = bad
  Writers = {w1, w2}
  Configs = {c1, c2, c3, bad}
  Valid = {c1, c2, c3}
  Bootstrap = c1
  Empty = Empty
  Garbled = Garbled
  None = None
  MaxGen = 2
INVARIANT SurvivesRestart
