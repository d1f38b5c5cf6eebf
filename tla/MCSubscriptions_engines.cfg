\* One session, the evaluator, crashes and restarts.
SPECIFICATION FairSubSpec
CONSTANTS
  s1 = s1
  c1 = c1
  c2 = c2
  bad = bad
  Writers = {s1}
  Configs = {c1, c2, bad}
  Valid = {c1, c2}
  Bootstrap = c1
  Empty = Empty
  Garbled = Garbled
  None = None
  MaxGen = 2
INVARIANTS
  SubTypeOK
  FileIsWhole
  SurvivesRestart
  GenerationNamesConfig
PROPERTIES
  ImplementsAtomic
  KeepaliveKeepsState
  EvaluatorConverges
