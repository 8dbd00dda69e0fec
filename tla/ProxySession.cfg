SPECIFICATION FairSpec
CONSTANTS
  p1 = p1
  p2 = p2
  f1 = f1
  f2 = f2
  t1 = t1
  t2 = t2
  Profiles = {p1, p2}
  Flows = {f1, f2}
  Toggles = {t1, t2}
  Scenes <- MCScenes
  Nil = Nil
INVARIANTS
  NoBoxLost
  StatusHonest
  ConnectedMeansProxied
PROPERTIES
  EveryFlowEnds
CHECK_DEADLOCK FALSE
