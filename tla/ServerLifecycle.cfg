SPECIFICATION ServerFairSpec
CONSTANTS
  Calls = {r1, e1, e2, a}
  Rpcs = {r1}
  Exiters = {e1, e2}
  App = a
  Servers = {s1, s2}
  Boxes = {b1}
  Ports = {p1}
  Nil = Nil
INVARIANTS
  ShutdownHookInOrder
  NothingServesAtRest
PROPERTIES
  StopReleasesPort
  ExitEndsProcess
CHECK_DEADLOCK FALSE
