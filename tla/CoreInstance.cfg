SPECIFICATION FairSpec
CONSTANTS
  Calls = {c1, c2, c3}
  Boxes = {b1, b2}
  Ports = {p1, p2}
  Nil = Nil
INVARIANTS
  TypeOK
  InstanceUsable
  LiveBoxAccounted
  BorrowedBoxWasStarted
PROPERTIES
  ProbeDisturbsNothing
  ImplementsCoreService
  EveryCallReturns
