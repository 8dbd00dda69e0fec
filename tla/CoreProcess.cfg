SPECIFICATION FairSpec
CONSTANTS
  Apps = {a1}
  Callers = {c1, c2}
  Cores = {k1, k2}
  Nil = Nil
INVARIANTS
  OneAttempt
  EndpointCurrent
  NoCoreForgotten
  RecordedAtRest
PROPERTIES
  EveryStartReturns
