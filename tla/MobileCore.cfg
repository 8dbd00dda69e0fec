SPECIFICATION Spec
CONSTANTS
  Calls = {c1, c2}
  Tokens = {k1, k2, k3}
  Budgets <- TwoOrThree
  Nil = Nil
INVARIANTS EndpointMatchesServer StopEndsVpn
PROPERTY EveryCallReturns
CHECK_DEADLOCK FALSE
