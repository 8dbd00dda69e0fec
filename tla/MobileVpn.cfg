SPECIFICATION Spec
CONSTANTS
  Calls = {c1, c2}
  Tokens = {k1, k2, k3}
  Budgets <- Two
  Nil = Nil
INVARIANT VpnStartReturnsFd
CHECK_DEADLOCK FALSE
