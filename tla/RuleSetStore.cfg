SPECIFICATION Spec
CONSTANTS
  Tags = {t1, t2}
  Urls = {u1}
  Calls = {c1, c2}
  Versions = {v1, v2}
  MaxCrashes = 1
  MayFail = TRUE
  Nil = Nil
INVARIANTS
  BytesMatchIndex
PROPERTIES
  FailedCallChangesNothing
  RestartRecovers
CHECK_DEADLOCK FALSE
