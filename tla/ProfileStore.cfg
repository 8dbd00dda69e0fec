SPECIFICATION Spec
CONSTANTS
  Flows = {f1, f2}
  MaxId = 7
  BatchSizes = {1, 2}
  Stored <- MCStored
  Backup <- MCBackup
  BackupGroups = {1}
  MaxCalls = 2
  MaxFaults = 2
  MaxCrashes = 1
  Nil = Nil
INVARIANTS FreshIdsFree FailedImportLeavesNothing
PROPERTY EveryFlowReturns
CHECK_DEADLOCK FALSE
