SPECIFICATION Spec
CONSTANTS
  Validators = {v1}
  maxValidatorsToServe = 1
  Modes <- MCModes
  Changes <- MCChanges
  Tables <- MCTables
  MaxRecords = 2
  StartTime = 3
  MaxTime = 6
INVARIANT EveryAccountPaged
CHECK_DEADLOCK FALSE
