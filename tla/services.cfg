SPECIFICATION PartsSpec
CONSTANTS
  Settings = {a}
  MaxConfigChanges = 3
  MaxNetworkCycle = 3
  MaxRestarts = 1
  Lag = 2
  CyclesToKeep = 0
  ChangesToKeep = 2
  Validators = {v1, v2, v3}
  maxValidatorsToServe = 2
  MaxRecords = 2
  StartTime = 1
  MaxTime = 5
  maxLogFiles = 4
  maxNumberEntriesPerLog = 2
  MaxEntries = 15
  MaxQueue = 2
  MaxCrashes = 1
  MaxErrors = 1
  Batches = {1, 2, 3, 4, 5, 6}
  Empty = {1}
  Malformed = {2}
  Untrue = {3}
  MaxStoring = 2
INVARIANT FollowsNetwork
INVARIANT BusyOnlyWithOthers
INVARIANT LogComplete
INVARIANT GenesisStored
CHECK_DEADLOCK FALSE
