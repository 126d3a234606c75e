SPECIFICATION FairSpec
CONSTANTS
  n1 = n1  n2 = n2  n3 = n3
  a1 = a1  a2 = a2  b2 = b2  a3 = a3  a4 = a4  s2 = s2  r3 = r3  s4 = s4
  Nodes = {n1, n2}
  Archivers = {}
  NoRecord = NoRecord
  Record <- RestartRecord
  Counter <- RestartCounter
  Mode <- RestartMode
  ListedAfter <- RestartListed
  ActiveAfter <- RestartActive
  Stored <- NoRecords
  StartCounter <- MinusOne
  isFirst = TRUE
  Paced = TRUE
  currentConsensusRadius = 1
  maxConfirmations = 2
  minCycleConfirmationsToSave <- MinusOne
  earlyCycles = 0
  lateConfirmations = 2
  maxCyclesInCycleTracker = 1
  maxCachedCycles = 2
PROPERTY RestartFromShutdown
INVARIANT FirstNodeSlot
PROPERTY ShutdownAllowsRestart
CHECK_DEADLOCK FALSE
