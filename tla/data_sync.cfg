SPECIFICATION SyncSpec
CONSTANTS
  MaxPerRequest = 2
  MaxAccounts = 2
  MaxBetweenCycles = 1
  TxRows <- MCTxRows
  GenesisAccounts <- MCGenesisAccounts
  GenesisTransactions <- MCGenesisTransactions
  MovingAccounts <- MCMovingAccounts
  GenesisEndCycle = 1
  ComparedCycles = 1
  MaxRetryCount = 0
  SendActive = TRUE
  InitialRemote <- MCRemote
  InitialOwn <- MCOwn
  MaxCycle = 5
  MaxFaults = 1
INVARIANT NothingLeftOut
CHECK_DEADLOCK FALSE
PROPERTY SyncEnds
PROPERTY CheckedChain
