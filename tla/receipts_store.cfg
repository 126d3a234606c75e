SPECIFICATION FairSpec
CONSTANTS
  t1 = t1  t2 = t2  x = x  s1 = s1  f2 = f2  u2 = u2
  Tx <- MCTx
  Account = {x}
  Archivers = {ar}
  Connection = {v}
  Copy <- MCCopy
  NoCopy = NoCopy
  TxOf <- MCTxOf
  TimeOf <- MCTimeOf
  OutcomeOf <- MCOutcomeOf
  StatesOf <- MCStatesOf
  Genuine <- MCGenuine
  Unhandled <- MCUnhandled
  GenesisAccounts <- MCGenesis
  Batches <- MCBatches
  Announced <- MCAnnounced
  receiptsPerInsert = 2
  bucketSize = 2
  isActive = TRUE
  maxProcessed = 1
INVARIANT OneValidation
INVARIANT ProcessedHasReceipt
PROPERTY SupersededOnlyUnseen
PROPERTY RewoundOnlyUnseen
PROPERTY CollectionEnds
CHECK_DEADLOCK FALSE
