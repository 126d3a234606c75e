SPECIFICATION SyncSpec
CONSTANTS
  NoId = NoId
  Redundancy = 2
  MaxTries = 20
  NumPeers = 3
  Faulty = {3}
  PeerLists <- MCPeerLists
  Starts = {"sync", "restore", "fetch"}
  Patches <- MCPatches
  MaxRetries = 2
  MaxTxSyncs = 2
  MaxCycle <- MCMaxCycle
  Junk = Junk
  NoAnswer = NoAnswer
INVARIANT ListsOfRecord
INVARIANT TxListGenuine
INVARIANT RestoredLists
CHECK_DEADLOCK FALSE
