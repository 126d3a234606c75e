SPECIFICATION Spec
CONSTANTS
  AddressSpace = 16
  Nodes = {1, 2, 3, 4, 5}
  FirstNodes <- MCFirstNodes
  GroupSizes = {3}
  Edges = {1, 2}
  Keys <- MCKeys
  Receipts <- MCReceipts
  ShardDataKept = 1
  VotesNeeded <- TwoThirds
  MajorityNeeded <- TwoThirds
  MaxCycle = 3
INVARIANTS
  ExecutionGroups
  AcceptedBacked
  GenuineAccepted
CHECK_DEADLOCK FALSE
