SPECIFICATION Spec
CONSTANTS
  Archivers = {1, 2, 3, 4}
  Self = 2
  Members = {1, 3}
  Changes <- MCChanges
  Starts = {"start", "compare"}
  Patience = 2
  MaxCycle = 5
  MaxRestarts = 1
INVARIANT TracksArchivers
INVARIANT GossipConnects
INVARIANT RefutedInTime
CHECK_DEADLOCK FALSE
