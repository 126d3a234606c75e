SPECIFICATION FairSpec
CONSTANTS
  Nodes <- ThreeNodes
  Radii = {2}
  ExtraAboveRadius = 5
  ExtraSenders = 1
  MaxRetry = 1
  Silent = {3}
  Flaky = {3}
  MaxChanges = 1
  MaxGroupings = 1
  MaxCalls = 1
  MaxStrays = 0
INVARIANTS
  TypeOK
PROPERTIES
  AlwaysWatched
  HealthyKept
  SilentReplaced
  Recovers
