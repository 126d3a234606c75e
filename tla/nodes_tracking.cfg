SPECIFICATION Spec
CONSTANTS
  p1 = p1  p2 = p2
  NoId = NoId
  NoNode = NoNode
  PublicKeys = {p1, p2}
  Ids = {1, 2, 3}
  Owner <- TwoOwner
  MaxNodes = 2
  MayMiss = TRUE
  NetworkModes <- RestartModes
INVARIANT TypeOK
INVARIANT InSync
INVARIANT SortedById
INVARIANT FoundById
CHECK_DEADLOCK FALSE
