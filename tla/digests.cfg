SPECIFICATION FairSpec
CONSTANTS
  t1 = t1  t2 = t2  r1 = r1  r2 = r2
  Tx = {t1, t2}
  Runs = {r1, r2}
  cycleDiff = 2
  syncDelay = 1
  MaxCycle = 4
  MaxFailures = 1
INVARIANTS
  DigestsComplete
PROPERTIES
  ChainSpec
  DigestsCatchUp
