SPECIFICATION FairSpec
CONSTANTS
  Callers = {c1, c2}
  MaxBrowsers = 1
  MaxPages = 2
  MaxProcs = 2
  None = None
CHECK_DEADLOCK FALSE
PROPERTIES
  PoolKept
  AcquireEnds
