SPECIFICATION ProgressSpec
CONSTANTS
  Clusters = {c1, c2, c3}
  Stored = {c1, c2, c3}
  Garbage = Garbage
  Probes = 2
  SqEntries = 2
  NumQueries = 2
  WarmQueries = 1
  UseDirect = FALSE
  NoWarmup = FALSE
  ReadFaults = FALSE
  Interruptible = FALSE
  Chunks = 3
  MaxCrashes = 2
  Pids = {p1, p2}
  Root = p1
  MaxIo = 1
  None = None
INVARIANTS BatchNotLapped RowsOwn RowsBounded
PROPERTIES ImplementsScan  EventuallyComplete CompleteKept  EventuallyEnds
