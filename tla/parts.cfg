SPECIFICATION PartsSpec
CONSTANTS
  NumVectors = 3
  NumClusters = 2
  Keys = {0, 1}
  RecordBytes = 4
  ChunkBytes = 6
  MaxBuilds = 2
  None = None
  Torn = Torn
  ProbesAsked = {0, 3, 9}
  MaxProbes = 8
  MinDepth = 2
  MaxDepth = 8
  Ids <- MCIds
  K = 2
  Threshold = 0
  MaxHamming = 1
  MaxDist = 2
  N = 3
  Recalls = {0, 1}
  Latencies = {0, 1}
  AppBytes = {0, 1}
  Targets = {1}
  Missing = Missing
  Clusters = {c1, c2, c3, c4}
  Stored = {c1, c2, c3}
  Garbage = Garbage
  Probes = 3
  SqEntries = 4
  NumQueries = 2
  WarmQueries = 1
  UseDirect = TRUE
  NoWarmup = FALSE
  ReadFaults = FALSE
  Interruptible = TRUE
INVARIANTS SegmentsApart ReadsFit IndexSound HeapHoldsNearest RecallUnlessTied FrontCovers PruneSound ScoredSlotIdle ScoredSlotFresh QuietBetweenRounds  TotalSound
