SPECIFICATION Spec
CONSTANTS
  Capacity = 5
  Vectors <- MCVectors
  StartVector = 0
  Conf <- MCConf
  MaxDegree = 2
  MaxBackedges = 2
  LBuild = 3
  NumToReplace = 2
  Tasks = {t1, t2}
  MaxPoints = 3
  Threshold <- MCThird
  NumRows = 3
  Replacements = {1}
  Configs <- MCConfigs
  MaxTags = 2
  MaxStages = 4
SYMMETRY TaskSymmetry
INVARIANTS ListsSound SlotsAccounted InsertedReachable RangesExact
CHECK_DEADLOCK FALSE
