SPECIFICATION Spec
CONSTANTS
  Capacity = 4
  Vectors <- MCVectors
  StartVector = 0
  Conf <- MCConf
  MaxDegree = 2
  MaxBackedges = 2
  LBuild = 3
  NumToReplace = 2
  Tasks = {t1}
  MaxPoints = 2
  Threshold <- MCThird
  NumRows = 2
  Replacements = {1}
  Configs <- MCBenchmark
  MaxTags = 2
  MaxStages = 5
INVARIANTS TagsMapBack
CHECK_DEADLOCK FALSE
