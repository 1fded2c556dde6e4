SPECIFICATION Spec
CONSTANTS
  d1 = d1
  d2 = d2
  t1 = t1
  None = None
  GridPoints <- MCGridPoints
  SweepPoints <- MCSweepPoints
  TapePoints = {t1}
  ThreadsDefault <- MCOne
  ThreadsSweep <- MCTwo
  ThreadsAsked = {}
  Trials = 1
  Limits = {0}
  MaxCrashes = 0
  MaxFailures = 0
  MaxRows = 8
INVARIANT OneRowPerTrial
