SPECIFICATION Spec
CONSTANTS
  N = 3
  Jobs <- MCJobs
  MaxRuns = 1
  Worlds <- MCTopBoth
CHECK_DEADLOCK FALSE
PROPERTIES FirstEdgeWins
