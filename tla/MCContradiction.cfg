SPECIFICATION Spec
CONSTANTS
  N = 3
  Jobs <- MCJobs
  MaxRuns = 1
  Worlds <- MCWorlds
CHECK_DEADLOCK FALSE
INVARIANTS MarksSound SupersedesOlder
PROPERTIES EdgesEndForCause
