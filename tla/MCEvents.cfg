CONSTANTS
    p1 = p1
    p2 = p2
    Publishers <- MCPublishers
    MaxStarts = 2
    MaxStops = 2
    None = None
    Copies = 2
    Envs <- MCEnvs
SPECIFICATION EventsSpec
  
PROPERTIES DeletedRowFrozen EventsSettle
CHECK_DEADLOCK FALSE
