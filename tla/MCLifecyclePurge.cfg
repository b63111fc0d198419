SPECIFICATION Spec
CONSTANTS
  Kinds = {"purge-soft-deleted"}
  Mem = {m1, m2}
  Slots = {h1, h2}
  Day = 3
  RunAt = 1
  Window = 2
  Retentions = {1, 2}
  MaxRetention = 2
  Batch = 1
  MaxDeliveries = 2
  MaxTime = 7
  Start <- MCStart
  Horizon <- MCHorizon
  Deleted <- MCDeleted
  MaxRows = 2
  MaxManual = 1
  MaxFaults = 1
  MaxEdits = 1
PROPERTY PassedOverIsNoop
CHECK_DEADLOCK FALSE
