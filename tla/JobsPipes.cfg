CONSTANTS
  Population = 2
  Invalid = {}
  NoRow = NoRow
  MaxFaults = 0
  Modes = {"local"}
  Resources = {"memory"}
  Retries = 1
  MaxWorkers = 2
SPECIFICATION FairSpec
PROPERTIES
  CancelledEnds
CHECK_DEADLOCK FALSE
