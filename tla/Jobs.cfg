CONSTANTS
  Population = 3
  Invalid <- MCInvalid
  NoRow = NoRow
  MaxFaults = 1
  Modes = {"local", "distributed"}
  Resources = {"memory"}
  Retries = 1
  MaxWorkers = 2
SPECIFICATION ClosingSpec
INVARIANTS
  TypeOK
  RetriesAreFresh
  StraysAreReported
  NothingRunsOn
PROPERTIES
  AnswersOnce
  BatchEnds
CHECK_DEADLOCK FALSE
