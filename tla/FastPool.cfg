SPECIFICATION FairSpec
CONSTANTS
  k1 = k1  k2 = k2
  Slots = 2
  Population = 3
  Invalid <- MCInvalid
  Keys = {k1, k2}
  NoKey = NoKey
  NoTask = NoTask
  NoRow = NoRow
  MaxBatches = 2
  MaxDeaths = 1
INVARIANTS TypeOK PipesMatch WorkersFit NothingLeftRunning
PROPERTIES AnswersOnce BatchEnds
CHECK_DEADLOCK FALSE
