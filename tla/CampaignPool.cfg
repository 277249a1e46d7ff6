SPECIFICATION Unbounded
CONSTANTS
  e1 = e1  e2 = e2  t1 = t1
  Evaluations = {e1, e2}
  Trainings = {}
  MayNotStart = {}
  NoHandle = NoHandle
  MaxGenerations = 2
  MaxInterrupts = 0
PROPERTIES ShutdownEnds
CHECK_DEADLOCK FALSE
