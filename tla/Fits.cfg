SPECIFICATION Spec
CONSTANTS
  a = a  b = b  t1 = t1  t2 = t2
  Programs = {a, b}
  NoProgram = NoProgram
  Tasks = {t1, t2}
  NoTask = NoTask
  MaxLag = 1
  LastGeneration = 2
  MaxFits = 2
SYMMETRY Symmetry
INVARIANTS TypeOK OutcomeHolds FoundIsWhole NewestWithinLag
CHECK_DEADLOCK FALSE
