SPECIFICATION Bounded
CONSTANTS
  e1 = e1  e2 = e2  t1 = t1
  Evaluations = {e1, e2}
  Trainings = {t1}
  MayNotStart = {e2, t1}
  NoHandle = NoHandle
  MaxGenerations = 2
  MaxInterrupts = 2
INVARIANTS TypeOK NothingOutlives PoolIsExclusive
PROPERTIES CompletedIsResolved SettledOnce CampaignGoesOn
CHECK_DEADLOCK FALSE
