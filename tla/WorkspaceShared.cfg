SPECIFICATION Spec
CONSTANTS
  p1 = p1  p2 = p2  s1 = s1  s2 = s2
  Processes = {p1, p2}
  Signatures = {s1, s2}
  NoSignature = NoSignature
  NoCompletion = NoCompletion
  NoProcess = NoProcess
  LastGeneration = 1
  MaxRuns = 2
  MaxClears = 1
PROPERTIES ActiveCampaignIsAlone
CHECK_DEADLOCK FALSE
