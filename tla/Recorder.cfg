SPECIFICATION FairSpec
CONSTANTS
  e1 = e1  e2 = e2  e3 = e3
  g1 = g1  g2 = g2
  Envelopes = {e1, e2, e3}
  Groups = {g1, g2}
  Group <- MCGroup
  Bytes <- MCBytes
  Threads = {t1, t2}
  Writer = Writer
  NoEnvelope = NoEnvelope
  MaxSegmentCount = 2
  SegmentTargetBytes = 3
  MaxCandidateBytes = 2
  MaxUnpublishedCount = 2
  MaxUnpublishedBytes = 3
  MaxFailures = 2
  MaxSessions = 2
  Interruptible = {1}
INVARIANTS TypeOK BudgetAccounting NoSilentLoss PublishedOnce
PROPERTIES FlushIsBoundary KeepsPromises ClientsGoOn FlushPublishes
CHECK_DEADLOCK FALSE
