SPECIFICATION FairSpec
CONSTANTS
  e1 = e1  e2 = e2  e3 = e3
  g1 = g1  g2 = g2
  Envelopes = {e1, e2, e3}
  Groups = {g1, g2}
  Group <- MCGroup
  Bytes <- MCBytes
  Threads = {t1, t2}
  Writer = Writer
  NoEnvelope = NoEnvelope
  MaxSegmentCount = 2
  SegmentTargetBytes = 2
  MaxCandidateBytes = 2
  MaxUnpublishedCount = 2
  MaxUnpublishedBytes = 3
  MaxFailures = 2
  MaxSessions = 1
  Interruptible = {}
PROPERTIES FlushesResolve
CHECK_DEADLOCK FALSE
