SPECIFICATION FairSpec
CONSTANTS
  Positions = {p1}
  Threads = {t1, t2}
  Returns = {r1, r2}
  Torn = Torn
  None = None
INVARIANTS
  TornOnlyIfShared
PROPERTIES
  ReturnRecordedOnce
  PublishedIsCurrent
  CallsReturn
CHECK_DEADLOCK FALSE
