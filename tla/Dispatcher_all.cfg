SPECIFICATION FairSpec
CONSTANTS
  Events = {good, bad}
  Unsafe = {bad}
  Callers = {c1, c2}
  Owners = {o1, o2}
  Monitors = {m1}
  None = None
  QueueSize = 1
  MaxHandlers = 1
  MaxReceived = 3
  MaxStarts = 2
INVARIANTS
  EventsAccounted
  PassesBounded
  NoOrphanMonitor
PROPERTIES
  Drains
CHECK_DEADLOCK FALSE
