SPECIFICATION AllSpec
CHECK_DEADLOCK FALSE
CONSTANTS
  e1 = e1
  e2 = e2
  h1 = h1
  t1 = t1
  t2 = t2
  none = none
  Threads = {t1, t2}
  ReallyAsync = TRUE
  IPCDelay = TRUE
  Requests = 2
  Signals = 2
  Terminations = 0
  NoState = none
  Nobody = none
INVARIANTS
  EventsOnTime RequestsEndOnce
PROPERTIES
  SavesStandAlone TimingGoesOn
