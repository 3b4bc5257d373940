SPECIFICATION Spec
CHECK_DEADLOCK FALSE
CONSTANTS
  Half = 8
  Callers = {t1, t2, t3, t4}
  InitialCounts <- AllCounts
  MaxCounts <- AllCounts
  ReleaseCounts <- AllCounts
  t1 = t1
  t2 = t2
  t3 = t3
  t4 = t4
  o1 = o1
  o2 = o2
  port1 = port1
  null = null
INVARIANTS
  SessionsSound SemaphoreSound
PROPERTIES
  RequestsAnswered ArbiterSound
