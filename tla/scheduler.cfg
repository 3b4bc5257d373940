SPECIFICATION AllSpec
CHECK_DEADLOCK FALSE
CONSTANTS
  t1 = t1
  t2 = t2
  t3 = t3
  Threads = {t1, t2, t3}
  NumQueues = 2
  Modes = {"GDB"}
  SaveStates = FALSE
  Null = null
  nullptr = nullptr
  UnlinkedTag = UnlinkedTag
INVARIANTS
  QueuesIntact
PROPERTIES
  ImplementsPriorityScheduler ThreadsGoOn
