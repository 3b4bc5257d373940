SPECIFICATION Spec

CONSTANTS
  t1 = t1  t2 = t2  t3 = t3
  m1 = m1  m2 = m2  s1 = s1  e1 = e1  k1 = k1
  Null = Null
  Threads = {t1, t2}
  Mutexes = {m1}
  Semaphores = {s1}
  Events = {e1}
  Timers = {k1}
  OneShot = {e1}
  Pulse = {k1}
  NumCores = 2
  CoreOf <- TwoCores
  ProcessOf <- OneProcess
  Main = t1
  ThreadPrioLowest = 1
  InitPriority <- Descending
  SetPriorities = {}
  MaxCount = 1
  InitCount = 0
  ReleaseCounts = {1}
  WaitLists <- MixedLists
  JoinTargets <- NoJoin
  Killers = {}
  MaxLock = 1
  Svcs = {"CreateThread", "WaitSynchronizationN", "ReleaseMutex", "ReleaseSemaphore", "SleepThread", "ServiceSignal", "ClearEvent", "SetTimer", "CancelTimer"}
INVARIANTS
  CoresServed TimeoutsSound
