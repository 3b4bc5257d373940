SPECIFICATION FairSpec

CONSTANTS
  t1 = t1  t2 = t2  t3 = t3
  m1 = m1  m2 = m2  s1 = s1  e1 = e1  k1 = k1
  Null = Null
  Threads = {t1, t2}
  Mutexes = {m1}
  Semaphores = {}
  Events = {e1}
  Timers = {}
  OneShot = {}
  Pulse = {}
  NumCores = 1
  CoreOf <- OneCore
  ProcessOf <- OneProcess
  Main = t1
  ThreadPrioLowest = 1
  InitPriority <- Descending
  SetPriorities = {}
  MaxCount = 0
  InitCount = 0
  ReleaseCounts = {}
  WaitLists <- NoLists
  JoinTargets <- NoJoin
  Killers = {}
  MaxLock = 2
  Svcs = {"CreateThread", "WaitSynchronization1", "ReleaseMutex", "SleepThread", "ExitThread", "SignalEvent"}
PROPERTIES
  HandlersEnd BestThreadGetsCore
