SPECIFICATION Spec

CONSTANTS
  t1 = t1  t2 = t2  t3 = t3
  m1 = m1  m2 = m2  s1 = s1  e1 = e1  k1 = k1
  Null = Null
  Threads = {t1, t2}
  Mutexes = {}
  Semaphores = {}
  Events = {e1}
  Timers = {}
  OneShot = {}
  Pulse = {}
  NumCores = 2
  CoreOf <- TwoCores
  ProcessOf <- OneProcess
  Main = t1
  ThreadPrioLowest = 2
  InitPriority <- Ranked
  SetPriorities = {}
  MaxCount = 0
  InitCount = 0
  ReleaseCounts = {}
  WaitLists <- NoLists
  JoinTargets <- NoJoin
  Killers = {}
  MaxLock = 1
  Svcs = {"CreateThread", "WaitSynchronization1", "SignalEvent"}

PROPERTIES
  ResultStable
