SPECIFICATION AllSpec
CHECK_DEADLOCK FALSE
CONSTANTS
  MAX_COUNT = 3
  SlotValues = 4
  Generations = 5
  Objects = {o1, o2}
  Creations = 7
  Refusals = 1
  Null = Null
  RenameReplaces = FALSE
  Saves = 4
  Failures = 4
  Crashes = 2
  Roms = {r1, r2}
  Changes = 5
  Misreads = 0
  Errors = 3
  LateErrors = 0
  Endings = 3
  p1 = p1
  p2 = p2
  r1 = r1
  r2 = r2
INVARIANTS
  FreeListLinked HandlesSound PathComplete StatesKept MemorySound DatabaseSound
PROPERTIES
  RefinesAddressSpace
