SPECIFICATION Spec
CONSTANTS
  Thread = {t1, t2}
  NoThread = NoThread
  Stream = {s1}
  NullStream = NullStream
  Context = Context
  Key <- MCKey
  Kind <- MCKind
  MemSize <- MCMemSize
  HasWeight <- MCHasWeight
  TaskNum <- MCTaskNum
  Loads <- MCLoads
  MaxAddr = 5
  MaxCalls = 4
  MaxFaults = 1
INVARIANTS
  KernelMemory
  HandlesValid
  NoLeak
  CallsNotMixed
PROPERTIES
  CallsReturn
CHECK_DEADLOCK FALSE
