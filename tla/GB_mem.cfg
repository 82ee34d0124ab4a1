SPECIFICATION Spec
CONSTANTS
  NoLabel = NoLabel
  NoContinuous = NoContinuous
  L1 = L1
  L2 = L2
  C1 = C1
  Labels = {L1, L2}
  Engines <- MCEngines
  EngineConf <- MCEngineConf
  MaxParallelNum <- MCMaxParallelNum
  MaxTaskCount = 9
  MEM_ALIGN_SIZE = 2
  kMaxLifeTime = 99
  Graphs <- MCMemoGraphs
INVARIANTS MemorySafe
CHECK_DEADLOCK FALSE
