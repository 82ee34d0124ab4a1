SPECIFICATION Spec
CONSTANTS
  NoNode = NoNode
  NoReq = NoReq
  NoGraph = NoGraph
  SyncData = SyncData
  GraphIds = {g1, g2}
  Nodes = {n1, n2}
  Requests = {r1}
  QueueCap = 1
  Ops = {"run", "build"}
  Events = {"prerun", "load", "execute", "rt", "devreset"}
  AnalyzeMode = FALSE
INVARIANT LoadFlagTruth
SYMMETRY Symmetry
CHECK_DEADLOCK FALSE
