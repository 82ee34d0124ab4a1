SPECIFICATION FairSpec
CONSTANTS
  NoNode = NoNode
  NoReq = NoReq
  NoGraph = NoGraph
  SyncData = SyncData
  GraphIds = {g1, g2}
  Nodes = {n1, n2}
  Requests = {}
  QueueCap = 1
  Ops = {"run", "build"}
  Events = {"prerun", "load", "execute", "rt", "memshort", "cachehit", "nodone"}
  AnalyzeMode = FALSE
INVARIANT SyncResultOwn
PROPERTY RunGraphReturns
CHECK_DEADLOCK FALSE
