SPECIFICATION Spec
CONSTANTS
  NoNode = NoNode
  NoReq = NoReq
  NoGraph = NoGraph
  SyncData = SyncData
  GraphIds = {g1, g2}
  Nodes = {n1, n2}
  Requests = {r1, r2, r3}
  QueueCap = 1
  Ops = {"remove", "finalize"}
  Events = {"prerun", "cachehit", "varchange", "memshort", "load", "rt", "devreset", "nodone"}
  AnalyzeMode = TRUE
INVARIANT AnswersOwner
INVARIANT LoadFlagTruth
INVARIANT NoStaleRun
SYMMETRY Symmetry
CHECK_DEADLOCK FALSE
