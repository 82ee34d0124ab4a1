SPECIFICATION FairSpec
CONSTANTS
  NoNode = NoNode
  NoReq = NoReq
  NoGraph = NoGraph
  SyncData = SyncData
  GraphIds = {g1, g2}
  Nodes = {n1, n2}
  Requests = {r1, r2}
  QueueCap = 2
  Ops = {}
  Events = {"params", "prerun", "varchange", "parse", "memshort", "load", "execute", "rt", "devreset", "compute", "nodone"}
  AnalyzeMode = FALSE
INVARIANT NodeExclusive
INVARIANT AnswersHonest
INVARIANT NoneLostWhileRunning
INVARIANT TokenOwed
INVARIANT PerGraphOrder
PROPERTY AnsweredOrStopped
CHECK_DEADLOCK FALSE
