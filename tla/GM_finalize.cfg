SPECIFICATION FairSpec
CONSTANTS
  NoNode = NoNode
  NoReq = NoReq
  NoGraph = NoGraph
  SyncData = SyncData
  GraphIds = {g1}
  Nodes = {n1}
  Requests = {r1, r2, r3}
  QueueCap = 2
  Ops = {"finalize"}
  Events = {}
  AnalyzeMode = FALSE
PROPERTY FinalizeEnds
CHECK_DEADLOCK FALSE
