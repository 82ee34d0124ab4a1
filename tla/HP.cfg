SPECIFICATION ASpec
CONSTANTS
  NumStages = 3
  NumExecutors = 2
  LoopCounts <- MCLoopCounts
  Faults <- MCFaults
  MaxFaults = 1
  MaxData = 2
  MaxStarts = 2
  MaxStops = 2
CHECK_DEADLOCK FALSE
INVARIANTS ContextOwn OutputsComplete OrderlyUnlessLapped AnswersInOrder StreamAlive
PROPERTIES PipelineSpec CallsEnd
