SPECIFICATION Spec
CONSTANTS
  Client = {c1, c2}
  NoClient = NoClient
  MaxCalls = 7
  MaxLibs = 2
  MaxFaults = 1
CHECK_DEADLOCK FALSE
INVARIANTS ActsOnOwnUnlessFailed FlagsTruthful SessionsUsable
PROPERTIES CallsReturn
