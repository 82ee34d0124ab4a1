CONSTANTS
  Order <- MCOrder
  Inputs <- MCInputs
  ConstInputs <- MCConstInputs
  CondInput <- MCNone
  Type <- MCType
  Dynamic = {"data", "range", "op", "out"}
  UnknownOut = {"data", "range", "op"}
  Hccl = {"range"}
  HostNodes = {"data"}
  PoolSize = 2
  QueueSize = 2
  Faults = {"static", "infer", "compile", "exec", "register", "callback", "event", "sync", "eos"}
  MaxFaults = 2

SPECIFICATION Spec

INVARIANTS
  InputsReady
  OutputsValid
  NothingOutlivesRun
  NoSpuriousFailure

PROPERTY
  ExecuteReturns
