SPECIFICATION Spec
CONSTANTS
  Nodes <- CaseNodes
  Deps <- CaseDeps
  Level <- CaseLevel
  Depth = 2
  Rank <- CaseRank
  HumanGates = {}
  Irreversible = {}
  MaxRounds = 2
  MaxWorkers = 2
  PersistRepair = TRUE
  Shortages = {{}}
  Procs = {"cli"}
  MaxCommands = 1
  NoCheckpoint = NoCheckpoint
  Foreign = Foreign
INVARIANT FailureSkipsDownstream
CHECK_DEADLOCK FALSE
