SPECIFICATION Spec
CONSTANTS
  Nodes <- GateNodes
  Deps <- GateDeps
  Level <- GateLevel
  Depth = 2
  Rank <- GateLevel
  HumanGates = {"gate"}
  Irreversible = {"act"}
  MaxRounds = 2
  MaxWorkers = 1
  PersistRepair = FALSE
  Shortages = {{}}
  Procs = {cli, heartbeat}
  MaxCommands = 3
  NoCheckpoint = NoCheckpoint
  Foreign = Foreign
INVARIANTS OutputsCurrent ApprovedBeforeIrreversible StatusHonest
SYMMETRY ProcSymmetry
\* After the last command of the bound everything may be at rest.
CHECK_DEADLOCK FALSE
