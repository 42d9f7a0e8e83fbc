SPECIFICATION FairSpec
CONSTANTS
  Nodes <- LoopNodes
  Deps <- LoopDeps
  Level <- LoopLevel
  Depth = 4
  Rank <- LoopRank
  HumanGates = {"gate"}
  Irreversible = {"publish"}
  MaxRounds = 2
  MaxWorkers = 2
  PersistRepair = TRUE
  Shortages = {{}, {"case2"}}
  Procs = {"cli"}
  MaxCommands = 3
  NoCheckpoint = NoCheckpoint
  Foreign = Foreign
INVARIANTS TypeOK DependencyClosed OutputsCurrent ApprovedBeforeIrreversible StatusHonest LayerBarrier RepairsBounded
PROPERTIES PassedIsFinal Terminates KeepsPromise
\* After the last command of the bound everything may be at rest.
CHECK_DEADLOCK FALSE
