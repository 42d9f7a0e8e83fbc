SPECIFICATION FairSpec
CONSTANTS
  CaseIds = {"A", "B"}
  Contracts = {"full"}
  ProbeContracts = {}
  Editable = {}
  MaxRounds = 3
  MaxCommands = 2
  NoFile = NoFile
  NoCommand = NoCommand
  NoReport = NoReport
INVARIANT CompiledGraphs
PROPERTY Returns
\* After the last command of the bound everything may be at rest.
CHECK_DEADLOCK FALSE
