SPECIFICATION Spec
CONSTANTS
  CaseIds = {"A", "B"}
  Contracts = {"full"}
  ProbeContracts = {}
  Editable = {}
  MaxRounds = 3
  MaxCommands = 1
  NoFile = NoFile
  NoCommand = NoCommand
  NoReport = NoReport
PROPERTY NextActionAccepted
\* After the last command of the bound everything may be at rest.
CHECK_DEADLOCK FALSE
