SPECIFICATION Spec
CONSTANTS
  CaseIds = {"A", "B"}
  Contracts = {"full", "probe"}
  ProbeContracts = {"probe"}
  Editable = {"A"}
  MaxRounds = 2
  MaxCommands = 2
  NoFile = NoFile
  NoCommand = NoCommand
  NoReport = NoReport
INVARIANTS PublicationEarned ReportHonest QuietMeansPassed
\* After the last command of the bound everything may be at rest.
CHECK_DEADLOCK FALSE
