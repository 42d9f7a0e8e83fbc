SPECIFICATION Spec
CONSTANTS
  CaseIds = {"A", "B"}
  Contracts = {"full"}
  ProbeContracts = {}
  Editable = {}
  MaxRounds = 2
  MaxCommands = 3
  NoFile = NoFile
  NoCommand = NoCommand
  NoReport = NoReport
\* No action reads the reply, and neither invariant is about it.
VIEW WithoutReply
INVARIANTS TypeOK PublicationEarned
\* After the last command of the bound everything may be at rest.
CHECK_DEADLOCK FALSE
