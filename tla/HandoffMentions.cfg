CONSTANTS
    NoValue = NoValue
    t1 = t1
    t2 = t2
    Tickets <- MCTickets
    Mentions <- MCMentioned
    CaseTickets = {}
    LeakyTexts = {}
    Prefix = {}
    Submitters = {"fix1", "fix2"}
    SnapshotFaults = {}
    MaxIssues = 2
    MaxEdits = 0
    MaxFetches = 8
    WikiCases = {1, 2}
    WikiCommands = 6
    Absent = Absent
    MaxHeads = 2
    MaxReports = 3
    ResultsIdentified = TRUE
    FixIssues = {1, 2}
    RunCases = {1, 2}
    MaxPulls = 2
    DeliverySteps = 4
    DeskSets <- MCIssueDesk
SPECIFICATION MCHandoffSpec
INVARIANT
    LinkedNeverDuplicated
CHECK_DEADLOCK FALSE
