CONSTANTS
    NoValue = NoValue
    t1 = t1
    t2 = t2
    Tickets <- MCTickets
    Mentions <- MCMentions
    CaseTickets <- MCCaseTickets
    LeakyTexts <- MCLeakyTexts
    Prefix <- MCPrefix
    Submitters = {"fix1", "fix2"}
    SnapshotFaults = {"payload_gap"}
    MaxIssues = 2
    MaxEdits = 1
    MaxFetches = 8
    WikiCases = {1, 2}
    WikiCommands = 6
    Absent = Absent
    MaxHeads = 2
    MaxReports = 3
    ResultsIdentified = TRUE
    FixIssues = {1, 2}
    RunCases = {1, 2}
    MaxPulls = 2
    DeliverySteps = 4
    DeskSets <- MCDeskSets
SPECIFICATION MCHandoffSpec
INVARIANTS
    OneOpenIssuePerTicket
    TraceTrue
    ClosedIssuesArchived
    PageGated
    ReviewSettledPosted
    PrLinked
    PublishHonest
PROPERTY
    ReviewSettledStays
CHECK_DEADLOCK FALSE
