CONSTANTS
    Absent = Absent
    MaxHeads = 2
    MaxReports = 2
    ResultsIdentified = FALSE
SPECIFICATION ReviewSpec
INVARIANT ReviewSettledPosted
CHECK_DEADLOCK FALSE
