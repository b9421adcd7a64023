\* Two targets, once and twice, two jobs at a time, one failure.
CONSTANTS
    Targets = 2
    MaxRuns = 2
    MaxJobs = 2
    Surveys <- MCSurveys
    Cuts <- MCCuts
    NoReport = NoReport
    Absent = Absent
    Torn = Torn
    MaxFaults = 1
    Other <- MCOther
SPECIFICATION FairSpec
INVARIANTS
    TypeOK
    ExitAccounts
    LineMeansReport
    StreamMatchesDirectory
    CompareIsDual
PROPERTY BatchReturns
CHECK_DEADLOCK FALSE
