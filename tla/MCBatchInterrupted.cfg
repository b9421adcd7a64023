\* An interrupted batch exits with 0 and cut reports.
CONSTANTS
    Targets = 2
    MaxRuns = 2
    MaxJobs = 2
    Surveys <- MCSurveys
    Cuts <- MCCuts
    NoReport = NoReport
    Absent = Absent
    Torn = Torn
    MaxFaults = 1
    Other <- MCOther
SPECIFICATION Spec
INVARIANT ExitTellsFailures
CHECK_DEADLOCK FALSE
