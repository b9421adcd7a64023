\* The runner: three processes, up to three probes, two at a time.
CONSTANTS
    dns = dns
    dnsAgain = dnsAgain
    tcp4 = tcp4
    tcp6 = tcp6
    Drafts <- MCDrafts
    IdOf <- MCIdOf
    Proposals <- MCProposals
    MaxProbesGiven = {0, 2}
    DefaultMaxProbes = 3
    MaxConcurrent = 2
    MaxRounds = 2
    MaxRuns = 3
SPECIFICATION FairSpec
INVARIANTS
    TypeOK
    RecordedOnce
    NoDuplicateError
    NeverRerun
    WithinBudget
    LogFollowsRounds
PROPERTIES
    HistoryImmutable
    ImplementsLog
    SurveyReturns
CHECK_DEADLOCK FALSE
