\* An experiment that never started is recorded as if it were complete.
CONSTANTS
    dns = dns
    dnsAgain = dnsAgain
    tcp4 = tcp4
    tcp6 = tcp6
    Drafts <- MCDrafts
    IdOf <- MCIdOf
    Proposals <- MCProposals
    MaxProbesGiven = {0, 2}
    DefaultMaxProbes = 3
    MaxConcurrent = 2
    MaxRounds = 2
    MaxRuns = 3
SPECIFICATION Spec
INVARIANT OnlyCompletedRecorded
CHECK_DEADLOCK FALSE
