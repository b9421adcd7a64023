\* TLS is proposed on a port that TCP has just failed to reach.
CONSTANTS
    Target <- HTTPSTarget
    Control <- ControlTarget
    PreferIPv6 = FALSE
    MaxCandidates = 32
    FirstPolicies = {"fast", "adaptive"}
    NextPolicies = {"fast", "adaptive"}
    MaxProbesGiven = {16}
    Outcomes <- TreeOutcomes
    MaxResumes = 0
    MaxRounds = 16
SPECIFICATION Spec
INVARIANT PrerequisitesMet
CHECK_DEADLOCK FALSE
