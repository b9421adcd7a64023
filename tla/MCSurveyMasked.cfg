\* A connection to port 80 erases the verdict on the target's own port.
CONSTANTS
    Target <- HTTPSTarget
    Control <- ControlTarget
    PreferIPv6 = FALSE
    MaxCandidates = 32
    FirstPolicies = {"fast", "adaptive"}
    NextPolicies = {"fast", "adaptive"}
    MaxProbesGiven = {16}
    Outcomes <- TreeOutcomes
    MaxResumes = 0
    MaxRounds = 16
SPECIFICATION Spec
INVARIANT VerdictsStand
CHECK_DEADLOCK FALSE
