\* A path is reported healthy although a probed layer did not pass.
CONSTANTS
    Target <- HTTPSTarget
    Control <- ControlTarget
    PreferIPv6 = FALSE
    MaxCandidates = 32
    FirstPolicies = {"fast", "adaptive"}
    NextPolicies = {"fast", "adaptive"}
    MaxProbesGiven = {16}
    Outcomes <- TreeOutcomes
    MaxResumes = 0
    MaxRounds = 16
SPECIFICATION Spec
INVARIANT HealthyMeansPassed
CHECK_DEADLOCK FALSE
