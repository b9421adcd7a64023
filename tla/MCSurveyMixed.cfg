\* All four policies on an http target, resumed under one another.
CONSTANTS
    Target <- HTTPTarget
    Control <- ControlTarget
    PreferIPv6 = TRUE
    MaxCandidates = 32
    FirstPolicies = {"fast", "adaptive", "factorial", "taguchi"}
    NextPolicies = {"fast", "adaptive", "factorial", "taguchi"}
    MaxProbesGiven = {4, 16}
    Outcomes <- MixedOutcomes
    MaxResumes = 1
    MaxRounds = 16
SPECIFICATION Spec
INVARIANTS
    DoneExactly
    ProposalsAreNew
    TaguchiCovers
CHECK_DEADLOCK FALSE
