\* The fast and the adaptive policy on an https target, fresh and resumed.
CONSTANTS
    Target <- HTTPSTarget
    Control <- ControlTarget
    PreferIPv6 = FALSE
    MaxCandidates = 32
    FirstPolicies = {"fast", "adaptive"}
    NextPolicies = {"fast", "adaptive"}
    MaxProbesGiven = {2, 3, 16}
    Outcomes <- TreeOutcomes
    MaxResumes = 1
    MaxRounds = 16
SPECIFICATION Spec
INVARIANTS
    TypeOK
    DoneExactly
    FastPrerequisitesMet
    FastTakesOnePath
    AdaptiveExplains
    FailuresAreNamed
    VerdictsStandOnPort
    ViewsAreDefault
CHECK_DEADLOCK FALSE
