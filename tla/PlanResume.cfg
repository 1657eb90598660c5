SPECIFICATION MCSpec
CONSTANTS
    Hosts <- MCHosts
    OptionSet <- MCOptions
    Faults = TRUE
INVARIANT PlanResumable
