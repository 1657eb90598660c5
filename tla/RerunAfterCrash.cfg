SPECIFICATION Spec
CONSTANTS
    LocalTest = FALSE
    Faults = TRUE
INVARIANT RerunAccepted
