SPECIFICATION Spec
CONSTANTS
    LocalTest = TRUE
    Faults = FALSE
INVARIANT CompletedIsWhole
