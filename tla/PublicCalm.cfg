SPECIFICATION Spec
CONSTANTS
    LocalTest = FALSE
    Faults = FALSE
INVARIANTS
    BaselineTrue
    RerunAccepted
    OwnedComplete
PROPERTIES
    ResetReopens
    CommandEnds
