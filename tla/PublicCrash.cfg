SPECIFICATION Spec
CONSTANTS
    LocalTest = FALSE
    Faults = TRUE
INVARIANTS
    TypeOK
    RollbackSafe
    RecordedStepsApplied
    OpenStepIsCurrent
PROPERTIES
    FirstBaselineKept
    ProgressKept
    PromiseKept
