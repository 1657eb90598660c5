SPECIFICATION Spec
CONSTANTS
    Attempts = 5
    Runs = 3
INVARIANTS TypeOK ChecksAgree WorkerFresh KeyKept ResetRemovesRuntime
CHECK_DEADLOCK FALSE
