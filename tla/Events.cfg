SPECIFICATION Spec
CONSTANTS
    Reader = {stdout, stderr}
    Events = 6
    HistoryLimit = 3
    Capacity = 2
INVARIANTS TypeOK NewestShown NothingMissing
CHECK_DEADLOCK FALSE
