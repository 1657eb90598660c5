SPECIFICATION Spec
CONSTANTS
    N = 2
    Data = {d1, d2}
    RunGoesOn = FALSE
PROPERTY Atomic
