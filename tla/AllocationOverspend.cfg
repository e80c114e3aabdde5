SPECIFICATION Spec
CONSTANTS
    N = 3
    Inputs <- SomeInputs
INVARIANT ReserveIsKept
CHECK_DEADLOCK FALSE
