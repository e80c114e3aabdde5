SPECIFICATION Spec
CONSTANTS
    N = 3
    Inputs <- SomeInputs
INVARIANT TypeOK
INVARIANT OnlyMinimumsOverspend
INVARIANT OneSmallAmount
INVARIANT RemainderByScore
CHECK_DEADLOCK FALSE
