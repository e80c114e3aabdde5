SPECIFICATION Spec
CONSTANTS
    Txns = {t1, t2}
    Calls = {c1, c2, c3}
    MaxFaults = 1
    MaxCrashes = 1
INVARIANT AtMostOneEnvelope
SYMMETRY CallSymmetry
CHECK_DEADLOCK FALSE
