SPECIFICATION FairSpec
CONSTANTS
    Txns = {t1, t2}
    Calls = {c1, c2, c3}
    MaxFaults = 1
    MaxCrashes = 1
INVARIANT TypeOK
INVARIANT SentOnce
INVARIANT AuditIsInStream
PROPERTY CallsEnd
CHECK_DEADLOCK FALSE
