SPECIFICATION Spec
CONSTANTS
    Customers = {u1, u2}
    Sends = {s1, s2, s3}
    NoCode = NoCode
    TTL = 2
    Slack = 1
    MaxTime = 10
    MaxRestarts = 1
INVARIANT LastCodeIsAccepted
CHECK_DEADLOCK FALSE
