SPECIFICATION Spec
CONSTANTS
    a1 = a1
    a2 = a2
    UniqueColumns = {}
    BookieIsSports = TRUE
    Accounts = {a1, a2}
    Requests = {r1}
    Consumers = {c1}
    Handlers = {h1}
    Opening <- TwoAccounts
    Amounts = {350}
    Modes <- RealMode
    PushErrors = {}
    GatewayDedups = FALSE
    Redelivers = TRUE
    MaxDuplicates = 0
    MaxFaults = 0
    MaxCrashes = 0
INVARIANT RealIsPaid
CHECK_DEADLOCK FALSE
