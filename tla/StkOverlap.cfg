SPECIFICATION Spec
CONSTANTS
    a1 = a1
    a2 = a2
    UniqueColumns = {"reference"}
    BookieIsSports = TRUE
    Accounts = {a1, a2}
    Requests = {r1, r2}
    Consumers = {c1, c2}
    Handlers = {h1, h2}
    Opening <- TinyAndBig
    Amounts = {150, 350}
    Modes <- RealMode
    PushErrors = {"refused"}
    GatewayDedups = TRUE
    Redelivers = TRUE
    MaxDuplicates = 1
    MaxFaults = 0
    MaxCrashes = 0
INVARIANT BalancesArePosted
INVARIANT PromptsAreComplete
INVARIANT EveryCreditIsPaid
PROPERTY PaymentSpec
PROPERTY RowsKeepOrder
SYMMETRY Symmetry
CHECK_DEADLOCK FALSE
