SPECIFICATION FairSpec
CONSTANTS
    a1 = a1
    a2 = a2
    UniqueColumns = {}
    BookieIsSports = TRUE
    Accounts = {a1, a2}
    Requests = {r1}
    Consumers = {c1}
    Handlers = {h1}
    Opening <- TwoAccounts
    Amounts = {0, 300, 350}
    Modes <- AllModes
    PushErrors = {"refused", "timeout", "garbled"}
    GatewayDedups = FALSE
    Redelivers = TRUE
    MaxDuplicates = 0
    MaxFaults = 1
    MaxCrashes = 1
INVARIANT TypeOK
INVARIANT PromptsAreBooked
INVARIANT PromptsAreComplete
INVARIANT SplitWithinRequest
INVARIANT EveryCreditIsPaid
PROPERTY PublishedIsRecorded
PROPERTY PaidIsCredited
CHECK_DEADLOCK FALSE
