SPECIFICATION Spec
CONSTANTS
    a1 = a1
    a2 = a2
    UniqueColumns = {"reference", "idempotency_key"}
    BookieIsSports = TRUE
    Accounts = {a1, a2}
    Requests = {r1, r2, r3}
    Engines = {e1, e2}
    Opening <- Wallets
    Amounts <- WithNegative
    Development = FALSE
    MaxFaults = 0
INVARIANT DebitsAreSent
CHECK_DEADLOCK FALSE
