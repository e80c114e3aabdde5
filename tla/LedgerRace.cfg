SPECIFICATION Spec
CONSTANTS
    UniqueColumns = {"reference", "idempotency_key"}
    BookieIsSports = TRUE
    Calls = {k1, k2, k3}
    AccountType = "sports"
    Opening <- Purse
    Amounts = {0, 100, 150}
    TopUpAmounts = {100}
    MaxFaults = 1
INVARIANT TypeOK
INVARIANT NeverOverdrawn
INVARIANT ExactUnlessStale
INVARIANT TablesAgree
PROPERTY AtomicUnlessStale
SYMMETRY CallSymmetry
CHECK_DEADLOCK FALSE
