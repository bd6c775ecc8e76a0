SPECIFICATION Spec
CONSTANTS
    Enterprises = {A, B}
    A = A
    Amounts = {1, 3}
    Half = 4
    GetStateFails = TRUE
    MaxTx = 3
INVARIANTS
    CreditsMove
CHECK_DEADLOCK FALSE
