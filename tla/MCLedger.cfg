SPECIFICATION Spec
CONSTANTS
    Enterprises = {A, B}
    A = A
    Amounts = {1, 3}
    Half = 4
    GetStateFails = FALSE
    MaxTx = 3
INVARIANTS
    TypeOK
    Serializable
PROPERTIES
    ImplementsAccounts
CHECK_DEADLOCK FALSE
