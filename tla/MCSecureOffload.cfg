SPECIFICATION Spec
CONSTANTS
    Gateway = Gateway
    Enclave = Enclave
    Devices = {d1, d2}
    NULL = NULL
    BACKLOG = 0
    NumberRange = 3
    Faulty = {Gateway, Enclave, d1, d2}
    Documents = {"good", "no_public_key", "invalid"}
    KeygenFails = TRUE
INVARIANTS
    TypeOK
    InStep
    AttestedFirst
    OneInFlight
PROPERTIES
    AnswersTheRequest
    Answered
    Cascade
    SessionLasts
CHECK_DEADLOCK FALSE
