SPECIFICATION Spec
CONSTANTS
    N = 2
    Bytes = {0, 1}
    IntValue <- MCIntValue
    IntBytes = 2
    SockBuf = 2
    Messages <- MCMessages
    MaxMessages = 3
    Faulty = {0, 1, 2}
INVARIANTS
    TypeOK
    Framing
PROPERTIES
    ReadersExit
    ImplementsMessagePipe
CHECK_DEADLOCK FALSE
