SPECIFICATION Spec
CONSTANTS
    Documents <- MCDocuments
    EcKeys = {"ec1", "ec2"}
    RsaKeys = {"rsa1"}
    PublicKeys = {"enclave"}
    IntRange = 256
    LibraryFails = TRUE
    NULL = NULL
INVARIANTS
    TypeOK
    AcceptsExactlySigned
CHECK_DEADLOCK FALSE
