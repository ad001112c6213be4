SPECIFICATION Spec
CONSTANTS
    None = None
    SHA_BLOCK = 5
    LEN_BYTES = 2
    WORD = 65536
    Byte = {0, 128}
    MaxLen = 10
INVARIANTS
    TypeOK
    NothingLost
    DigestIsStandard
    TellsApart
