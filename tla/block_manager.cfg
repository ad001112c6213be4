SPECIFICATION FairSpec
CONSTANTS
    None = None
    Payload <- CountingPayload
    BLOCK_SIZE = 3
    INT_MAX = 5
    Addr = {0, 2, 4, 5}
    Byte = {0, 1, 2, 3}
    MaxCrashes = 1
    Handler = {h1, h2}
INVARIANTS
    TypeOK
    ReadsBack
    LoggedOnce
    AnsweredIsLogged
    NeverAllBlocked
PROPERTIES
    ImplementsDisk
    HandlersReturn
