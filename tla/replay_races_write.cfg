SPECIFICATION Spec
CONSTANTS
    Primary = Primary
    Backup = Backup
    None = None
    Payload <- SolidPayload
    BLOCK_SIZE = 1
    INT_MAX = 999
    Addr = {0}
    Byte = {0, 1, 2}
    WriteTo = {Primary}
    Writer = {w1}
    SubThread = {t1}
    Checker = {}
    MaxCrashes = 0
    MaxBreaks = 0
INVARIANTS
    ConsistentAtRest
