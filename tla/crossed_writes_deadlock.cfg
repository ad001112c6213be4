SPECIFICATION FairSpec
CONSTANTS
    Primary = Primary
    Backup = Backup
    None = None
    Payload <- ZeroPayload
    BLOCK_SIZE = 1
    INT_MAX = 999
    Addr = {0}
    Byte = {0}
    WriteTo = {Primary, Backup}
    Writer = {w1, w2}
    SubThread = {t1}
    Checker = {}
    MaxCrashes = 0
    MaxBreaks = 0
PROPERTIES
    WritesReturn
