SPECIFICATION FairSpec
CONSTANTS
    Primary = Primary
    Backup = Backup
    None = None
    Payload <- ZeroPayload
    BLOCK_SIZE = 1
    INT_MAX = 999
    Addr = {0}
    Byte = {0}
    WriteTo = {Primary}
    Writer = {w1}
    SubThread = {t1, t2}
    Checker = {}
    MaxCrashes = 2
    MaxBreaks = 0
PROPERTIES
    WritesReturn
    Reintegrated
CONSTRAINT NeverPoppedEmpty
