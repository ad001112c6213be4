SPECIFICATION Spec
CONSTANTS
    Primary = Primary
    Backup = Backup
    None = None
    Payload <- CountingPayload
    BLOCK_SIZE = 2
    INT_MAX = 999
    Addr = {0, 1}
    Byte = {0, 1, 2}
    WriteTo = {Primary}
    Writer = {w1}
    SubThread = {t1, t2}
    Checker = {}
    MaxCrashes = 1
    MaxBreaks = 0
INVARIANTS
    MirrorsAgree
    QueueCoherent
PROPERTIES
    ValidIsMirrored
    ImplementsMirrors
SYMMETRY Symmetry
CONSTRAINT NothingSuspect
