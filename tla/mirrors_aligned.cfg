SPECIFICATION Spec
CONSTANTS
    Primary = Primary
    Backup = Backup
    None = None
    Payload <- SolidPayload
    BLOCK_SIZE = 1
    INT_MAX = 999
    Addr = {0}
    Byte = {0, 1, 2}
    WriteTo = {Primary, Backup}
    Writer = {w1, w2}
    SubThread = {t1}
    Checker = {c1}
    MaxCrashes = 1
    MaxBreaks = 1
INVARIANTS
    TypeOK
    MirrorsAgree
    NoLockLeaked
    LocksExclusive
PROPERTIES
    ValidIsMirrored
    CheckIsSound
    SurvivesCrash
SYMMETRY Symmetry
CONSTRAINT SomeBlockTrusted
