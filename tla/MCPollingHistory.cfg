SPECIFICATION HistSpec
CONSTANTS
    MAXMSGS = 2
    MAXMSGLENGTH = 2
    JSON_NPACKET = 2
    RXSIZE = 3
    MAXTROUBLES = 1
    MAXALARMS = 1
INVARIANTS
    TypeOK
    TokenOwner
    WaitsForWindow
    FreshWindow
    FailureEndsWithCycle
    RadioExclusive
    AlarmTold
    UploadBeforeAlarms
    LeftoverOnlyWhenDown
PROPERTIES
    RefinesPollCycle
    UsesSemaphore
    AlarmKeepsWiFi
    VerdictSound
    AlarmCarried
    UnreportedOnlyWhenFull
