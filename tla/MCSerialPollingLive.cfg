SPECIFICATION FairSpec
CONSTANTS
    MAXMSGS = 1
    MAXMSGLENGTH = 2
    JSON_NPACKET = 2
    RXSIZE = 2
    MAXTROUBLES = 1
    MAXALARMS = 1
PROPERTIES
    PollingContinues
    AlarmReported
