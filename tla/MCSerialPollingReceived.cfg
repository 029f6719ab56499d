SPECIFICATION Spec
CONSTANTS
    MAXMSGS = 2
    MAXMSGLENGTH = 2
    JSON_NPACKET = 2
    RXSIZE = 4
    MAXTROUBLES = 1
    MAXALARMS = 1
PROPERTIES
    AllReceived
