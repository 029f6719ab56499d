SPECIFICATION HistSpec
CONSTANTS
    MAXMSGS = 2
    MAXMSGLENGTH = 2
    JSON_NPACKET = 1
    RXSIZE = 2
    MAXTROUBLES = 1
    MAXALARMS = 1
PROPERTIES
    AlarmsUploaded
