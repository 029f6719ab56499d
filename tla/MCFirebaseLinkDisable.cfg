SPECIFICATION FairSpec
CONSTANTS
    MAXMSGS = 3
    JSON_NPACKET = 2
    FIREBASE_TRIES = 3
    FBASE_TRIES = 2
    VALMAX = 1
    COUNTMAX = 5
PROPERTIES
    DisableTakesEffect
