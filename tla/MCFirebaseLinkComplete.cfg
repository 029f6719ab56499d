SPECIFICATION Spec
CONSTANTS
    MAXMSGS = 5
    JSON_NPACKET = 2
    FIREBASE_TRIES = 4
    FBASE_TRIES = 2
    VALMAX = 2
    COUNTMAX = 7
PROPERTIES
    UploadComplete
