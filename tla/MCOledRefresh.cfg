SPECIFICATION FairSpec
CONSTANTS
    Texts = {"fails", "alarms"}
    States = {"NORMAL", "ALARM"}
INVARIANTS
    NothingLost
PROPERTIES
    ScreenSettles
