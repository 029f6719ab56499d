SPECIFICATION FairSpec
CONSTANTS
    Users = {"u1", "u2"}
    Words = {"right"}
    MaxCuts = 0
PROPERTIES
    NewUserWorks
