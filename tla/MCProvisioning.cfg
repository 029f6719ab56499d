SPECIFICATION FairSpec
CONSTANTS
    Users = {"u1", "u2"}
    Words = {"", "right"}
    MaxCuts = 1
INVARIANTS
    FlagOfAccount
    StagesSound
PROPERTIES
    ConfiguredRuns
