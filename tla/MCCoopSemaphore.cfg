SPECIFICATION FairSpec
CONSTANTS
    Tasks = {t1, t2, t3}
    NoTask = NoTask
    mutexPending = 2
    signalPending = 1
    VALUEMAX = 2
    ENTRYMAX = 2
INVARIANTS
    TypeOK
    MutualExclusion
    SleepersQueued
    NoLostWakeup
    AwakeScheduled
PROPERTIES
    RefinesSemaphore
    MissesNeedTwo
    UnitServed
