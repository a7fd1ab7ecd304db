SPECIFICATION FairSpec
CHECK_DEADLOCK FALSE
CONSTANTS
    None = None
    e1 = e1
    e2 = e2
    e3 = e3
    e4 = e4
    c1 = c1
    c2 = c2
    Event = {e1, e2, e3, e4}
    Kind <- OneOfEach
    Process = {c1}
    Slot = {1, 2}
    Prefetch = 2
    MaxAttempts = 2
    MaxMessages = 2
    MaxOutages = 1
    MaxFaults = 2
    MaxRedrives = 1
    MaxSweeps = 1
INVARIANTS
    TypeOK
    ExactlyOnceEffect
    NothingDropped
    DeadLettersEarnedIt
    PausedMeansSilent
PROPERTIES
    EveryMessageSettles
    ConsumersReturn
