SPECIFICATION FairSpec
CHECK_DEADLOCK FALSE
CONSTANTS
    None = None
    Abandoned = Abandoned
    w1 = w1
    w2 = w2
    Event = {1, 2}
    Relay = {w1, w2}
    BatchSize = 2
    MaxAttempts = 2
    MaxFaults = 3
    MaxRedrives = 1
INVARIANTS
    AttemptsWereMade
    OneHolder
    CopiesArePaidFor
PROPERTIES
    PublishedIsFinal
    EveryEventSettles
    ContractKept
