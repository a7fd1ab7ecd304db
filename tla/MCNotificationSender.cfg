SPECIFICATION FairSpec
CHECK_DEADLOCK FALSE
CONSTANTS
    None = None
    Abandoned = Abandoned
    n1 = n1
    n2 = n2
    w1 = w1
    w2 = w2
    Note = {n1, n2}
    Unsendable = {n2}
    Sender = {w1, w2}
    BatchSize = 2
    MaxAttempts = 2
    BreakerThreshold = 2
    MaxFaults = 3
    MaxRedrives = 1
INVARIANTS
    MailsArePaidFor
    GivenUpRightly
    OneHolder
    BreakerLimitsCalls
PROPERTIES
    SentIsFinal
    ContractKept
    EveryNoteSettles
