CONSTANTS
    SeqMod = 3
    Foreign = TRUE
    SendTimeout = 2
    OpenPoll = 1
    WriteRetryDelay = 0
    WriteStall = 2
    MaxWriteAttempts = 2
    MaxDrain = 1
    MaxSends = 2
    MaxRestarts = 1
    HandOffTears = TRUE
    MaxFaults = 1
SPECIFICATION SafeSpec
INVARIANTS
    TypeOK
    SendWithinBudget
PROPERTY
    CommandsAsSent
