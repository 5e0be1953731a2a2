CONSTANTS
    SeqMod = 3
    Foreign = FALSE
    SendTimeout = 2
    OpenPoll = 1
    WriteRetryDelay = 1
    WriteStall = 0
    MaxWriteAttempts = 2
    MaxDrain = 1
    MaxSends = 3
    MaxRestarts = 0
    HandOffTears = FALSE
    MaxFaults = 1
SPECIFICATION SafeSpec
INVARIANTS
    IInv
    StaleNeverMatches
    ConfirmedTv
PROPERTY
    ImplementsTvLink
