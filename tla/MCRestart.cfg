CONSTANTS
    SeqMod = 4
    Foreign = FALSE
    SendTimeout = 2
    OpenPoll = 1
    WriteRetryDelay = 1
    WriteStall = 0
    MaxWriteAttempts = 2
    MaxDrain = 1
    MaxSends = 2
    MaxRestarts = 1
    HandOffTears = FALSE
    MaxFaults = 0
SPECIFICATION SafeSpec
INVARIANT
    AckMeansTransmitted
