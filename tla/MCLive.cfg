CONSTANTS
    SeqMod = 4
    Foreign = TRUE
    SendTimeout = 2
    OpenPoll = 1
    WriteRetryDelay = 0
    WriteStall = 0
    MaxWriteAttempts = 2
    MaxDrain = 1
    MaxSends = 2
    MaxRestarts = 0
    HandOffTears = FALSE
    MaxFaults = 1
SPECIFICATION Spec
PROPERTIES
    EverySendReturns
    NoReportForgotten
