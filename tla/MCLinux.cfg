CONSTANTS
    InhibitDelay = 5
    SendTimeout = 2
    MaxAnnounced = 2
    MaxAdds = 1
    MaxStops = 1
    Cancels = TRUE
    Refusals = FALSE
SPECIFICATION Spec
INVARIANTS
    TypeOK
    OffTriedInTime
    FewAhead
    LockAtRest
PROPERTIES
    OnIsExplained
    LockComesBack
    LockIsLetGo
