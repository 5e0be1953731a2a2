CONSTANTS
    InhibitDelay = 5
    SendTimeout = 2
    MaxAnnounced = 1
    MaxAdds = 1
    MaxStops = 1
    Cancels = FALSE
    Refusals = FALSE
SPECIFICATION Spec
INVARIANT
    OffTriedBeforeDown
