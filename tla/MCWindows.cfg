CONSTANT
    MaxEvents = 5
SPECIFICATION Spec
INVARIANTS
    TypeOK
    LatestRequestWins
    DarkDisplayDarkTv
    OffBeforeStopped
    NothingSleptThrough
PROPERTIES
    StopsWhenTold
    RequestsServed
