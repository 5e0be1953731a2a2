CONSTANTS
    lg = lg
    sony = sony
    own = own
    Tv <- MCTv
    DefaultProfiles <- MCDefaults
    Uploads <- MCUploads
    MaxProfiles = 3
    MaxFaults = 1
    MaxPowerLosses = 1
    Debounce = 1
    PressMax = 2
    ConfigTime = 3
    ResetStart = 4
    ResetEnd = 5
    ScreenTime = 2
    Stall = 2
SPECIFICATION Spec
INVARIANTS
    TypeOK
    ScreenAsSet
    StatusTellsActive
    ActiveInRange
    RamIsFlash
    BootKeepsTheList
PROPERTIES
    NoBlindSwitch
    HoldIsShown
    ImplementsMemory
    ResetRestores
    CyclesToNextVisible
