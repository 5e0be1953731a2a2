CONSTANTS
    lg = lg
    sony = sony
    own = own
    Tv <- MCTv
    DefaultProfiles <- MCDefaults
    Uploads <- MCUploads
    MaxProfiles = 3
    MaxFaults = 1
    MaxPowerLosses = 0
    Debounce = 1
    PressMax = 2
    ConfigTime = 3
    ResetStart = 4
    ResetEnd = 5
    ScreenTime = 1
    Stall = 0
SPECIFICATION Spec
PROPERTIES
    OkMeansSaved
