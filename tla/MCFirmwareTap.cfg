CONSTANTS
    lg = lg
    sony = sony
    own = own
    Tv <- MCTv
    DefaultProfiles <- MCDefaults
    Uploads <- MCUploads
    MaxProfiles = 3
    MaxFaults = 0
    MaxPowerLosses = 0
    Debounce = 1
    PressMax = 2
    ConfigTime = 5
    ResetStart = 6
    ResetEnd = 7
    ScreenTime = 1
    Stall = 5
SPECIFICATION Spec
PROPERTIES
    TapIsPress
