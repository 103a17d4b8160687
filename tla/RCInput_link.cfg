SPECIFICATION FairSpec
CONSTANTS
    NumChannels = 2
    FrameLength = 2
    RssiTimeout = 1
    Roles = {"THROTTLE", "ARM", "SERIAL"}
    SwitchRoles = {"ARM", "SERIAL"}
    Off = "OFF"
    Settings <- Changes
INVARIANTS
    ModeIsWatched
    LookupFindsAssigned
PROPERTIES
    SilenceDisconnects
    CleanLineConnects
