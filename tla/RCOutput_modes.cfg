\* Three settings, one with a byte that is no mode, a DShot packet of two bits.
SPECIFICATION FairSpec
CONSTANTS
    Banks <- TheBanks
    Channels <- TheChannels
    Settings <- TheSettings
    DshotRows = 3
INVARIANT
    FrameIsOnePacket
PROPERTIES
    RestsBetweenFrames
    BurstIsFresh
    OutputsRecover
