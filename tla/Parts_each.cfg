\* The codes of COBS in small: blocks of up to four bytes, runs of three or four zeros,
\* pairs of zeros after up to two bytes.  A packet of two bytes and its CRC.
SPECIFICATION Spec
CONSTANTS
    DiffZero = 1
    Diff = 5
    RunZero = 6
    RunZeroMax = 7
    Diff2Zero = 8
    Diff2ZeroMax = 10
    Data = {0, 3}
    MaxSize = 9
    MaxNoise = 2
    BufferSize = 11
    Bytes = {{1, 3, 4, 6}}
    MaxBody = 2
    BurstBits = 14
    Steps = 100
    Positions = {1, 172, 600, 992, 1365, 1500, 1811, 2047}
    Rests = {0, 2047}
    Calibrations <- MCCalibrations
    MaxEvents = 3
INVARIANTS
    DecodedAsEncoded
    BurstIsDetected
    HeardAsThrottle
    CycleIsItsOwn
PROPERTIES
    StickIsRead
    SettingsKept
\* A packet comes to its end.
CHECK_DEADLOCK FALSE
