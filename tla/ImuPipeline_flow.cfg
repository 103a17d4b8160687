\* Up to two samples, of which none, one or both wrap the counter, also to the reading it
\* had before; one calibration, one failed transfer, one frame of the motion capture, two
\* ports.
SPECIFICATION FairSpec
CONSTANTS
    SENSOR = SENSOR
    EST = EST
    CTRL = CTRL
    AUX = AUX
    USB = USB
    NoThread = NoThread
    Threads <- AllThreads
    Places <- ThePlaces
    Mutexes <- TheMutexes
    Priority <- ThePriorities
    Ports <- TwoPorts
    Wrap = 3
    Gaps = {2, 3}
    LastCycle = 6
    MaxFaults = 1
    MaxSets = 1
    Frames = {1}
INVARIANTS
    TimeExact
    OneReading
    ControlSeesWhole
    AcceptedMeansWhole
    CopiedIsAccepted
PROPERTY ReadingReachesControl
