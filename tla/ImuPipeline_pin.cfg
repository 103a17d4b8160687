\* The same instance, and whether a sample whose pin is up is read.
SPECIFICATION FairSpec
CONSTANTS
    SENSOR = SENSOR
    EST = EST
    CTRL = CTRL
    AUX = AUX
    USB = USB
    NoThread = NoThread
    Threads <- AllThreads
    Places <- ThePlaces
    Mutexes <- TheMutexes
    Priority <- ThePriorities
    Ports <- TwoPorts
    Wrap = 3
    Gaps = {2, 3}
    LastCycle = 6
    MaxFaults = 1
    MaxSets = 1
    Frames = {1}

PROPERTY SampleIsRead
