\* arming.c:153: a disarm stick that is held disarms.
SPECIFICATION FairSpec
CONSTANTS
    ArmRate = 2
    CounterSize = 8
    Settings <- StickOnly
    DefaultSettings <- Unset
    RcInputs <- Sticks
    Lost <- LostInput
PROPERTY HeldStickDisarms
