\* Every way of arming, disarming and driving the motors, all together.
SPECIFICATION FairSpec
CONSTANTS
    ArmRate = 2
    CounterSize = 8
    Settings <- BothWays
    DefaultSettings <- Unset
    RcInputs <- AllInputs
    Lost <- LostInput
PROPERTIES
    ArmsAfterHold
    OneArmPerPress
    OverrideLasts
    ComputerKeepsArmed
    PilotGone
    IdleDisarms
