CONSTANTS
    StepLimit = 3
    MotorOnDelay = 3
    MotorOffDelay = 1
    StepDelay = 1
    BitLen = 3
    ByteBits = 1
    WordBits = 2
    MaxLen = 2
    MaxStep = 2
    Programs <- MCPrograms
SPECIFICATION Spec
INVARIANTS HeadPlaced TimersMatch DataNeedsTrack DmaCounts
PROPERTIES BlockDone SpinUpEnds
