SPECIFICATION LoxSpec
CONSTANTS
    Sources <- MainSources
    MaxFrames = 5
    MaxStack = 28
    ByteSize = 24
    MaxConstants = 24
    MaxJump = 100
INVARIANTS TypeOK Correct RejectsExactly CodeFits FramesLinked OperandsPresent OpenUpvaluesOrdered OpenUpvaluesLive HeightsAgree IInv
PROPERTIES CallersUntouched
CHECK_DEADLOCK FALSE
