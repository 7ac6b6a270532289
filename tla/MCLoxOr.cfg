SPECIFICATION LoxSpec
CONSTANTS
    Sources <- OrWithFalsyLeft
    MaxFrames = 5
    MaxStack = 24
    ByteSize = 24
    MaxConstants = 24
    MaxJump = 100
INVARIANTS Correct
CHECK_DEADLOCK FALSE
