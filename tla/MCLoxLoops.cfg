SPECIFICATION LoxSpec
CONSTANTS
    Sources <- Loops
    MaxFrames = 5
    MaxStack = 24
    ByteSize = 24
    MaxConstants = 24
    MaxJump = 100
PROPERTIES Ends
CHECK_DEADLOCK FALSE
