SPECIFICATION ReplSpec
CONSTANTS
    Sources <- Inputs
    MaxFrames = 4
    MaxStack = 6
    ByteSize = 16
    MaxConstants = 16
    MaxJump = 100
    MaxInputs = 2
INVARIANT MachineClean
CHECK_DEADLOCK FALSE
