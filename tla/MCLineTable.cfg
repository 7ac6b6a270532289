SPECIFICATION Spec
CONSTANTS
    LineSteps <- FarSteps
    SilentBytes <- Bytes
    MaxLine = 450
    MaxInstructions = 4
INVARIANTS TypeOK LinesRight
CHECK_DEADLOCK FALSE
