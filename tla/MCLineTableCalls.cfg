SPECIFICATION Spec
CONSTANTS
    LineSteps <- ShortSteps
    SilentBytes <- Bytes
    MaxLine = 400
    MaxInstructions = 4
INVARIANTS CallLinesRight
CHECK_DEADLOCK FALSE
