SPECIFICATION ParsingSpec
CONSTANTS
    Inputs <- MCInputs
INVARIANTS TypeOK TreesFormed ErrorsCaught AcceptsGrammar RightShape NothingLost LimitReported
PROPERTY Ends
CHECK_DEADLOCK FALSE
