SPECIFICATION ScanningSpec
CONSTANTS
    Letters <- MCLetters
    Digits = {"1"}
    Keywords <- MCKeywords
    Alphabet <- MCAlphabet
    MaxText = 5
INVARIANTS ErrorsExact TokensExact
PROPERTIES Ends
CHECK_DEADLOCK FALSE
