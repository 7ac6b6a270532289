SPECIFICATION Spec
CONSTANTS
    Key = {1, 2, 3, 4}
    Val = {1, 2}
    NoVal = NoVal
    Empty = Empty
    Hash <- MCHash
    DefaultSize = 4
    DefaultMax = 3
    MaxCapacity = 16
INVARIANTS Room OneSlotPerKey RunsUnbroken IInv
PROPERTIES Implements CallsEnd
