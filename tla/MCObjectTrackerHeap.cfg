SPECIFICATION Spec
CONSTANTS
    Obj = {o1, o2, o3}
    Text = {}
    Null = Null
    NoText = NoText
    Trigger = 1
    MaxHeld = 0
    MaxRefs = 2
INVARIANTS NoDangling
PROPERTIES SweepExact CollectionEnds
CHECK_DEADLOCK FALSE
