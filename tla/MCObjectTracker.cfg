SPECIFICATION Spec
CONSTANTS
    Obj = {o1, o2, o3}
    Text = {t1}
    Null = Null
    NoText = NoText
    Trigger = 1
    MaxHeld = 1
    MaxRefs = 1
SYMMETRY Addresses
INVARIANTS TypeOK IInv SingleOwner MarkedFromRoots Interned
PROPERTIES NeverFreesReachable
CHECK_DEADLOCK FALSE
