SPECIFICATION Spec
CONSTANTS
    k1 = k1
    k2 = k2
    k3 = k3
    k4 = k4
    Keys <- FourKeys
    Values = {v1, v2, v3}
    NULL = NULL
    Slots <- TwoSlots
    SlotOf <- ThreeInOne
INVARIANTS
    TypeOK
    OneEntryPerKey
    LenIsKeys
    ValuesAlive
    OwnedOnce
PROPERTY
    ImplementsOwningMap
