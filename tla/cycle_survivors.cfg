SPECIFICATION Spec
CONSTANTS
    obj1 = obj1
    obj2 = obj2
    obj3 = obj3
    Objects = {obj1, obj2, obj3}
    SlotsOf <- OneWide
    Trigger = 2
    MaxStrong = 3
    NoObject = NoObject
PROPERTIES
    CyclesReclaimed
CHECK_DEADLOCK FALSE
