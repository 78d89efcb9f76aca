SPECIFICATION FairSpec
CONSTANTS
    a = a
    b = b
    a1 = a1
    a2 = a2
    a3 = a3
    b1 = b1
    x = x
    y = y
    t = t
    Ordinary = {a1, a2, a3, b1}
    Exclusive = {x, y}
    Tracked = {t}
    Model = {a, b}
    ModelOf <- MCModelOf
    MaxInflight = 2
    None = None
INVARIANTS
    SlotsCountCalls
    ExclusiveAlone
PROPERTIES
    ExclusiveNotPassed
    WaitersServed
CHECK_DEADLOCK FALSE
