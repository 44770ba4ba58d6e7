CONSTANTS
    o1 = o1
    o2 = o2
    i1 = i1
    i2 = i2
    i3 = i3
    Order = {o1, o2}
    ItemsOf <- MCItemsOf
    Request = {r1, r2}
    MaxFaults = 0
    None = None
SPECIFICATION Spec
INVARIANT OrderFollowsItems
CHECK_DEADLOCK FALSE
