CONSTANTS
    o1 = o1
    o2 = o2
    i1 = i1
    i2 = i2
    i3 = i3
    Order = {o1, o2}
    ItemsOf <- MCItemsOf
    Request = {r1}
    MaxFaults = 2
    None = None
SPECIFICATION Spec
INVARIANT TypeOK
INVARIANT OrderFollowsItems
PROPERTY WrittenSubtotalIsExact
PROPERTY FinishedItemsStay
CHECK_DEADLOCK FALSE
