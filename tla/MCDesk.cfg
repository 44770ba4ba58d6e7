SPECIFICATION Spec
CONSTANTS
    Table = {1, 2}
    Bill = {x1, x2, x3, x4}
    Order = {o1, o2, o3, o4}
    MenuItem = {m1}
    Waiting = {o1, o2}
    Browser = {b1, b2}
    MaxOpens = 2
    MaxTaps = 2
    MaxCalls = 2
    MaxFaults = 1
    None = None
SYMMETRY MCSymmetry
INVARIANTS
    TypeOK
    
    OneOpenBillPerTable
 
CHECK_DEADLOCK FALSE
