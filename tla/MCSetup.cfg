SPECIFICATION Spec
CONSTANTS
    Station = {s1, s2, s3}
    Category = {c1, c2}
    MenuItem = {m1}
    Code = {bar, kitchen, grill}
    InitialStations = {s1, s2}
    InitialCategories = {c1}
    Password = {seed, p1}
    Seed = seed
    Browser = {b1, b2}
    Shop = {b1, b2}
    MaxOpens = 2
    MaxCalls = 5
    MaxFaults = 1
    None = None
SYMMETRY MCSymmetry
INVARIANTS
    TypeOK
    WorkAfterChange
    CodesAreUnique
    RoutesExist
CHECK_DEADLOCK FALSE
