SPECIFICATION Spec
CONSTANTS
    t1 = t1
    t2 = t2
    t3 = t3
    Table = {t1, t2, t3}
    InitialTables = {t1}
    ZoneOf <- MCZoneOf
    Number = {1, 999}
    PreviewNumber = 999
    Browser = {b1, b2}
    Pointer <- MCPointer
    EditLayout = {"ana-kat"}
    EditKind = {"wall"}
    MaxOpens = 2
    MaxCalls = 2
    MaxEdits = 2
    MaxWork = 3
    MaxFaults = 1
    None = None
SYMMETRY MCSymmetry
INVARIANTS
    TypeOK
    
    ReloadShowsSaved
    NumbersAreUnique
