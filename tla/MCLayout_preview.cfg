SPECIFICATION Spec
CONSTANTS
    t1 = t1
    t2 = t2
    t3 = t3
    Table = {t1, t2, t3}
    InitialTables = {t1}
    ZoneOf <- MCZoneOf
    Number = {1, 999}
    PreviewNumber = 999
    Browser = {b1}
    Pointer <- MCPointer
    EditLayout = {}
    EditKind = {}
    MaxOpens = 1
    MaxCalls = 1
    MaxEdits = 0
    MaxWork = 1
    MaxFaults = 0
    None = None
INVARIANT PreviewOpensTheMenu
