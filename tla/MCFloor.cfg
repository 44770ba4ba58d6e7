CONSTANTS
    Table = {t1, t2}
    Bill = {b1, b2}
    Order = {o1, o2}
    Session = {s1}
    Request = {r1, r2}
    Kinds = {"order", "adminOrder", "join", "logout", "close", "move", "merge", "split", "status"}
    Alone = {"join", "move", "merge", "split", "status"}
    Amount <- UnitAmount
    MayFail = TRUE
    None = None
SPECIFICATION Spec
SYMMETRY Symmetry
INVARIANT TypeOK
 
INVARIANT OrderAtItsBillsTable
 
PROPERTY SubtotalStaysExact
PROPERTY ImplementsLedger
