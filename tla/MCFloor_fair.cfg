CONSTANTS
    Table = {t1, t2}
    Bill = {b1, b2}
    Order = {o1}
    Session = {s1}
    Request = {r1, r2}
    Kinds = {"adminOrder", "join", "close", "move", "merge"}
    Alone = {}
    Amount <- UnitAmount
    MayFail = FALSE
    None = None
SPECIFICATION FairSpec
INVARIANT OneOpenBillPerTable
PROPERTY ClosedIsFinal
PROPERTY EveryRequestEnds
