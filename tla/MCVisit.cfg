CONSTANTS
    b1 = b1
    Table = {A, B}
    Browser = {b1}
    Tab = {t1, t2}
    BrowserOf <- OneBrowser
    Token = {1, 2, 3, 4}
    Session = {1, 2}
    Order = {1, 2}
    None = None
SPECIFICATION Spec
SYMMETRY Symmetry
INVARIANT TypeOK
INVARIANT OneUsePerQr
INVARIANT ProvedAtItsTable
PROPERTY EndedSessionsAreRefused
PROPERTY SentMeansPlaced
CHECK_DEADLOCK FALSE
