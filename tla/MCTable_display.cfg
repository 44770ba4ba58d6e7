CONSTANTS
    Request = {r1}
    Conn = {c1, c2}
    MaxTokens = 2
    MaxFaults = 1
    None = None
SPECIFICATION FairSpec
INVARIANT TypeOK
INVARIANT OnlineIsServed
PROPERTY DisplayReconnects
CHECK_DEADLOCK FALSE
