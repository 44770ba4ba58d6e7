CONSTANTS
    Request = {r1, r2}
    Conn = {c1, c2}
    MaxTokens = 4
    MaxFaults = 0
    None = None
SPECIFICATION Spec
SYMMETRY Symmetry
INVARIANT NewestIsNotWithdrawn
PROPERTY ProofUsedOnce
CHECK_DEADLOCK FALSE
