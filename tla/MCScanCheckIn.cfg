CONSTANTS
    c1 = c1
    c2 = c2
    m1 = m1
    Codes = {c1, c2}
    Members = {m1}
    None = None
    Cards <- MCCards
    MaxCalls = 3
    MaxTurns = 2
    MaxChanges = 1

SPECIFICATION Spec
CHECK_DEADLOCK FALSE

INVARIANTS
    LatchHeldByCurrent
    ResultOfLastScan
    CarriedOutNotForgotten

PROPERTIES
    NoScanWhilePending
    LatchReleased
