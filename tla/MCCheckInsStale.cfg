CONSTANTS
    r1 = r1
    r2 = r2
    r3 = r3
    r4 = r4
    o1 = o1
    m1 = m1
    e1 = e1
    Requests <- MCRequests
    Callers <- MCRequests
    Occurrences = {o1}
    Members = {m1}
    Events = {e1}
    Church = church
    Groups = {g1}
    EventOf <- MCEventOf
    NoReceipt = NoReceipt
    MaxEdits = 0

SPECIFICATION Spec
SYMMETRY MCSymmetry
CHECK_DEADLOCK FALSE

INVARIANT
    CheckInNeverStale
