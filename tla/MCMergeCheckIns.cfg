CONSTANTS
    r1 = r1
    r2 = r2
    o1 = o1
    o2 = o2
    k = k
    l = l
    e1 = e1
    x1 = x1
    x2 = x2
    earlier = earlier
    Requests = {r1, r2}
    Merges = {x1}
    Callers <- MCCallers
    Occurrences = {o1, o2}
    Members = {k, l}
    Events = {e1}
    Church = church
    Groups = {}
    Codes = {}
    Updates <- MCUpdates
    EventOf <- MCEventOf
    NoReceipt = NoReceipt
    None = None
    MaxEdits = 0

SPECIFICATION MergeSpec
SYMMETRY MCSymmetry
CHECK_DEADLOCK FALSE

INVARIANT
    MergedLoserEmptied

PROPERTY
    TransferKeepsRecord HistoriesGoOn
