CONSTANTS
    Requests = {r1, r2, r3}
    Church = church
    Groups = {g1, g2, g3}
    Members = {m1}
    Receipts = {a1}
    None = None
    NoDocument = NoDocument
    Passes = 1

SPECIFICATION Spec
SYMMETRY MCSymmetry
CHECK_DEADLOCK FALSE

INVARIANTS
    TypeOK
    TwoLevels
    LateChangeRefused
    SubgroupsArchivedFirst
    PurgedCompletely

PROPERTIES
    NeverReactivated
