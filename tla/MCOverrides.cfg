CONSTANTS
    r1 = r1
    r2 = r2
    timer = timer
    Requests = {r1, r2}
    Timer = timer
    Church = church
    Events = {1}
    Schedule <- OneStart
    Recurring = {}
    Broken = {}
    Duration = 1
    Past = 1
    Ahead = 2
    Windows <- TwoWindows
    Longest = 2
    Groups = {}
    None = None
    NoDocument = NoDocument
    MaxTime = 2
    MaxFailures = 0

SPECIFICATION Safety
CHECK_DEADLOCK FALSE
SYMMETRY Symmetry

INVARIANTS
    ArchivedAreOver

PROPERTIES
    RetriesOverwriteNothing
    StartedNotMoved
