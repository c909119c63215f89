CONSTANTS
    r1 = r1
    r2 = r2
    timer = timer
    Requests = {r1}
    Timer = timer
    Church = church
    Events = {1, 2}
    Schedule <- MCSchedule
    Recurring = {2}
    Broken = {1}
    Duration = 1
    Past = 1
    Ahead = 3
    Windows <- MCWindows
    Longest = 2
    Groups = {g1}
    None = None
    NoDocument = NoDocument
    MaxTime = 2
    MaxFailures = 1

SPECIFICATION Spec
CHECK_DEADLOCK FALSE

PROPERTIES
    LateGenerationRefused
    GeneratedInOrder
    CaughtUp
