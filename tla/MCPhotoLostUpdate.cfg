CONSTANTS
    Ids = {1, 2, 3}
    Old = 1
    ScanCodes = {"c1", "c2"}
    Nothing = Nothing
    Screens = {"members"}
    MaxETag = 4
    MaxDrafts <- MCMaxDrafts
    MaxLosses = 1
    MaxCalls = 1
SPECIFICATION Spec
CHECK_DEADLOCK FALSE
PROPERTY NeverLosesAnUpdate
