CONSTANTS
    Ids = {1, 2, 3}
    Old = 1
    ScanCodes = {"c1", "c2"}
    Nothing = Nothing
    Screens = {"update"}
    MaxETag = 3
    MaxDrafts <- MCMaxDrafts
    MaxLosses = 0
    MaxCalls = 2
SPECIFICATION Spec
CHECK_DEADLOCK FALSE
PROPERTY UpdateKeepsDetails
