CONSTANTS
    Ids = {1, 2, 3}
    Old = 1
    ScanCodes = {"c1", "c2"}
    Nothing = Nothing
    Screens = {"groups", "fields", "users", "churches", "events", "sessions", "members",
               "duplicates", "register", "update"}
    MaxETag = 3
    MaxDrafts <- MCMaxDrafts
    MaxLosses = 1
    MaxCalls = 2
SPECIFICATION Spec
CHECK_DEADLOCK FALSE
INVARIANTS TypeOK CreatedOnce
PROPERTIES NoLostUpdate ReloadFrees CodeReplacedOnPurpose MarkedAsStored
