CONSTANTS
    e1 = e1
    e2 = e2
    Emails = {e1, e2}
    Admin = Admin
    Nobody = Nobody
    MaxEdits <- MCMaxEdits
    MaxLosses = 1
SPECIFICATION Spec
CHECK_DEADLOCK FALSE
PROPERTY EveryInviteIsClaimed
