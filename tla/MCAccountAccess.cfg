SPECIFICATION Spec
CONSTANTS
    Logins = {l1, l2}
    Changes = {h1, h2}
    Links = {k1}
    Sessions = {s1, s2}
    MaxFailedAttempts = 2
    VersionBound = 2
    CountBound = 3
    LostBound = 1
    None = None
CONSTRAINT OneStory
SYMMETRY Symmetry
INVARIANTS
    TypeOK
    GuessBudget
    ChangeEndsOldSessions
    DisabledAccountsStayOut
