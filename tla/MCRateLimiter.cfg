SPECIFICATION LiveSpec
CONSTANTS
    c1 = c1
    c2 = c2
    p1 = p1
    None = None
    Junk = Junk
    Requests = {r1, r2, r3}
    Routes = {"token"}
    Clients = {c1, c2}
    Proxies = {p1}
    ClientIds = {i1}
    Forgeries <- MCForgeries
    Routings <- MCRoutings
    Limit <- MCLimit
    Window = 3
    Second = 2
    MaxDelay = 2
CONSTRAINT FollowOneKey
INVARIANTS
    CountedForItsClient
    RetryAfterSuffices
PROPERTIES
    KeysHaveFixedWindows
    NobodyShutOut
    IdleKeysLeave
