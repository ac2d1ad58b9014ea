SPECIFICATION Spec
CONSTANTS
    s1 = s1
    s2 = s2
    u1 = u1
    u2 = u2
    url1 = url1
    url2 = url2
    None = None
    Clients = {c1, c2}
    Users = {u1, u2}
    Sessions = {s1, s2}
    Codes = {k1}
    AccessTokens = {a1, a2}
    RefreshTokens = {t1, t2}
    TokenReqs = {r1}
    AuthReqs = {z1}
    Scopes = {offline, email}
    OfflineAccess = offline
    Redirects = {url1, url2}
    Verifiers = {v1}
    ClientConfigs <- Edits
    SessionUser <- MCSessionUser
CONSTRAINT FollowTheOwners
SYMMETRY Interchangeable
INVARIANTS
    BoundToGrant
    PKCEEnforced
CHECK_DEADLOCK FALSE
