SPECIFICATION ClaimSpec
CONSTANTS
    s1 = s1
    s2 = s2
    u1 = u1
    u2 = u2
    url1 = url1
    url2 = url2
    None = None
    Clients = {c1}
    Users = {u1}
    Sessions = {s1}
    Codes = {k1}
    AccessTokens = {a1, a2}
    RefreshTokens = {t1, t2}
    TokenReqs = {r1}
    AuthReqs = {z1}
    Scopes = {offline}
    OfflineAccess = offline
    Redirects = {url1}
    Verifiers = {v1}
    ClientConfigs <- PublicOnly
    SessionUser <- MCSessionUser
CONSTRAINT FollowTheGrant
INVARIANTS
    ReuseRevokesFamily
CHECK_DEADLOCK FALSE
