SPECIFICATION Spec
CONSTANTS
    s1 = s1
    s2 = s2
    u1 = u1
    u2 = u2
    url1 = url1
    url2 = url2
    None = None
    Clients = {c1}
    Users = {u1}
    Sessions = {s1}
    Codes = {k1}
    AccessTokens = {a1, a2, a3}
    RefreshTokens = {t1, t2, t3}
    TokenReqs = {r1, r2}
    AuthReqs = {z1}
    Scopes = {offline}
    OfflineAccess = offline
    Redirects = {url1}
    Verifiers = {v1}
    ClientConfigs <- PublicOnly
    SessionUser <- MCSessionUser
CONSTRAINT FollowTheGrant
SYMMETRY Interchangeable
INVARIANTS
    TypeOK
    OneHolderPerGrant
    RedeemedOnce
PROPERTIES
    RevokedIsFinal
    GrantIsHandedOver
CHECK_DEADLOCK FALSE
