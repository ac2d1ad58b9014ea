SPECIFICATION Spec
CONSTANTS
    None = None
    Files = {1, 2, 3}
    Tokens = {t1}
    TokenTTL = 2
    Wait = 2
    Lookups = {r1, r2}
    CacheTTL = 2
    FetchTime = 1
    MaxAge = 1
SYMMETRY Symmetry
CONSTRAINT TokensOrLookups
INVARIANTS
    TypeOK
    TokensStayVerifiable
    WithdrawnKeysLeave
    PublishedKeysAreFound
