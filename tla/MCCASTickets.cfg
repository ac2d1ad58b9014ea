SPECIFICATION Spec
CONSTANTS
    plain = plain
    cased = cased
    wide = wide
    narrow = narrow
    None = None
    Sessions = {s1}
    Tickets = {t1, t2}
    Issuers = {i1}
    Validations = {v1, v2}
    Services = {c1}
    Patterns = {wide, narrow}
    Urls = {plain, cased}
    Attributes = {username, email}
    Normalize <- MCNormalize
    Covers <- MCCovers
    PatternLength <- MCPatternLength
SYMMETRY Symmetry
INVARIANTS
    TicketAcceptedOnce
    NoLoginAfterLogout
PROPERTY TicketsAreOneTime
