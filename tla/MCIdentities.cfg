SPECIFICATION Spec
CONSTANTS
    Users = {u1, u2}
    Emails = {e1, e2}
    Subs = {p1, p2}
    Links = {k1, k2}
    Flows = {f1, f2}
    Verifications = {v1}
    Unlinks = {n1}
    None = None
CONSTRAINT FollowOneStory
SYMMETRY Symmetry
INVARIANTS
    TypeOK
    OneUserPerEmail
    OneHomePerAccount
    LinksAreEarned
    VerifiedAddressWasChecked
    UsersKeepAWayIn
CHECK_DEADLOCK FALSE
