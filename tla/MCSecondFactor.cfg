SPECIFICATION Spec
CONSTANTS
    TOTPs = {t1}
    Keys = {w1}
    CodeSets = {b1, b2}
    BackupCodeCount = 1
    Logins = {l1}
    Challenges = {c1}
    Attempts = {a1, a2}
    Changes = {g1, g2}
    Sessions = {s1, s2, s3}
    ForceMFA = FALSE
    None = None
CONSTRAINT FollowTheCodes
SYMMETRY Symmetry
INVARIANTS
    BackupCodesWorkOnce
    GuardedLoginsAreChallenged
    ClearedMethodsStayOut
PROPERTY BackupCodesAreOneTime
CHECK_DEADLOCK FALSE
