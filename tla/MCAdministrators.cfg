SPECIFICATION Spec
CONSTANTS
    None = None
    Users = {u1, u2, u3}
    Calls = {c1, c2}
    Asked <- MCAsked
CONSTRAINT NobodyOvertaken
SYMMETRY Symmetry
INVARIANTS
    TypeOK
    AdministratorsRemain
CHECK_DEADLOCK FALSE
