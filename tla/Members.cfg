SPECIFICATION Spec
CONSTANTS
    u1 = u1
    u2 = u2
    r1 = r1
    r2 = r2
    r3 = r3
    c1 = c1
    c2 = c2
    None = None
    Users <- TwoUsers
    Ids <- ThreeIds
    Calls <- TwoCalls
INVARIANTS TypeOK NothingDangles ApprovedJoined AdmittedOnRecord
PROPERTIES DecidedOnce
SYMMETRY Alike
