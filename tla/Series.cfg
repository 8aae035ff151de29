SPECIFICATION Spec
CONSTANTS
    o1 = o1
    o2 = o2
    u1 = u1
    u2 = u2
    w1 = w1
    w2 = w2
    None = None
    Orgs <- OneOrg
    Onboarded <- OneOrg
    Users <- TwoUsers
    Workers <- OneWorker
    Patterns <- SomePatterns
    Slots <- Calendar
    Earliest = 0
    Latest = 1
    Hot = 2
    Lead = 1
    Retention = 0
    Buffer = 1
    Duration = 0
    Lengths <- LengthOne
    MaxOrgs = 1
    MaxTime = 3
    MaxRules = 2
    MaxCopies = 2
    MaxRequests = 3
    MaxFaults = 0
    MaxItems = 0
SYMMETRY Symmetry
INVARIANTS TypeOK NoDuplicates NothingLeftBehind RowsMatchRules
PROPERTIES NoRowLost
CHECK_DEADLOCK FALSE
