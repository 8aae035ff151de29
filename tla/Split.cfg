SPECIFICATION Spec
CONSTANTS
    o1 = o1
    o2 = o2
    u1 = u1
    u2 = u2
    w1 = w1
    w2 = w2
    None = None
    Orgs <- OneOrg
    Onboarded <- OneOrg
    Users <- OneUser
    Workers <- OneWorker
    Patterns <- ForeverOnly
    Slots <- Calendar
    Earliest = 0
    Latest = 1
    Hot = 2
    Lead = 1
    Retention = 0
    Buffer = 1
    Duration = 0
    Lengths <- NoLength
    MaxOrgs = 1
    MaxTime = 3
    MaxRules = 2
    MaxCopies = 2
    MaxRequests = 2
    MaxFaults = 0
    MaxItems = 0
INVARIANTS SplitsShareSeries
CHECK_DEADLOCK FALSE
