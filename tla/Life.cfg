SPECIFICATION FairSpec
CONSTANTS
    o1 = o1
    o2 = o2
    u1 = u1
    u2 = u2
    w1 = w1
    w2 = w2
    None = None
    Orgs <- OneOrg
    Onboarded <- NoOrg
    Users <- OneUser
    Workers <- OneWorker
    Patterns <- EveryPattern
    Slots <- Calendar
    Earliest = 0
    Latest = 4
    Hot = 2
    Lead = 1
    Retention = 2
    Buffer = 1
    Duration = 1
    Lengths <- LengthTwo
    MaxOrgs = 1
    MaxTime = 4
    MaxRules = 1
    MaxCopies = 2
    MaxRequests = 2
    MaxFaults = 1
    MaxItems = 1
PROPERTIES LeadKept OrphansOnlyByRetention
CHECK_DEADLOCK FALSE
