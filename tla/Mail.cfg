SPECIFICATION Spec
CONSTANTS
    m1 = m1
    m2 = m2
    m3 = m3
    c1 = c1
    c2 = c2
    None = None
    Mails <- ThreeMails
    Addressed <- TwoMails
    Calls <- TwoCalls
    BatchSize = 2
    MaxRetries = 2
    MaxFaults = 1
INVARIANTS TypeOK ReadIsCurrent DuplicatesExplained RetriesBounded
PROPERTIES Delivers Settles
CHECK_DEADLOCK FALSE
