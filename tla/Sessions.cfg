SPECIFICATION Spec
CONSTANTS
    t1 = t1
    t2 = t2
    t3 = t3
    x1 = x1
    x2 = x2
    c1 = c1
    c2 = c2
    None = None
    Tokens <- ThreeTokens
    Resets <- TwoResets
    Calls <- TwoCalls
    Threshold = 2
    MaxAttempts = 2
    MaxBegun = 4
    MaxFaults = 1
INVARIANTS TypeOK OneLive StillSignedIn EndedStaysEnded ResetOnce LockoutHolds NothingDangles
SYMMETRY Alike
