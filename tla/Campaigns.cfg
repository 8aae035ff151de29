SPECIFICATION Spec
CONSTANTS
    f1 = f1
    u1 = u1
    u2 = u2
    k1 = k1
    p1 = p1
    p2 = p2
    p3 = p3
    c1 = c1
    c2 = c2
    None = None
    Funds <- OneFund
    Users <- TwoUsers
    CampaignIds <- OneCampaign
    PledgeIds <- ThreePledges
    Amounts = {1, 2}
    MaxInt = 3
    MaxTime = 2
    Calls <- TwoCalls
INVARIANTS TypeOK RaisedIsPledged WindowInOrder NothingDangles
SYMMETRY Alike
