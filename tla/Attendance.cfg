SPECIFICATION Spec
CONSTANTS
    u1 = u1
    u2 = u2
    v1 = v1
    v2 = v2
    i1 = i1
    i2 = i2
    i3 = i3
    c1 = c1
    c2 = c2
    c3 = c3
    None = None
    Users <- OneUser
    Invitations <- OneInvitation
    RowIds <- ThreeRows
    Calls <- TwoCalls
INVARIANTS TypeOK OneRow OutAfterIn AcceptedAttends
PROPERTIES NothingUndone
SYMMETRY Alike
