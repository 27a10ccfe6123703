CONSTANTS
    s1 = s1
    s2 = s2
    u1 = u1
    w1 = w1
    w2 = w2
    id1 = id1
    id2 = id2
    id3 = id3
    t1 = t1
    t2 = t2
    Slot <- MCSlot
    User <- MCUser
    Password <- MCPassword
    NoPassword = NoPassword
    ResetId <- MCResetId
    Jwt <- MCJwt
    Nobody = Nobody
SYMMETRY Symmetry
SPECIFICATION Spec
INVARIANT SessionsInvalidated
CHECK_DEADLOCK FALSE
