CONSTANTS
    s1 = s1
    s2 = s2
    u1 = u1
    c1 = c1
    c2 = c2
    id1 = id1
    id2 = id2
    id3 = id3
    Slot <- MCSlot
    User <- MCUser
    Code <- MCCode
    MaxAttempts <- MCMaxAttempts
    OtpId <- MCOtpId
    NoOtp = NoOtp
    NoRequest = NoRequest
    NoCode = NoCode
SYMMETRY Symmetry
SPECIFICATION Spec
INVARIANTS
    GuessesBounded
    RowsBounded
    RightRowUpdated
PROPERTIES
    VerifiedOnlyByProof
CHECK_DEADLOCK FALSE
