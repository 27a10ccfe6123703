CONSTANTS
    s1 = s1
    s2 = s2
    s3 = s3
    Slot <- MCTwoSlots
    Key <- MCTwoKeys
    Limit <- MCTwoLimits
    LastMonth = 2
    MaxRetries = 2
    RowId <- MCRowId
    NoRow = NoRow
SPECIFICATION Spec
INVARIANTS
    QuotaEnforced
