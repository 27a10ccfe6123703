CONSTANTS
    s1 = s1
    s2 = s2
    s3 = s3
    Slot <- MCThreeSlots
    Key <- MCOneKey
    Limit <- MCOneLimit
    LastMonth = 1
    MaxRetries = 1
    RowId <- MCRowId
    NoRow = NoRow
SPECIFICATION Spec
INVARIANTS
    CountersBounded
    CounterExactUntilRefund
PROPERTIES
    LedgerSpec
