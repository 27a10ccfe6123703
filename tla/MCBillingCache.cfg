CONSTANTS
    s1 = s1
    s2 = s2
    u1 = u1
    u2 = u2
    c1 = c1
    c2 = c2
    c3 = c3
    b1 = b1
    b2 = b2
    Slot <- MCSlot
    User <- MCOneUser
    Customer <- MCOneCustomer
    Sub <- MCOneSub
    Snapshot <- MCThreeSnapshots
    PricePlan <- MCPricePlan
    CacheLimit = 1
    MaxVersions = 2
    NoPlan = NoPlan
    Nobody = Nobody
    NoCustomer = NoCustomer
    NoSub = NoSub
    NoEvent = NoEvent
SPECIFICATION FairSpec
INVARIANT PlanMatchesSubscription
PROPERTIES
    CacheCatchesUp
