\* Four experts on a ring of three, one of its slots kept as headroom.
SPECIFICATION FairSpec
CONSTANTS
    Experts = 4
    RingSize = 3
    MinMargin = 1
    QueueCapacity = 3
    MaxUses = 2
    MaxRequests = 1
    MaxBoots = 2
INVARIANTS
    AtMostOneLate
    OrderCurrent
PROPERTIES
    HottestWarmed
    HeadroomKept
    HistorySurvives
    WarmsWhenIdle
CHECK_DEADLOCK FALSE
