\* One caller thread (no Prewarm): every safety property.
SPECIFICATION Spec
CONSTANTS
    l1 = l1
    l2 = l2
    e1 = e1
    e2 = e2
    e3 = e3
    RingSize = 2
    Layers = {l1}
    Experts = {e1, e2, e3}
    Vault <- TwoOfThree
    Workers = {w1, w2}
    Main = main
    Prewarmers = {}
    QueueCapacity = 1
    RefMod = 4
    NoId = NoId
    NoKey = NoKey
    MaxTick = 5
SYMMETRY WorkerSymmetry
INVARIANTS
    DataMatchesKey
    HeldIntact
    RefCountExact
    ClaimMissIsAMiss
PROPERTIES
    EvictsLeastRecent
    ImplementsCache
