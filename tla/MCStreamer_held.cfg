\* The Prewarm thread beside Main: a claimed slot is evicted while it is read.
SPECIFICATION Spec
CONSTANTS
    l1 = l1
    l2 = l2
    e1 = e1
    e2 = e2
    e3 = e3
    RingSize = 2
    Layers = {l1, l2}
    Experts = {e1}
    Vault <- TwoLayers
    Workers = {w1}
    Main = main
    Prewarmers = {prewarm}
    QueueCapacity = 1
    RefMod = 4
    NoId = NoId
    NoKey = NoKey
    MaxTick = 5
INVARIANTS
    HeldIntact
