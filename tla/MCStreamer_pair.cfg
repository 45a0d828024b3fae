\* The Prewarm thread prefetches beside Main on a ring of one slot: ownership
\* of loads, the order of shutdown, and liveness under FairSpec.
SPECIFICATION FairSpec
CONSTANTS
    l1 = l1
    l2 = l2
    e1 = e1
    e2 = e2
    e3 = e3
    RingSize = 1
    Layers = {l1, l2}
    Experts = {e1}
    Vault <- OneOfTwo
    Workers = {w1}
    Main = main
    Prewarmers = {prewarm}
    QueueCapacity = 1
    RefMod = 4
    NoId = NoId
    NoKey = NoKey
    MaxTick = 4
INVARIANTS
    ExclusiveLoad
    NoUseAfterFree
PROPERTIES
    LoadsResolve
    ShutdownCompletes
