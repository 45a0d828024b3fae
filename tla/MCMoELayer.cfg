\* Decode and prefill layers one after another on a ring smaller than a
\* prefill union and than a decode ranking.
SPECIFICATION FairSpec
CONSTANTS
    Experts = {x1, x2, x3}
    RingSize = 2
    TopK = 2
    SpecWidth = 1
    Batch = 2
    SpinPeriod = 2
    NoExpert = NoExpert
INVARIANTS
    GpuReadsIntact
    LayerExact
PROPERTIES
    UnionKept
    LayerEnds
    UsesCache
