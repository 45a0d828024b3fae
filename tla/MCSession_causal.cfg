\* A prefill chunk that wraps the ring attends to its own future.
SPECIFICATION FairSpec
CONSTANTS
    a = a
    e = e
    Tokens = {a, e}
    Eos = {e}
    FirstToken = a
    AttnCtx = 3
    StreamCap = 6
    SuffixCap = 3
    Chunk = 2
    MaxBudget = 2
INVARIANTS
    CausalAttention
