\* Any requests on a ring of three rows: what the ring holds, and progress.
SPECIFICATION FairSpec
CONSTANTS
    a = a
    e = e
    Tokens = {a, e}
    Eos = {e}
    FirstToken = a
    AttnCtx = 3
    StreamCap = 6
    SuffixCap = 3
    Chunk = 2
    MaxBudget = 2
INVARIANTS
    KvHoldsStream
    CausalBeforeWrap
    HistoryIsPrefix
    BudgetSpent
PROPERTIES
    RequestEnds
