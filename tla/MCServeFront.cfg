\* Requests for two vaults, hang-ups, one exit of the engine, a tokenizer
\* that may fail to load.
SPECIFICATION FairSpec
CONSTANTS
    Clients = {c1, c2}
    m1 = m1
    m2 = m2
    Models = {m1, m2}
    FirstModel = m1
    Unloadable = {m2}
    MaxTokens = 2
    PipeSize = 2
    MaxExits = 1
    NoModel = NoModel
    NoClient = NoClient
INVARIANTS
    OwnAnswer
    RightModel
PROPERTIES
    Answered
