\* The tokenizer of the second vault may fail to load.
SPECIFICATION Spec
CONSTANTS
    Clients = {c1, c2}
    m1 = m1
    m2 = m2
    Models = {m1, m2}
    FirstModel = m1
    Unloadable = {m2}
    MaxTokens = 1
    PipeSize = 1
    MaxExits = 1
    NoModel = NoModel
    NoClient = NoClient
INVARIANTS
    OwnTokenizer
