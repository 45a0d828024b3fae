\* Two producers and two workers on a queue of two cells, over three laps.
SPECIFICATION Spec
CONSTANTS
    Producers = {p1, p2}
    Consumers = {c1, c2}
    Items = {x, y}
    NoItem = NoItem
    Capacity = 2
    MaxPos = 5
SYMMETRY QueueSymmetry
INVARIANTS
    CellExclusive
PROPERTIES
    FailsHonestly
    ImplementsFifo
