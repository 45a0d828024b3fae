\* A token step: four experts, six tokens of which the first is exempt from the
\* penalty, a heap of four, histories one longer than the window.
SPECIFICATION Spec
CONSTANTS
    NumExperts = 4
    TopK = 2
    SpecWidth = 2
    RankWidth = 3
    VocabSize = 6
    Capacity = 4
    Window = 3
    MaxHistory = 4
    Exempt = {0}
    MaxScore = 2
    TopPs = {50, 90, 100}
INVARIANTS
    RanksExact
    PenalisedOnce
    HeapKeepsBest
    NucleusExact
