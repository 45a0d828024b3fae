\* Shatter, of a checkpoint or a part of it, upgrade and recovery in any order,
\* each killed anywhere, with power failures.
SPECIFICATION Spec
CONSTANTS
    Page = 512
    BlobPages = 2
    Counts = {1, 2, 6}
INVARIANTS
    OpenedIsWhole
    UpgradeCrashSafe
    BlockInGap
    RecoveredExactly
