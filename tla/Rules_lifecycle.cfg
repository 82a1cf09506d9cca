SPECIFICATION Spec
CONSTANTS
    r1 = r1
    r2 = r2
    a = a
    b = b
    g = g
    NoGroup = NoGroup
    NoRule = NoRule
    Ids = {r1, r2}
    Triggers = {a, b}
    Groups = {g}
    MaxVersionsPerRule = 2
    MaxOps = 3
    MaxCrashes = 1
SYMMETRY Symmetric
CHECK_DEADLOCK FALSE
INVARIANT IndexComplete
INVARIANT VersionsDistinct
INVARIANT SaveScheduled
INVARIANT FlushedUnlessDirty
INVARIANT StopKeepsRules
INVARIANT HistorySound
