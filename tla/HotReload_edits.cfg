SPECIFICATION FairSpec
CONSTANTS
    i1 = i1
    i2 = i2
    n1 = n1
    n2 = n2
    b1 = b1
    b2 = b2
    bad = bad
    g = g
    Ids = {i1, i2}
    Names = {n1, n2}
    Bodies = {b1, b2, bad}
    InvalidBodies = {bad}
    Groups = {g}
    NoGroup = NoGroup
    NoRule = NoRule
    Inputs <- AllInputs
    NSources = 1
    MaxChanges = 1
PROPERTY EventuallyApplied
CHECK_DEADLOCK FALSE
