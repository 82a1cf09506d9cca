SPECIFICATION PatternsSpec
CONSTANTS
    NoRule = NoRule
    NoPattern = NoPattern
    NoValue = NoValue
    Rule <- MCPattern
    Pattern <- MCPattern
    FirstPattern <- MCFirstPattern
    Registrable <- MCRegistrable
    InitialRules <- ProcessorPatterns
    ValueOf <- MCValueOf
    Ages = {0}
    grp = grp
    NoGroup = NoGroup
    PatternOf <- MCPatternOf
    Topic <- MCTopic
    Covers <- MCCovers
    Group = {grp}
    Changing <- MCChanging
    MaxEvents = 3
    MaxVisits = 4
    MaxChanges = 1
    MaxTime = 1
INVARIANT InstancesSound
INVARIANT MatchesFit
INVARIANT MatchersEnd
INVARIANT WindowsExact
PROPERTY AbsenceObserved
CHECK_DEADLOCK FALSE
