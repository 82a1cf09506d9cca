SPECIFICATION FairSpec
CONSTANTS
    r1 = r1
    r2 = r2
    a = a
    b = b
    c = c
    f = f
    tm = tm
    Other = Other
    Rules = {r1, r2}
    Facts = {}
    Timers = {}
    Topics = {a, b}
    Matching <- PlainMatching
    Actions <- CascadeActions
    OnExpire <- NoTimers
    LookupRules = {r1}
    ReentrantRules = {}
    LookupTopic = b
    MaxConcurrency = 1
    MaxForwardDepth = 2
    MaxExternal = 2
    MaxTriggers = 4
PROPERTY EventuallyOver
PROPERTY WaitsReturn
