SPECIFICATION Spec
CONSTANTS
    r1 = r1
    r2 = r2
    a = a
    b = b
    c = c
    f = f
    tm = tm
    Other = Other
    Rules = {r1, r2}
    Facts = {f}
    Timers = {tm}
    Topics = {a, b, c}
    Matching <- CascadeMatching
    Actions <- CascadeActions
    OnExpire <- CascadeExpire
    LookupRules = {r1}
    ReentrantRules = {r1}
    LookupTopic = b
    MaxConcurrency = 1
    MaxForwardDepth = 2
    MaxExternal = 2
    MaxTriggers = 6
INVARIANT DepthIsActing
INVARIANT ChunkBarrier
INVARIANT NestingBounded
INVARIANT StopDrainsQueue
PROPERTY ReloadBetweenLinks
PROPERTY NothingBeginsStopped
PROPERTY RefinesCascade
CHECK_DEADLOCK FALSE
