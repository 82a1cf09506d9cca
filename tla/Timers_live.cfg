SPECIFICATION FairSpec
CONSTANTS
    n1 = n1
    n2 = n2
    Names = {n1, n2}
    Configs <- LiveConfigs
    MaxCalls = 2
    MaxShots = 6
    MaxCrashes = 2
INVARIANT CrashSafe
INVARIANT LimitKept
PROPERTY EventuallyFires
PROPERTY ManagerAnswers
