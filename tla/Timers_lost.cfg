SPECIFICATION Spec
CONSTANTS
    n1 = n1
    n2 = n2
    Names = {n1, n2}
    Configs <- SafeConfigs
    MaxCalls = 2
    MaxShots = 6
    MaxCrashes = 0
INVARIANT SetTimerKept
