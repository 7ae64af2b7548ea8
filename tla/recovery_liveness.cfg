SPECIFICATION SequentialSpec
CONSTANTS
    Owner = owner
    Recoverers = {r1}
    NoProc = noProc
    Ticks = {0, 1}
    MaxFaults = 2
PROPERTIES
    ConsistentCrashRecovers
