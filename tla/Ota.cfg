SPECIFICATION FairSpec
CONSTANTS
    old = old  good = good  bad = bad
    Firmwares = {old, good, bad}
    Installed = old
    Bad = {bad}
    BLOCKS = 2
    Fetchers = {t1, t2}
    MaxUpdates = 2
    MaxFaults = 2
INVARIANTS BootsWhole TrustedHasRun
PROPERTIES EraseOnlyWithUpdate ComesUp
CHECK_DEADLOCK FALSE
