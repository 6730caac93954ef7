SPECIFICATION FairSpec
CONSTANTS
    MAX_RETRY = 1
    Starts <- MCStarts
INVARIANTS ShowsPriority StateFollows JigglerAsStored
PROPERTIES FlashEnds BlinkGoesOn
CHECK_DEADLOCK FALSE
