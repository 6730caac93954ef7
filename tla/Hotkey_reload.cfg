CONSTANTS
    k = k  x = x  m = m  v = v  NoKey = NoKey  NoCode = NoCode
    password = password  code = code  empty = empty
    Keys = {k, x}
    ModKeys = {m}
    Codes = {v}
    EmptyText = empty
    Taps <- MCTaps
    HOTKEY_SLOTS_MAX = 2
    TYPE_QUEUE_LEN = 1
    SlotValues <- KeepOrAny
    JigConfigs <- MCJigConfigs
    OutCombos <- PlainX
    Injected <- PressX
    InitSlots <- KeepThenAny
    InitJig <- JigOff
    Mirrored = TRUE
    MaxEvents = 2
    MaxEdits = 1
    MaxInject = 0
    MaxLoss = 1
SPECIFICATION FairSpec
INVARIANTS TypeOK MirroredPressFiresOnce
PROPERTIES DecidesByStorage TypingEnds
CHECK_DEADLOCK FALSE
