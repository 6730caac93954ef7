CONSTANTS
    k = k  x = x  m = m  v = v  NoKey = NoKey  NoCode = NoCode
    password = password  code = code  empty = empty
    Keys = {k, x}
    ModKeys = {m}
    Codes = {v}
    EmptyText = empty
    Taps <- MCTaps
    HOTKEY_SLOTS_MAX = 1
    TYPE_QUEUE_LEN = 1
    SlotValues <- MCSlotValues
    JigConfigs <- MCJigConfigs
    OutCombos <- PlainX
    Injected <- PressX
    InitSlots <- KeepOnly
    InitJig <- JigToggle
    Mirrored = FALSE
    MaxEvents = 4
    MaxEdits = 0
    MaxInject = 1
    MaxLoss = 1
SPECIFICATION Spec
INVARIANTS NoStuckKeys AtMostOneIntrusion
CHECK_DEADLOCK FALSE
