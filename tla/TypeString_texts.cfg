SPECIFICATION Spec
CONSTANTS
    Texts <- MCTexts
    Layouts = {"us", "foreign"}
    Transports = {"usb", "ble"}
    MaxTexts = 2
    MaxLoss = 1
INVARIANTS TypeOK TypedAsStored LeftClean
CHECK_DEADLOCK FALSE
