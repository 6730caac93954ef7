CONSTANTS
    rp = rp  alice = alice  bob = bob  p1 = p1  p2 = p2
    RPs = {rp}
    Users = {alice, bob}
    Pins = {p1, p2}
    Confirmers = {"button", "keyboard"}
    FIDO2_RK_MAX = 2
    PIN_RETRIES_MAX = 2
    MaxCommands = 3
    MaxWeb = 1
    MaxPresses = 3
SPECIFICATION Spec
SYMMETRY Symmetry
INVARIANTS OneKeyPerAccount ApprovalsArePresses BlockedAfterRetries TokenIsCurrent
PROPERTIES CountersIncrease
CHECK_DEADLOCK FALSE
