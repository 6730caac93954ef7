SPECIFICATION GattFairSpec
CONSTANTS
    Layouts <- MCLayouts
    PAIRS = 5
    MAX_REPORTS = 8
    MAX_POLL_HANDLES = 2
    MAX_PROCS = 4
    Budgets <- MCBudgets
INVARIANTS GattTypeOK NoneForgotten UndisturbedListens KeyUpHeard
PROPERTIES Discovers
CHECK_DEADLOCK FALSE
