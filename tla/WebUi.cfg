SPECIFICATION FairSpec
CONSTANTS
    Fds = {f1, f2, f3}
    NoFd = none
    WS_MAX_CLIENTS = 2
    Stoppers = {s1, s2}
    Budgets <- MCBudgets
INVARIANTS Supervised LightsFollow FreedOnce ListExact
PROPERTIES IdleCloses
CHECK_DEADLOCK FALSE
