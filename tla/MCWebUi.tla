-------------------------------- MODULE MCWebUi --------------------------------
EXTENDS WebUi

Budget(short, long, request, logout, fail, socket, event) ==
    [short |-> short, long |-> long, request |-> request, logout |-> logout,
     fail |-> fail, socket |-> socket, push |-> event]
\* Presses that meet requests and failures; a list that is walked while it changes.
MCBudgets == {Budget(2, 0, 0, 1, 1, 0, 0), Budget(2, 1, 1, 0, 0, 0, 0), Budget(0, 0, 0, 0, 0, 3, 1),
              Budget(1, 0, 0, 0, 1, 1, 1)}
=============================================================================
