CONSTANTS
    c1 = c1  c2 = c2
    Channels = {c1, c2}
    QUEUE_LEN = 2
    CTAPHID_BUF_LEN = 3
    Lengths = {1, 2, 3, 4}
    MaxMessages <- MCMessages
SPECIFICATION FairSpec
INVARIANTS OneSender WholeUnlessLost
PROPERTIES InOrderOnce EveryMessageSettles
CHECK_DEADLOCK FALSE
