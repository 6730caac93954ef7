SPECIFICATION FairSpec
CONSTANTS
    a = a  b = b  NoPeer = NoPeer
    Peers <- MCPeers
    ATTEMPTS = 3
    MaxCalls = 3
    MaxDrops = 2
    MaxRestarts = 1
INVARIANTS ConnectedTracksLink NeverStranded
PROPERTIES Reconnects
CHECK_DEADLOCK FALSE
