CONSTANTS
    ana = ana
    bea = bea
    cyd = cyd
    Agents <- MCAgents
    Requests <- MCRequests
    Workers = {w1, w2}
    Nobody = Nobody
    LeaseMinutes = {0, 2}
    MaxWait = 0
    ReadFaults = FALSE
    MaxTime = 3
    MaxMinted = 3

SPECIFICATION Spec
SYMMETRY Interchangeable

INVARIANT OneClaimPerPeer
PROPERTY ImplementsBoard
