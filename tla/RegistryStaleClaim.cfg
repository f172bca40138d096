CONSTANTS
    ana = ana
    bea = bea
    cyd = cyd
    Agents <- MCAgents
    Requests <- MCRequests
    Workers = {w1, w2}
    Nobody = Nobody
    LeaseMinutes = {1, 2}
    MaxWait = 1
    ReadFaults = FALSE
    MaxTime = 3
    MaxMinted = 3

SPECIFICATION Spec
SYMMETRY Interchangeable

INVARIANT OneClaimPerPeer
