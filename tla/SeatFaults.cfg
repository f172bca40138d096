CONSTANTS
    me = me
    ana = ana
    bea = bea
    cyd = cyd
    Me = me
    Agents <- MCAgents
    Peers <- MCPeers
    Requests <- MCRequests
    Workers <- MCWorkers
    Handlers = {h1, h2}
    Senders = {s1}
    Inbox <- AnyIn
    Outbox <- AnyOut
    Faults = {"wake", "wire", "record", "lock", "close", "die", "evict"}
    MaxRestarts = 1
    LeaseMinutes = {1}
    MaxWait = 1
    ReadFaults = TRUE
    MaxTime = 1
    MaxMinted = 3

SPECIFICATION SeatSpec
SYMMETRY Interchangeable

INVARIANT CloseFollowsMessage
INVARIANT UnhandedIsReported
INVARIANT LeakIsReported
PROPERTY ImplementsRegistry
PROPERTY WorkersAdvance
