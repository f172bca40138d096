CONSTANTS
    me = me
    ana = ana
    bea = bea
    cyd = cyd
    Me = me
    Agents <- MCAgents
    Peers <- MCPeers
    Requests <- MCRequests
    Workers <- MCWorkers
    Handlers = {h1, h2}
    Senders = {s1}
    Inbox <- OneQuestion
    Outbox <- QuestionOut
    Faults = {"wake"}
    MaxRestarts = 0
    LeaseMinutes = {1}
    MaxWait = 0
    ReadFaults = FALSE
    MaxTime = 1
    MaxMinted = 3

SPECIFICATION SeatSpec

INVARIANT DuplicateMeansHanded
