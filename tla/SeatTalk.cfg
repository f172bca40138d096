CONSTANTS
    me = me
    ana = ana
    bea = bea
    cyd = cyd
    Me = me
    Agents <- MCAgents
    Peers <- MCPeers
    Requests <- MCRequests
    Workers <- MCWorkers
    Handlers = {h1, h2}
    Senders = {s1}
    Inbox <- TalkIn
    Outbox <- TalkOut
    Faults = {"wake", "wire"}
    MaxRestarts = 0
    LeaseMinutes = {1}
    MaxWait = 0
    ReadFaults = FALSE
    MaxTime = 1
    MaxMinted = 4

SPECIFICATION FairSeat

INVARIANT SeatTypeOK
INVARIANT SeenIsHanded
INVARIANT AcceptedEndIsClosed
INVARIANT NoLeakedLease
INVARIANT OnlySelfIsBusy
INVARIANT AcceptedStaysSeen
PROPERTY GiveUpSparesOthers
PROPERTY PostsAnswered
