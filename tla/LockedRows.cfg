CONSTANTS
    t1 = t1
    t2 = t2
    harness = harness
    tool = tool
    ana = ana
    bea = bea
    cyd = cyd
    Threads = {t1, t2}
    Processes = {harness, tool}
    Home <- MCHome
    Platforms = {"posix"}
    Asks <- MCAsks
    Drops <- MCDrops
    Ops <- MCOps
    Contents <- MCContents
    Empty <- MCEmpty
    Unread <- MCUnread
    Update <- MCUpdate
    Nobody = Nobody
    NoOp = NoOp
    Faults = {"read", "leak"}
    MaxTries = 0
    MaxCalls = 2
    MaxCrashes = 1
    Agents <- MCAgents
    LeaseMinutes = {1}
    MaxWait = 1
    MaxTime = 1
    MaxMinted = 2

SPECIFICATION LockedSpec

CHECK_DEADLOCK FALSE

PROPERTY ImplementsOpenThreads
