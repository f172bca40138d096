CONSTANTS
    t1 = t1
    t2 = t2
    t3 = t3
    harness = harness
    tool = tool
    x = x
    y = y
    Threads = {t1, t2, t3}
    Processes = {harness, tool}
    Home <- MCHome
    Platforms = {"posix", "windows"}
    Ops <- MCOps
    Contents <- MCContents
    Empty = {}
    Unread <- MCUnread
    Update <- MCUpdate
    Nobody = Nobody
    NoOp = NoOp
    Faults = {"errno", "unlock", "leak", "read", "write"}
    MaxTries = 1
    MaxCalls = 1
    MaxCrashes = 1

SPECIFICATION FairSpec

CHECK_DEADLOCK FALSE

INVARIANT TypeOK
INVARIANT MutualExclusion
INVARIANT SomeCallMoves
PROPERTY CallsAdvance
PROPERTY ImplementsAtomicCalls
PROPERTY EveryCallReturns
