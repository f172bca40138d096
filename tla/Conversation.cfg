CONSTANTS
    ana = ana
    bea = bea
    a1 = a1
    a2 = a2
    b1 = b1
    ba = ba
    None = None
    Agents <- MCAgents
    ChatsOf <- MCChatsOf
    MeshChat <- MCMeshChat
    Telegram <- MCTelegram
    Known <- MCKnown
    Sessions = {"chat", "review"}
    Worlds <- MCWorlds

SPECIFICATION Spec
CHECK_DEADLOCK FALSE

INVARIANT TypeOK
INVARIANT DoorKept
INVARIANT RefusedIsUnsettled
INVARIANT ClosesAgree
