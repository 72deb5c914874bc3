SPECIFICATION FairPageSpec
CONSTANTS
    Conversation = {a, b}
    Initial = {a}
    NoConversation = NoConversation
    Task = {t1, t2, t3}
    NoTask = NoTask
    MaxTurns = 2
INVARIANTS
    SentWhereTyped
    TurnIsStoppable
PROPERTIES
    BusyEnds
CHECK_DEADLOCK FALSE
