CONSTANTS
    t1 = t1
    t2 = t2
    i1 = i1
    i2 = i2
    i3 = i3
    i4 = i4
    Tabs = {t1, t2}
    Ids = {i1, i2, i3}
    Caps = {1}
    MaxIterations = 2
    Window = 2
    Deletes = FALSE
    None = None
    MaxTurns = 3
SPECIFICATION FairSpec
CHECK_DEADLOCK FALSE
INVARIANTS
    OnlyLatestResultsAreFull
    MessagesAlternate
PROPERTIES
    ChatsEnd
