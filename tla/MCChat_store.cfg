CONSTANTS
    t1 = t1
    t2 = t2
    i1 = i1
    i2 = i2
    i3 = i3
    i4 = i4
    Tabs = {t1, t2}
    Ids = {i1, i2, i3, i4}
    Caps = {1, 2}
    MaxIterations = 0
    Window = 2
    Deletes = TRUE
    None = None
    MaxTurns = 4
SPECIFICATION Spec
CHECK_DEADLOCK FALSE
SYMMETRY MCSymmetry
INVARIANTS
    TypeOK
    ShownTurnsAreStored
PROPERTIES
    NothingResurrected
    PrunesLeastRecent
