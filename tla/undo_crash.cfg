CONSTANTS
    m = m
    b = b
    s1 = s1
    s2 = s2
    t1 = t1
    x1 = x1
    None = None
    Torn = Torn
    Branches = {m, b}
    Shas = {s1, s2}
    Trees = {t1}
    Stashes = {x1}
    MaxTx = 2
    Commands = {"stage", "commit", "create", "delete", "switch", "pull", "push", "stash"}
    Faults = {"crash", "tail", "conflict"}
SPECIFICATION FairSpec
INVARIANT RestoredIsPreState
PROPERTY OnlyAskedIsUndone
PROPERTY MarkedUndoEnds
PROPERTY ImplementsUndoStack
