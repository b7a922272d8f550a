CONSTANTS
    m = m
    b = b
    s1 = s1
    s2 = s2
    t1 = t1
    x1 = x1
    None = None
    Torn = Torn
    Branches = {m}
    Shas = {s1}
    Trees = {t1}
    Stashes = {x1}
    MaxTx = 2
    Commands = {"commit", "stash"}
    Faults = {"crash", "tail", "external", "git", "io", "conflict"}
SPECIFICATION Spec
INVARIANT TypeOK
INVARIANT JournaledSnapshots
INVARIANT FreshIds
INVARIANT RestoreIsMarked
