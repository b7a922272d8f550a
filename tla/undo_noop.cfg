CONSTANTS
    m = m
    b = b
    s1 = s1
    s2 = s2
    t1 = t1
    x1 = x1
    None = None
    Torn = Torn
    Branches = {m}
    Shas = {s1, s2}
    Trees = {t1}
    Stashes = {}
    MaxTx = 2
    Commands = {"commit"}
    Faults = {}
SPECIFICATION Spec
PROPERTY NoopPopsOne
