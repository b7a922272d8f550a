CONSTANTS
    p1 = p1
    p2 = p2
    None = None
    Paths = {p1, p2}
SYMMETRY PathSymmetry
SPECIFICATION Spec
INVARIANT TypeOK
INVARIANT DoneIsDone
INVARIANT FailsInOrder
INVARIANT OfferedIsDone
PROPERTY DiscardIsSafe
