CONSTANTS
    Branches = {b1, b2}
    Commits = {c1, c2}
    None = None
    ForceModes = {"lease", "force"}
SPECIFICATION FairSpec
INVARIANT TypeOK
INVARIANT OneFlow
PROPERTY LeaseKeepsUnseen
PROPERTY OverwritesAreAgreed
PROPERTY EndsOrAsks
