CONSTANTS
    Linked = FALSE
    Commits = 2
    Offsets = {0, 1}
    Limit = 1
    MaxChanges = 1
    MaxScrolls = 1
    MaxReads = 2
    None = None
SPECIFICATION FairSpec
INVARIANT TypeOK
INVARIANT QuietIsCurrent
INVARIANT PageCoversItsEpoch
PROPERTY NeverGoesBack
PROPERTY EventuallyQuiet
CHECK_DEADLOCK FALSE
