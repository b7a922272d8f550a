CONSTANTS
    e1 = e1
    e2 = e2
    e3 = e3
    e4 = e4
    Edits = {e1, e2, e3, e4}
    Untracked = {e1}
    Staged = {e2}
    Sticky = {e4}
    MaxStash = 3
    Faults = {}
SPECIFICATION Spec
PROPERTY PopsOwnEntry
