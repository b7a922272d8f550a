CONSTANTS
    Length = 5
    Limit = 2
    Margin = 1
    MaxLanes = 3
SPECIFICATION Spec
INVARIANT TypeOK
INVARIANT LinesApart
PROPERTY PagesAgree
