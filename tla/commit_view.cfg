CONSTANTS
    Files = {f1}
    Merged = f1
    Listings <- SomeListings
    Blank = Blank
    MaxChanges = 2
SPECIFICATION FairSpec
INVARIANT TypeOK
PROPERTY DiscardsAreRechecked
PROPERTY SavesKeepResolutions
PROPERTY EventuallyShown
