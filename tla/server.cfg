CONSTANTS
    MaxRequests = 3
    Faults = {"refuse", "open", "signal", "die", "frame", "orphan"}
SPECIFICATION FairSpec
INVARIANT TypeOK
INVARIANT OneSession
INVARIANT WritesKeepTheirSession
INVARIANT AnswersAreHonest
INVARIANT FirstSessionIsAwaited
PROPERTY EveryCallSettles
PROPERTY OrphanStops
CHECK_DEADLOCK FALSE
