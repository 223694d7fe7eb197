SPECIFICATION RunnerSpec
CONSTANTS
    Timeout = 2
    Paths = {"a", "b", "deep"}
    TooDeep = {"deep"}
    MaxFiles = 2
    MaxFileBytes = 2
    MaxTotalBytes = 3
INVARIANTS
    ReturnedMeansStopped
    QuarantineIsBounded
    KeepAliveOutlastsCollection
PROPERTIES
    DetachedContainerEnds
CHECK_DEADLOCK FALSE
