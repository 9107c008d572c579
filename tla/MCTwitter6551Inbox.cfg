\* Two workers, crashes, failing writes, an edited configuration, a malformed event.
SPECIFICATION InboxFairSpec
CONSTANTS
    w1 = w1  w2 = w2  None = None
    Events = {2, 3}
    Malformed = {2}
    Handle <- TwoHandles
    Configs <- AnnAndBob
    Workers <- TwoWorkers
    PageSize = 1
    MaxTime = 1
    MaxFailures = 1
    MaxCrashes = 1
    MaxHandlers = 1
CHECK_DEADLOCK FALSE
INVARIANTS InboxTypeOK InboxKept
PROPERTIES ReplayCovers PendingDrains
