\* Two syncs side by side with the documented options, an item that comes back, a failure or a crash.
SPECIFICATION Spec
CONSTANTS
    s1 = s1  s2 = s2  i1 = i1  i2 = i2  i3 = i3  None = None
    Syncs <- TwoSyncs
    Items <- ThreeItems
    Options <- JobAndCapped
    PageSize = 1
    DefaultCap = 2
    Window = 2
    Ttl = 0
    MaxTop = 3
    MaxTime = 1
    MaxFailures = 1
    MaxRemovals = 1
SYMMETRY Interchangeable
CHECK_DEADLOCK FALSE
INVARIANTS EarlyStopIsSound CacheIsStored
