\* Two workers, a bridge that comes and goes, manual runs, a start that fails.
SPECIFICATION FairSpec
CONSTANTS
    w1 = w1  w2 = w2  None = None
    Workers <- TwoWorkers
    Scopes = {"one", "two"}
    Interval = 1
    MaxTime = 2
    MaxManual = 1
    MaxFailures = 1
CHECK_DEADLOCK FALSE
INVARIANTS TypeOK OneLiveChain
PROPERTIES StoppedIsQuiet DueTimeKept FollowsBridge
