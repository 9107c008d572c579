\* Two syncs of mentions, three writes of one database, two accounts.
SPECIFICATION SyncFairSpec
CONSTANTS
    w1 = w1  w2 = w2  w3 = w3  d1 = d1  j1 = j1  j2 = j2  None = None
    Writes <- Three
    Databases = {d1}
    Main = d1
    Jobs <- TwoJobs
    Accounts = {"a", "b"}
    Kinds = {"mentions"}
    Threaded = {"mentions"}
    FirstDefault = "a"
    MaxChanges = 1
CHECK_DEADLOCK FALSE
INVARIANTS SnapshotsAreTrue OneSyncPerAccount
PROPERTIES ImplementsWriteOrder JobsForgotten
