\* A sync and an update on one machine, a sync on the other; one failure.
SPECIFICATION GitFairSpec
CONSTANTS
    a = a  b = b  sa = sa  sb = sb  ua = ua  r1 = r1  r2 = r2  r3 = r3
    tweets = tweets  likes = likes  None = None
    Machines <- TwoMachines
    Rows = {r1, r2, r3}
    Finds <- Found
    Syncs = {sa, sb}
    Updates = {ua}
    Source <- SourceOf
    Shards = {tweets, likes}
    Shard <- ShardOf
    Host <- HostOf
    MaxTroubles = 1
CHECK_DEADLOCK FALSE
INVARIANTS GitTypeOK PushedIsWhole
PROPERTIES NothingDropped RowsTravel RowsArrive
