\* The cloud collector restarts a completed job whose posts have not changed.
SPECIFICATION HistorySpec
CONSTANTS
 Jobs = {j1}
 Batches <- MCBatches
 Cursors <- MCCursors
 NoCursor = NoCursor
 Null = Null
 DailyLimit = 3
 Pausable = {}
 Caps = {1}
 LeaseStatuses = {"waiting_for_twillot", "ingesting"}
 LeaseTime = 2
 DayLength = 3
 DayOffset = 0
 Horizon = 3
 MaxAttempts = 3
 MaxPosts = 1
 MaxSyncs = 2
 MaxFailures = 0
 Restartable = {j1}
 Troubled = {}
 Restores = 0
INVARIANT AcceptedBatchEndsLease
CHECK_DEADLOCK FALSE
