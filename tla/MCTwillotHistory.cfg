\* One job: two failures or stops, posts that vanish or are refused, a restart, a restored backup.
SPECIFICATION HistoryFairSpec
CONSTANTS
 Jobs = {j1}
 Batches <- MCBatches
 Cursors <- MCCursors
 NoCursor = NoCursor
 Null = Null
 DailyLimit = 3
 Pausable = {}
 Caps = {1}
 LeaseStatuses = {"waiting_for_twillot", "ingesting"}
 LeaseTime = 1
 DayLength = 3
 DayOffset = 0
 Horizon = 1
 MaxAttempts = 2
 MaxPosts = 2
 MaxSyncs = 1
 MaxFailures = 2
 Restartable = {j1}
 Troubled = {j1}
 Restores = 1
CHECK_DEADLOCK FALSE
INVARIANTS HistoryTypeOK ReadOnce StorageAgrees CompletedFromFreshExport
PROPERTY OutboxDrains
