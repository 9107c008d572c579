\* Two jobs compete for two records a day over a reset; one person may be paused; no symmetry, for liveness.
SPECIFICATION FairSpec
CONSTANTS
 Jobs = {j1, j2}
 Batches = {b1,b2}
 Cursors = {}
 NoCursor = NoCursor
 Null = Null
 DailyLimit = 2
 Pausable = {j1}
 Caps = {1}
 LeaseStatuses = {"capturing"}
 LeaseTime = 2
 DayLength = 3
 DayOffset = 1
 Horizon = 3
 MaxAttempts = 2
CHECK_DEADLOCK FALSE
INVARIANTS QuotaRespected RecordsAgree OneBatchPerLease
PROPERTIES ImplementsLease SilentLeaseEnds
