\* One job, merged with the last export of its own machine at any time.
SPECIFICATION BackupSpec
CONSTANTS
 Jobs = {j1}
 Batches = {b1, b2}
 Cursors = {c1, c2}
 NoCursor = NoCursor
 Null = Null
 DailyLimit = 2
 Pausable = {}
 Caps = {1}
 LeaseStatuses = {"ingesting"}
 LeaseTime = 2
 DayLength = 3
 DayOffset = 1
 Horizon = 3
 MaxAttempts = 2
SYMMETRY BatchSymmetry
CHECK_DEADLOCK FALSE
INVARIANT RecordsSurvive
