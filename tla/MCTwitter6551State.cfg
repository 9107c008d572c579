\* One worker of an account, one of a handle and a profile analysis share the budget.
SPECIFICATION Spec
CONSTANTS
    w1 = w1  t1 = t1
    NoRow = NoRow  Corrupt = Corrupt  NoTime = NoTime
    Accounts = {"watched","cloud"}
    Handles = {"watched"}
    Scopes = {"one", "two"}
    Workers <- OneWorker
    Tools <- OneTool
    Budget = 2
    Threshold = 2
    Interval = 1
    Cooldown = 1
    DayLength = 1
    MaxTime = 1
    LegacyUses <- SomeOldUses
    LegacyRows <- OldRow
CHECK_DEADLOCK FALSE
INVARIANTS BudgetKept OneAttemptAfterReturn
PROPERTIES CooldownKept PaidAfterOutage
