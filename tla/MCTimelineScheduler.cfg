\* Three requests, one slot, a signal, a cooldown the clock can leave; no symmetry, for liveness.
SPECIFICATION FairSpec
CONSTANTS
    r1 = r1  r2 = r2  r3 = r3  s1 = s1
    Requests <- FewRequests
    Signals = {s1}
    Concurrency = 1
    CooldownTime = 1
    Instants = {1, 2}
    Null = Null
CHECK_DEADLOCK FALSE
INVARIANTS SlotsUsed PromisesKept
PROPERTIES NoStartInCooldown InOrder EveryCallAnswered
