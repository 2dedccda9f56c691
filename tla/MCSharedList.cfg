SPECIFICATION MCSpec
CONSTANTS
    p1 = p1
    p2 = p2
    c1 = c1
    c2 = c2
    d1 = d1
    Producers = {p1, p2}
    Fetchers = {c1, c2}
    Drainers = {d1}
    WakeTypes = {"WAKE_ONE", "WAKE_ALL"}
    MaxAppends = 2
    MaxSpurious = 1
    NoThread = NoThread
    Setters = {"s1", "s2"}
    Waiters = {"w1", "w2"}
    MaxSets = 3
    MaxWakeups = 1
INVARIANTS
    FrontIsDefined
    NoLostWakeup
    NoSleeperWhileOn
    TakenOncePerOn
PROPERTIES
    ImplementsFifo
    EveryValueFetched
    OnReleasesAll
CHECK_DEADLOCK FALSE
