SPECIFICATION FairSpec
CONSTANTS
    Threads = {t1, t2, t3}
    SpanSize = 2
    Limits = {"one", "span"}
    Capacities = {0, 2}
    MaxPush = 3
INVARIANTS FifoOrder NoLostWakeup
PROPERTIES BlockedPopIsServed TimedPopReturns
