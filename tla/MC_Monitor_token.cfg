\* The core loop of one thread overlapping a host call of another.
CONSTANTS
    t1 = t1
    t2 = t2
    None = None
    Threads <- MC_Threads
    MaxCalls = 2
SPECIFICATION Spec
INVARIANT MonitorToken
