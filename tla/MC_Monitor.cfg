\* Monitor discipline of the adapters and the app entry point, two threads.
CONSTANTS
    t1 = t1
    t2 = t2
    None = None
    Threads <- MC_Threads
    MaxCalls = 2
SYMMETRY MC_Symmetry
SPECIFICATION Spec
INVARIANT TypeOK
INVARIANT HostCallsExclusive
INVARIANT MonitorBalanced
