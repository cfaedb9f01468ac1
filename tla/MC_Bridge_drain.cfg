\* A DNS answer reports failure: dnsResolvingCompleted returns without
\* process_wish_core().
CONSTANTS
    s1 = s1
    s2 = s2
    Slots <- MC_Slots
    NoSlot = NoSlot
    MaxGen = 2
    MaxResolves = 2
    MaxRelaySocks = 2
SPECIFICATION Spec
INVARIANT NoStrandedEvents
