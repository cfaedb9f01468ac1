\* Two connection slots used twice each, two resolutions, two relay sockets;
\* the host may deliver a DNS answer again after the first.
CONSTANTS
    s1 = s1
    s2 = s2
    Slots <- MC_Slots
    NoSlot = NoSlot
    MaxGen = 2
    MaxResolves = 2
    MaxRelaySocks = 2
SPECIFICATION Spec
INVARIANT TypeOK
INVARIANT HonoredOnce
INVARIANT RecordsMatchOutstanding
PROPERTY ResolvingEnds
