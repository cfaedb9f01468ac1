\* The core closes a connection (or the relay) while its host name is being
\* resolved; the DNS answer arrives afterwards.
CONSTANTS
    s1 = s1
    s2 = s2
    Slots <- MC_Slots
    NoSlot = NoSlot
    MaxGen = 2
    MaxResolves = 2
    MaxRelaySocks = 2
SPECIFICATION Spec
INVARIANT DnsOpensReachRequester
