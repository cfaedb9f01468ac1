\* One core thread and one DNS-completion thread running at the same time.
\* The list may fall quiet: the core need not ask for another resolution.
CONSTANTS
    a1 = a1
    c1 = c1
    Appenders <- MC_Appenders
    Completers <- MC_Completers
    MaxNodes = 3
    MaxResolves = 3
    Serial = FALSE
SPECIFICATION Spec
INVARIANT NoLostRecord
CHECK_DEADLOCK FALSE
