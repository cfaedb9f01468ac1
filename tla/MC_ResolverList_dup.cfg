\* Two core-driving threads enqueue at the same time.
\* The list may fall quiet: the core need not ask for another resolution.
CONSTANTS
    a1 = a1
    a2 = a2
    c1 = c1
    Appenders <- MC_Appenders2
    Completers <- MC_Completers2
    MaxNodes = 2
    MaxResolves = 2
    Serial = FALSE
SPECIFICATION Spec
INVARIANT UniqueResolveIds
CHECK_DEADLOCK FALSE
