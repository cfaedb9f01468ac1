--------------------------- MODULE MC_ResolverList ---------------------------
EXTENDS ResolverList

CONSTANTS a1, c1

MC_Appenders == {a1}
MC_Completers == {c1}

=============================================================================
