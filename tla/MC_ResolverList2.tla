-------------------------- MODULE MC_ResolverList2 --------------------------
(* Two Java threads driving the core (feedData on two connections' threads) *)
(* each enqueue a resolution while a DNS answer is being delivered.        *)
EXTENDS ResolverList

CONSTANTS a1, a2, c1

MC_Appenders2 == {a1, a2}
MC_Completers2 == {c1}

=============================================================================
