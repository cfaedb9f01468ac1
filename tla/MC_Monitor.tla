----------------------------- MODULE MC_Monitor -----------------------------
(* Two Java threads: one can drive a connection (feedData) while the other *)
(* delivers an app request (jni_receive_app_to_core).                      *)
EXTENDS Monitor, TLC

CONSTANTS t1, t2

MC_Threads == {t1, t2}

MC_Symmetry == Permutations(MC_Threads)

=============================================================================
