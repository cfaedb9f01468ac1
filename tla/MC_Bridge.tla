------------------------------ MODULE MC_Bridge ------------------------------
EXTENDS Bridge

CONSTANTS s1, s2

MC_Slots == {s1, s2}

=============================================================================
