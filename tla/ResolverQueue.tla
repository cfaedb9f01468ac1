---------------------------- MODULE ResolverQueue ----------------------------
(***************************************************************************)
(* What resolver_list promises (android_wish.c): an ordered list of        *)
(* pending resolution records in which enqueue_dns_resolving adds a new    *)
(* record at the tail and dnsResolvingCompleted unlinks one record it      *)
(* found; nothing else ever changes the list.  Records are the             *)
(* allocations 1..MaxNodes.                                                *)
(***************************************************************************)
EXTENDS Naturals, Sequences, SequencesExt

CONSTANTS Nodes

VARIABLE pending    \* the records in list order

\* LL_APPEND of a record that is not in the list
Add(n) ==
    /\ ~Contains(pending, n)
    /\ pending' = Append(pending, n)

\* LL_DELETE of a record that is in the list
Unlink(n) ==
    /\ Contains(pending, n)
    /\ pending' = Remove(pending, n)

Init == pending = <<>>

Next == \E n \in Nodes : Add(n) \/ Unlink(n)

Spec == Init /\ [][Next]_pending

=============================================================================
