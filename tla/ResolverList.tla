----------------------------- MODULE ResolverList -----------------------------
(***************************************************************************)
(* resolver_list of android_wish.c at the level of its memory accesses.    *)
(* enqueue_dns_resolving runs on whatever Java thread is driving the core  *)
(* (an Appender); Java_..._dnsResolvingCompleted runs on the thread the    *)
(* host delivers the DNS result on (a Completer).  Neither takes a lock.   *)
(* Each shared read or write of utlist's LL_APPEND, LL_FOREACH_SAFE and    *)
(* LL_DELETE, and of next_resolve_id++, is one step.  A freed record keeps *)
(* its contents (no allocation reuses it within the bound).                *)
(***************************************************************************)
EXTENDS Integers, Sequences, FiniteSets

CONSTANTS
    Appenders,      \* threads that call enqueue_dns_resolving
    Completers,     \* threads that deliver dnsResolvingCompleted
    MaxNodes,       \* bound: resolve_data records allocated
    MaxResolves,    \* bound: resolve ids handed out
    Serial          \* TRUE: the host never overlaps two of these calls

ASSUME MaxNodes \in Nat \ {0} /\ MaxResolves \in Nat /\ Serial \in BOOLEAN

Nodes == 1 .. MaxNodes
Nil == 0
NoId == -1
ResolveIds == 0 .. (MaxResolves - 1)

VARIABLES
    head, nxt, rid,     \* resolver_list, rdata->next, rdata->resolve_id
    allocated, freed,   \* calloc'd and free'd records
    nextResolveId,      \* static next_resolve_id
    dnsReq,             \* host: resolve ids it still has to answer
    apc, aid, anode, atmp,              \* Appender locals
    cpc, cid, cel, ctmp, cw, cv,        \* Completer locals
    appended, unlinked  \* ghost: records whose LL_APPEND / LL_DELETE wrote

vars == <<head, nxt, rid, allocated, freed, nextResolveId, dnsReq,
          apc, aid, anode, atmp, cpc, cid, cel, ctmp, cw, cv,
          appended, unlinked>>
aLocals == <<apc, aid, anode, atmp>>
cLocals == <<cpc, cid, cel, ctmp, cw, cv>>

\* the records reachable from resolver_list, in order (at most MaxNodes hops)
RECURSIVE Walk(_, _)
Walk(p, k) == IF p = Nil \/ k = 0 THEN <<>> ELSE <<p>> \o Walk(nxt[p], k - 1)
ReachSeq == Walk(head, MaxNodes)
Reach == {ReachSeq[i] : i \in 1 .. Len(ReachSeq)}

\* with Serial, a call starts only when no other call is in progress
MayStart(t) ==
    Serial => /\ \A a \in Appenders \ {t} : apc[a] = "idle"
              /\ \A c \in Completers \ {t} : cpc[c] = "idle"

-----------------------------------------------------------------------------
(* enqueue_dns_resolving, lines 118-128                                     *)

\* int resolve_id = next_resolve_id++;  (the load)
AReadId(a) ==
    /\ apc[a] = "idle" /\ MayStart(a)
    /\ nextResolveId < MaxResolves
    /\ Cardinality(allocated) + Cardinality({b \in Appenders : apc[b] = "incId"})
         < MaxNodes
    /\ aid' = [aid EXCEPT ![a] = nextResolveId]
    /\ apc' = [apc EXCEPT ![a] = "incId"]
    /\ UNCHANGED <<head, nxt, rid, allocated, freed, nextResolveId, dnsReq,
                   anode, atmp, cLocals, appended, unlinked>>

\* mutant: resolve_id takes the incremented value
AIncIdPre(a) ==
    LET n == CHOOSE m \in Nodes : m \notin allocated IN
    /\ apc[a] = "incId"
    /\ nextResolveId' = aid[a] + 1
    /\ allocated' = allocated \cup {n}
    /\ rid' = [rid EXCEPT ![n] = aid[a] + 1]
    /\ nxt' = [nxt EXCEPT ![n] = Nil]
    /\ anode' = [anode EXCEPT ![a] = n]
    /\ apc' = [apc EXCEPT ![a] = "append"]
    /\ UNCHANGED <<head, freed, dnsReq, aid, atmp, cLocals, appended, unlinked>>

\* mutant: resolve_id = next_resolve_id, without the increment
AIncIdNoInc(a) ==
    LET n == CHOOSE m \in Nodes : m \notin allocated IN
    /\ apc[a] = "incId"
    /\ allocated' = allocated \cup {n}
    /\ rid' = [rid EXCEPT ![n] = aid[a]]
    /\ nxt' = [nxt EXCEPT ![n] = Nil]
    /\ anode' = [anode EXCEPT ![a] = n]
    /\ apc' = [apc EXCEPT ![a] = "append"]
    /\ UNCHANGED <<head, freed, nextResolveId, dnsReq, aid, atmp, cLocals,
                   appended, unlinked>>

\* the store of next_resolve_id++, calloc of rdata, its fields filled and
\* (by LL_APPEND) rdata->next = NULL
AIncId(a) ==
    LET n == CHOOSE m \in Nodes : m \notin allocated IN
    /\ apc[a] = "incId"
    /\ nextResolveId' = aid[a] + 1
    /\ allocated' = allocated \cup {n}
    /\ rid' = [rid EXCEPT ![n] = aid[a]]
    /\ nxt' = [nxt EXCEPT ![n] = Nil]
    /\ anode' = [anode EXCEPT ![a] = n]
    /\ apc' = [apc EXCEPT ![a] = "append"]
    /\ UNCHANGED <<head, freed, dnsReq, aid, atmp, cLocals, appended, unlinked>>

\* mutant: LL_APPEND always takes the empty-list branch
AReadHeadEmpty(a) ==
    /\ apc[a] = "append"
    /\ apc' = [apc EXCEPT ![a] = "setHead"]
    /\ UNCHANGED <<head, nxt, rid, allocated, freed, nextResolveId, dnsReq,
                   aid, anode, atmp, cLocals, appended, unlinked>>

\* LL_APPEND: if (head) { _tmp = head; ... } else ...
AReadHead(a) ==
    /\ apc[a] = "append"
    /\ IF head = Nil
       THEN /\ apc' = [apc EXCEPT ![a] = "setHead"]
            /\ UNCHANGED atmp
       ELSE /\ atmp' = [atmp EXCEPT ![a] = head]
            /\ apc' = [apc EXCEPT ![a] = "walk"]
    /\ UNCHANGED <<head, nxt, rid, allocated, freed, nextResolveId, dnsReq,
                   aid, anode, cLocals, appended, unlinked>>

\* LL_APPEND: (head) = (add)
ASetHead(a) ==
    /\ apc[a] = "setHead"
    /\ head' = anode[a]
    /\ apc' = [apc EXCEPT ![a] = "call"]
    /\ UNCHANGED <<nxt, rid, allocated, freed, nextResolveId, dnsReq,
                   aid, anode, atmp, cLocals, appended, unlinked>>

\* LL_APPEND: while (_tmp->next) { _tmp = _tmp->next; }
AWalk(a) ==
    /\ apc[a] = "walk"
    /\ IF nxt[atmp[a]] # Nil
       THEN /\ atmp' = [atmp EXCEPT ![a] = nxt[atmp[a]]]
            /\ UNCHANGED apc
       ELSE /\ apc' = [apc EXCEPT ![a] = "link"]
            /\ UNCHANGED atmp
    /\ UNCHANGED <<head, nxt, rid, allocated, freed, nextResolveId, dnsReq,
                   aid, anode, cLocals, appended, unlinked>>

\* mutant: the new record is pushed at the head instead of linked at the tail
ALinkFront(a) ==
    /\ apc[a] = "link"
    /\ nxt' = [nxt EXCEPT ![anode[a]] = head]
    /\ head' = anode[a]
    /\ apc' = [apc EXCEPT ![a] = "call"]
    /\ UNCHANGED <<rid, allocated, freed, nextResolveId, dnsReq,
                   aid, anode, atmp, cLocals, appended, unlinked>>

\* LL_APPEND: _tmp->next = (add)
ALink(a) ==
    /\ apc[a] = "link"
    /\ nxt' = [nxt EXCEPT ![atmp[a]] = anode[a]]
    /\ apc' = [apc EXCEPT ![a] = "call"]
    /\ UNCHANGED <<head, rid, allocated, freed, nextResolveId, dnsReq,
                   aid, anode, atmp, cLocals, appended, unlinked>>

\* CallIntMethod(startDnsResolving, qname, resolve_id): the host now owes
\* an answer for the id
ACallHost(a) ==
    /\ apc[a] = "call"
    /\ dnsReq' = dnsReq \cup {rid[anode[a]]}
    /\ appended' = appended \cup {anode[a]}
    /\ apc' = [apc EXCEPT ![a] = "idle"]
    /\ UNCHANGED <<head, nxt, rid, allocated, freed, nextResolveId,
                   aid, anode, atmp, cLocals, unlinked>>

-----------------------------------------------------------------------------
(* Java_..._dnsResolvingCompleted, lines 1167-1176                          *)

\* the host delivers the answer for id: LL_FOREACH_SAFE starts at the head
CStart(c, id) ==
    /\ cpc[c] = "idle" /\ MayStart(c)
    /\ id \in dnsReq
    /\ dnsReq' = dnsReq \ {id}
    /\ cid' = [cid EXCEPT ![c] = id]
    /\ cel' = [cel EXCEPT ![c] = head]
    /\ cpc' = [cpc EXCEPT ![c] = "loop"]
    /\ UNCHANGED <<head, nxt, rid, allocated, freed, nextResolveId,
                   aLocals, ctmp, cw, cv, appended, unlinked>>

\* LL_FOREACH_SAFE: stop at NULL, else tmp = el->next; a matching record is
\* deleted, any other is stepped over
CLoop(c) ==
    /\ cpc[c] = "loop"
    /\ IF cel[c] = Nil
       THEN /\ cpc' = [cpc EXCEPT ![c] = "idle"]
            /\ UNCHANGED <<cel, ctmp>>
       ELSE /\ ctmp' = [ctmp EXCEPT ![c] = nxt[cel[c]]]
            /\ IF rid[cel[c]] = cid[c]
               THEN /\ cpc' = [cpc EXCEPT ![c] = "del"]
                    /\ UNCHANGED cel
               ELSE /\ cel' = [cel EXCEPT ![c] = nxt[cel[c]]]
                    /\ UNCHANGED cpc
    /\ UNCHANGED <<head, nxt, rid, allocated, freed, nextResolveId, dnsReq,
                   aLocals, cid, cw, cv, appended, unlinked>>

\* LL_DELETE: if ((head) == (del)) ... else { _tmp = head; ...
CDel(c) ==
    /\ cpc[c] = "del"
    /\ IF head = cel[c]
       THEN /\ cpc' = [cpc EXCEPT ![c] = "delHead"]
            /\ UNCHANGED cw
       ELSE /\ cw' = [cw EXCEPT ![c] = head]
            /\ cpc' = [cpc EXCEPT ![c] = "delWalk"]
    /\ UNCHANGED <<head, nxt, rid, allocated, freed, nextResolveId, dnsReq,
                   aLocals, cid, cel, ctmp, cv, appended, unlinked>>

\* LL_DELETE: (head) = (head)->next, the load of head->next
CDelHead(c) ==
    /\ cpc[c] = "delHead"
    /\ cv' = [cv EXCEPT ![c] = nxt[head]]
    /\ cpc' = [cpc EXCEPT ![c] = "delHeadW"]
    /\ UNCHANGED <<head, nxt, rid, allocated, freed, nextResolveId, dnsReq,
                   aLocals, cid, cel, ctmp, cw, appended, unlinked>>

\* LL_DELETE: (head) = (head)->next, the store
CDelHeadWrite(c) ==
    /\ cpc[c] = "delHeadW"
    /\ head' = cv[c]
    /\ unlinked' = unlinked \cup {cel[c]}
    /\ cpc' = [cpc EXCEPT ![c] = "free"]
    /\ UNCHANGED <<nxt, rid, allocated, freed, nextResolveId, dnsReq,
                   aLocals, cid, cel, ctmp, cw, cv, appended>>

\* LL_DELETE: while (_tmp->next && (_tmp->next != (del))) _tmp = _tmp->next;
CDelWalk(c) ==
    /\ cpc[c] = "delWalk"
    /\ IF nxt[cw[c]] # Nil /\ nxt[cw[c]] # cel[c]
       THEN /\ cw' = [cw EXCEPT ![c] = nxt[cw[c]]]
            /\ UNCHANGED cpc
       ELSE /\ cpc' = [cpc EXCEPT ![c] = "delLink"]
            /\ UNCHANGED cw
    /\ UNCHANGED <<head, nxt, rid, allocated, freed, nextResolveId, dnsReq,
                   aLocals, cid, cel, ctmp, cv, appended, unlinked>>

\* LL_DELETE: if (_tmp->next) the load of (del)->next
CDelLink(c) ==
    /\ cpc[c] = "delLink"
    /\ IF nxt[cw[c]] # Nil
       THEN /\ cv' = [cv EXCEPT ![c] = nxt[cel[c]]]
            /\ cpc' = [cpc EXCEPT ![c] = "delLinkW"]
       ELSE /\ cpc' = [cpc EXCEPT ![c] = "free"]
            /\ UNCHANGED cv
    /\ UNCHANGED <<head, nxt, rid, allocated, freed, nextResolveId, dnsReq,
                   aLocals, cid, cel, ctmp, cw, appended, unlinked>>

\* LL_DELETE: _tmp->next = (del)->next, the store
CDelLinkWrite(c) ==
    /\ cpc[c] = "delLinkW"
    /\ nxt' = [nxt EXCEPT ![cw[c]] = cv[c]]
    /\ unlinked' = unlinked \cup {cel[c]}
    /\ cpc' = [cpc EXCEPT ![c] = "free"]
    /\ UNCHANGED <<head, rid, allocated, freed, nextResolveId, dnsReq,
                   aLocals, cid, cel, ctmp, cw, cv, appended>>

\* free(rdata); the loop goes on with the saved tmp
CFree(c) ==
    /\ cpc[c] = "free"
    /\ freed' = freed \cup {cel[c]}
    /\ cel' = [cel EXCEPT ![c] = ctmp[c]]
    /\ cpc' = [cpc EXCEPT ![c] = "loop"]
    /\ UNCHANGED <<head, nxt, rid, allocated, nextResolveId, dnsReq,
                   aLocals, cid, ctmp, cw, cv, appended, unlinked>>

-----------------------------------------------------------------------------
Init ==
    /\ head = Nil
    /\ nxt = [n \in Nodes |-> Nil]
    /\ rid = [n \in Nodes |-> NoId]
    /\ allocated = {} /\ freed = {}
    /\ nextResolveId = 0
    /\ dnsReq = {}
    /\ apc = [a \in Appenders |-> "idle"]
    /\ aid = [a \in Appenders |-> NoId]
    /\ anode = [a \in Appenders |-> Nil]
    /\ atmp = [a \in Appenders |-> Nil]
    /\ cpc = [c \in Completers |-> "idle"]
    /\ cid = [c \in Completers |-> NoId]
    /\ cel = [c \in Completers |-> Nil]
    /\ ctmp = [c \in Completers |-> Nil]
    /\ cw = [c \in Completers |-> Nil]
    /\ cv = [c \in Completers |-> Nil]
    /\ appended = {} /\ unlinked = {}

Next ==
    \/ \E a \in Appenders :
          \/ AReadId(a) \/ AIncId(a) \/ AReadHead(a) \/ ASetHead(a)
          \/ AWalk(a) \/ ALink(a) \/ ACallHost(a)
    \/ \E c \in Completers :
          \/ \E id \in ResolveIds : CStart(c, id)
          \/ CLoop(c) \/ CDel(c) \/ CDelHead(c) \/ CDelHeadWrite(c)
          \/ CDelWalk(c) \/ CDelLink(c) \/ CDelLinkWrite(c) \/ CFree(c)

Spec == Init /\ [][Next]_vars

-----------------------------------------------------------------------------
NodeOrNil == Nodes \cup {Nil}

TypeOK ==
    /\ head \in NodeOrNil
    /\ nxt \in [Nodes -> NodeOrNil]
    /\ rid \in [Nodes -> ResolveIds \cup {NoId}]
    /\ freed \subseteq allocated /\ allocated \subseteq Nodes
    /\ nextResolveId \in 0 .. MaxResolves
    /\ dnsReq \subseteq ResolveIds
    /\ apc \in [Appenders -> {"idle", "incId", "append", "setHead", "walk",
                              "link", "call"}]
    /\ cpc \in [Completers -> {"idle", "loop", "del", "delHead", "delHeadW",
                               "delWalk", "delLink", "delLinkW", "free"}]
    /\ \A t \in DOMAIN anode : anode[t] \in NodeOrNil /\ atmp[t] \in NodeOrNil
    /\ \A t \in DOMAIN cel : {cel[t], ctmp[t], cw[t], cv[t]} \subseteq NodeOrNil

\* No record is lost (spec 4.3, 5): every record enqueue_dns_resolving has
\* appended stays reachable from resolver_list until the completion for its
\* id unlinks it.  A lost record makes the DNS answer "rdata not found" and
\* leaves its connection or relay waiting for ever.
NoLostRecord == \A n \in appended \ unlinked : n \in Reach

\* Resolve ids are never reused (spec 2, 4.3): no two records enqueue_dns_
\* resolving allocates carry the same resolve_id.  A duplicate makes one
\* answer unlink both records (the LL_FOREACH_SAFE scan deletes every match)
\* and leaves the other requester's answer unmatched.
UniqueResolveIds ==
    \A m, n \in allocated : m # n => rid[m] # rid[n]

\* resolver_list behaves as the abstract list of ResolverQueue: the only
\* changes are a new record at the tail and the removal of one record.
Abs == INSTANCE ResolverQueue WITH pending <- ReachSeq
RefinesResolverQueue == Abs!Spec

=============================================================================
