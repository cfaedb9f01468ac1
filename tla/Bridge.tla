------------------------------- MODULE Bridge -------------------------------
(***************************************************************************)
(* The Android port layer of the Wish core (android_wish.c): the          *)
(* asynchronous DNS correlator (resolver_list, enqueue_dns_resolving,      *)
(* dnsResolvingCompleted) and the connection and relay-control adapters it *)
(* dispatches to.  Every JNI entry point and every port function is one    *)
(* atomic step here, its trailing process_wish_core() included; the       *)
(* interleaving of two threads inside the resolver list is the subject of  *)
(* the module ResolverList.                                                *)
(*                                                                         *)
(* The Wish core (the engine) is not part of this repository.  Its         *)
(* decisions to open, close and reclaim connections and the relay client   *)
(* are environment steps, and so are the Java host's answers: DNS          *)
(* results (duplicates included) and socket signals.                       *)
(***************************************************************************)
EXTENDS Naturals, Sequences, SequencesExt, FiniteSets

CONSTANTS
    Slots,          \* connection slots of the core's context pool
    NoSlot,         \* rdata->conn == NULL
    MaxGen,         \* bound: connections allocated per slot
    MaxResolves,    \* bound: resolve ids handed out (next_resolve_id)
    MaxRelaySocks   \* bound: relay control sockets the host creates

ASSUME NoSlot \notin Slots /\ MaxGen \in Nat \ {0}
ASSUME MaxResolves \in Nat /\ MaxRelaySocks \in Nat \ {0}

VARIABLES
    ctx,            \* [Slots -> [gen, state]]: the core's connection pool
    relay,          \* the single relay client: [state, sockfd]
    resolverList,   \* resolver_list: Seq of resolve_data records
    nextResolveId,  \* static next_resolve_id of enqueue_dns_resolving
    dnsReq,         \* host: resolve ids it still has to answer
    answered,       \* host: resolve ids it has answered (may answer again)
    hostConn,       \* host: [ConnId -> socket status] of Wish connections
    hostRelay,      \* host: [1..MaxRelaySocks -> socket status]
    eventsPending,  \* the core's event queue is not empty
    honored,        \* ghost: [ResolveIds -> times a completion was acted on]
    dnsOpens        \* ghost: opens issued by DNS completions

vars == <<ctx, relay, resolverList, nextResolveId, dnsReq, answered,
          hostConn, hostRelay, eventsPending, honored, dnsOpens>>

ResolveIds == 0 .. (MaxResolves - 1)
Gens == 1 .. MaxGen
\* wish_connection_id_t: a connection is its slot and its allocation number
ConnId == Slots \X Gens
RelaySocks == 1 .. MaxRelaySocks
CtxStates == {"FREE", "RESOLVING", "CONNECTING", "CONNECTED", "CLOSING"}
RelayStates == {"IDLE", "RESOLVING", "CONNECTING", "CONNECTED", "CLOSING"}
SockStates == {"none", "connecting", "open", "closing", "closed"}
\* the Java-side signal codes of signalEvent and relayControlSignalEvent
Sigs == {"CONNECTED", "DISCONNECTED"}

\* the connection id a slot currently carries (ctx->connection_id); a freed
\* slot keeps the id of its last connection
IdOf(s) == <<s, ctx[s].gen>>

Live(s) == ctx[s].state # "FREE"

-----------------------------------------------------------------------------
(* Helpers of the port                                                     *)

\* process_wish_core(): pull and process events until the queue is empty
ProcessWishCore == eventsPending' = FALSE

\* wish_core_lookup_ctx_by_connection_id: the live slot carrying id cid
LookupCtx(cid) ==
    IF Live(cid[1]) /\ ctx[cid[1]].gen = cid[2] THEN cid[1] ELSE NoSlot

\* wish_relay_client_get_by_id: the relay whose sockfd is id, or NULL
RelayGetById(id) == relay.sockfd = id

\* mutant: the record is allocated but LL_APPEND is left out
EnqueueDnsResolvingNoAppend(s, isRelay) ==
    /\ nextResolveId < MaxResolves
    /\ nextResolveId' = nextResolveId + 1
    /\ UNCHANGED resolverList
    /\ dnsReq' = dnsReq \cup {nextResolveId}

\* mutant: rdata->relay is set whatever the target
EnqueueDnsResolvingBothTargets(s, isRelay) ==
    /\ nextResolveId < MaxResolves
    /\ nextResolveId' = nextResolveId + 1
    /\ resolverList' = Append(resolverList,
           [id |-> nextResolveId, conn |-> s, relay |-> TRUE,
            req |-> IF isRelay THEN <<>> ELSE <<s, ctx'[s].gen>>])
    /\ dnsReq' = dnsReq \cup {nextResolveId}

\* enqueue_dns_resolving: take next_resolve_id, append a resolve_data record
\* naming conn XOR relay, ask the host to start resolving (id, qname)
EnqueueDnsResolving(s, isRelay) ==
    LET id == nextResolveId IN
    /\ id < MaxResolves
    /\ nextResolveId' = id + 1
    /\ resolverList' = Append(resolverList,
           [id |-> id, conn |-> s, relay |-> isRelay,
            req |-> IF isRelay THEN <<>> ELSE <<s, ctx'[s].gen>>])
    /\ dnsReq' = dnsReq \cup {id}

\* mutant: LL_DELETE is left out of the LL_FOREACH_SAFE scan
RemoveRecordKeep(id) == UNCHANGED resolverList

\* mutant: the head of the list is unlinked instead of the matching record
RemoveRecordHead(id) == resolverList' = Tail(resolverList)

\* the LL_FOREACH_SAFE scan of dnsResolvingCompleted: LL_DELETE and free
\* every record carrying resolve_id
RemoveRecord(id) == resolverList' = SelectSeq(resolverList, LAMBDA r : r.id # id)

\* wish_open_connection: ask the host to connect connection_id, then drain
OpenConnection(s) ==
    /\ hostConn' = [hostConn EXCEPT ![IdOf(s)] =
                        IF @ = "none" THEN "connecting" ELSE @]
    /\ ProcessWishCore

\* port_relay_client_open: state CONNECTING, sockfd := the id the host
\* returns for the new control socket, then drain
FreshSock == CHOOSE i \in RelaySocks : hostRelay[i] = "none"

PortRelayClientOpen ==
    /\ \E i \in RelaySocks : hostRelay[i] = "none"
    /\ relay' = [state |-> "CONNECTING", sockfd |-> FreshSock]
    /\ hostRelay' = [hostRelay EXCEPT ![FreshSock] = "connecting"]
    /\ ProcessWishCore

-----------------------------------------------------------------------------
(* The core's reaction to the port's calls (outside this repository)       *)

\* wish_core_signal_tcp_event(core, ctx, sig): CONNECTED completes a
\* pending connect, DISCONNECTED tears the connection down and frees the
\* slot; either may post events to the core's queue
SignalTcpEvent(s, sig) ==
    /\ ctx' = [ctx EXCEPT ![s].state =
                  IF sig = "DISCONNECTED" THEN "FREE"
                  ELSE IF @ = "CLOSING" THEN @ ELSE "CONNECTED"]
    /\ eventsPending' \in BOOLEAN

\* relay_ctrl_disconnect_cb / relay_ctrl_connected_cb
RelayDisconnectCb == relay' = [relay EXCEPT !.state = "IDLE"]
RelayConnectedCb == relay' = [relay EXCEPT !.state = "CONNECTED"]

-----------------------------------------------------------------------------
(* Engine-initiated port calls                                              *)

\* the core allocates a slot for an outgoing connection to a host name and
\* calls wish_open_connection_dns: transport state RESOLVING, enqueue
WishOpenConnectionDns(s) ==
    /\ ~Live(s) /\ ctx[s].gen < MaxGen
    /\ ctx' = [ctx EXCEPT ![s] = [gen |-> @.gen + 1, state |-> "RESOLVING"]]
    /\ EnqueueDnsResolving(s, FALSE)
    /\ UNCHANGED <<relay, answered, hostConn, hostRelay, eventsPending,
                   honored, dnsOpens>>

\* the core allocates a slot for a connection to a known IP and calls
\* wish_open_connection
WishOpenConnectionIp(s) ==
    /\ ~Live(s) /\ ctx[s].gen < MaxGen
    /\ ctx' = [ctx EXCEPT ![s] = [gen |-> @.gen + 1, state |-> "CONNECTING"]]
    /\ hostConn' = [hostConn EXCEPT ![<<s, ctx[s].gen + 1>>] = "connecting"]
    /\ ProcessWishCore
    /\ UNCHANGED <<relay, resolverList, nextResolveId, dnsReq, answered,
                   hostRelay, honored, dnsOpens>>

\* wish_close_connection: context_state CLOSING, host closeConnection(id),
\* drain; there is no check that the connection is already closing
WishCloseConnection(s) ==
    /\ Live(s)
    /\ ctx' = [ctx EXCEPT ![s].state = "CLOSING"]
    /\ hostConn' = [hostConn EXCEPT ![IdOf(s)] =
                        IF @ \in {"connecting", "open"} THEN "closing" ELSE @]
    /\ ProcessWishCore
    /\ UNCHANGED <<relay, resolverList, nextResolveId, dnsReq, answered,
                   hostRelay, honored, dnsOpens>>

\* the core frees a closing slot whose socket is gone (or never existed)
CoreReclaim(s) ==
    /\ ctx[s].state = "CLOSING"
    /\ hostConn[IdOf(s)] \in {"none", "closed"}
    /\ ctx' = [ctx EXCEPT ![s].state = "FREE"]
    /\ UNCHANGED <<relay, resolverList, nextResolveId, dnsReq, answered,
                   hostConn, hostRelay, eventsPending, honored, dnsOpens>>

\* Java_..._acceptServerConnection: wish_connection_init on a free slot,
\* register write_to_socket, drain, return the new connection id
AcceptServerConnection(s) ==
    /\ ~Live(s) /\ ctx[s].gen < MaxGen
    /\ ctx' = [ctx EXCEPT ![s] = [gen |-> @.gen + 1, state |-> "CONNECTED"]]
    /\ hostConn' = [hostConn EXCEPT ![<<s, ctx[s].gen + 1>>] = "open"]
    /\ ProcessWishCore
    /\ UNCHANGED <<relay, resolverList, nextResolveId, dnsReq, answered,
                   hostRelay, honored, dnsOpens>>

\* wish_relay_client_open: a host name is resolved first (RESOLVING and
\* port_dns_start_resolving_relay_client), an IP is opened at once
WishRelayClientOpen(isName) ==
    /\ relay.state = "IDLE"
    /\ IF isName
       THEN /\ relay' = [relay EXCEPT !.state = "RESOLVING"]
            /\ EnqueueDnsResolving(NoSlot, TRUE)
            /\ UNCHANGED <<hostRelay, eventsPending>>
       ELSE /\ PortRelayClientOpen
            /\ UNCHANGED <<resolverList, nextResolveId, dnsReq>>
    /\ UNCHANGED <<ctx, answered, hostConn, honored, dnsOpens>>

\* wish_relay_client_close: state CLOSING, host closes relay->sockfd, drain
WishRelayClientClose ==
    /\ relay.state \notin {"IDLE", "CLOSING"}
    /\ relay' = [relay EXCEPT !.state = "CLOSING"]
    /\ hostRelay' =
         IF relay.sockfd \in RelaySocks
            /\ hostRelay[relay.sockfd] \in {"connecting", "open"}
         THEN [hostRelay EXCEPT ![relay.sockfd] = "closing"]
         ELSE hostRelay
    /\ ProcessWishCore
    /\ UNCHANGED <<ctx, resolverList, nextResolveId, dnsReq, answered,
                   hostConn, honored, dnsOpens>>

-----------------------------------------------------------------------------
(* JNI entry points driven by the host                                     *)

\* Java_..._dnsResolvingCompleted(resolve_id, ip or empty): remove every
\* record with that id; unknown id: return.  Failure: signal
\* TCP_DISCONNECTED to the conn or call the relay disconnect callback, and
\* return without draining.  Success: wish_open_connection with the conn's
\* stored port, or port_relay_client_open.
DnsResolvingCompleted(id, ok) ==
    /\ id \in dnsReq \cup answered
    /\ dnsReq' = dnsReq \ {id}
    /\ answered' = answered \cup {id}
    /\ LET found == SelectSeq(resolverList, LAMBDA r : r.id = id)
           rd == found[1]
       IN IF found = <<>>
          THEN UNCHANGED <<ctx, relay, resolverList, hostConn, hostRelay,
                           eventsPending, honored, dnsOpens>>
          ELSE
          /\ RemoveRecord(id)
          /\ honored' = [honored EXCEPT ![id] = @ + 1]
          /\ IF ~ok
             THEN /\ IF rd.conn # NoSlot
                     THEN /\ SignalTcpEvent(rd.conn, "DISCONNECTED")
                          /\ UNCHANGED relay
                     ELSE /\ RelayDisconnectCb
                          /\ eventsPending' \in BOOLEAN
                          /\ UNCHANGED ctx
                  /\ UNCHANGED <<hostConn, hostRelay, dnsOpens>>
             ELSE /\ dnsOpens' = dnsOpens \cup
                       {[rid |-> id, req |-> rd.req,
                         to |-> IF rd.conn # NoSlot THEN IdOf(rd.conn) ELSE <<>>,
                         waiting |-> IF rd.conn # NoSlot
                                     THEN ctx[rd.conn].state = "RESOLVING"
                                          /\ IdOf(rd.conn) = rd.req
                                     ELSE relay.state = "RESOLVING"]}
                  /\ IF rd.conn # NoSlot
                     THEN /\ OpenConnection(rd.conn)
                          /\ UNCHANGED <<relay, hostRelay>>
                     ELSE /\ PortRelayClientOpen
                          /\ UNCHANGED hostConn
                  /\ UNCHANGED ctx
    /\ UNCHANGED nextResolveId

\* Java_..._signalEvent(connection_id, sig): unknown id: return.
\* TCP_CONNECTED registers write_to_socket and signals the core; any other
\* signal is passed on; then drain.
HostConnSignal(cid, sig) ==
    /\ \/ sig = "CONNECTED" /\ hostConn[cid] = "connecting"
          /\ hostConn' = [hostConn EXCEPT ![cid] = "open"]
       \/ sig = "DISCONNECTED" /\ hostConn[cid] \in {"connecting", "open", "closing"}
          /\ hostConn' = [hostConn EXCEPT ![cid] = "closed"]
    /\ LET s == LookupCtx(cid) IN
       IF s = NoSlot
       THEN UNCHANGED <<ctx, eventsPending>>
       ELSE /\ SignalTcpEvent(s, sig)
            /\ ProcessWishCore
    /\ UNCHANGED <<relay, resolverList, nextResolveId, dnsReq, answered,
                   hostRelay, honored, dnsOpens>>

\* Java_..._relayControlSignalEvent(id, sig): relay looked up by sockfd;
\* DISCONNECTED calls the disconnect callback, CONNECTED the connected
\* callback and wish_relay_client_periodic; then drain
HostRelaySignal(id, sig) ==
    /\ \/ sig = "CONNECTED" /\ hostRelay[id] = "connecting"
          /\ hostRelay' = [hostRelay EXCEPT ![id] = "open"]
       \/ sig = "DISCONNECTED" /\ hostRelay[id] \in {"connecting", "open", "closing"}
          /\ hostRelay' = [hostRelay EXCEPT ![id] = "closed"]
    /\ IF ~RelayGetById(id)
       THEN UNCHANGED <<relay, eventsPending>>
       ELSE /\ IF sig = "DISCONNECTED" THEN RelayDisconnectCb
                                        ELSE RelayConnectedCb
            /\ ProcessWishCore
    /\ UNCHANGED <<ctx, resolverList, nextResolveId, dnsReq, answered,
                   hostConn, honored, dnsOpens>>

\* Java_..._feedData(connection_id, bytes) from the connection's reader
\* thread: unknown id: return; otherwise wish_core_feed, a NEW_DATA event
\* through wish_message_processor_notify, and drain
FeedData(cid) ==
    /\ hostConn[cid] = "open"
    /\ IF LookupCtx(cid) = NoSlot
       THEN UNCHANGED eventsPending
       ELSE ProcessWishCore
    /\ UNCHANGED <<ctx, relay, resolverList, nextResolveId, dnsReq, answered,
                   hostConn, hostRelay, honored, dnsOpens>>

\* Java_..._processConnections and reportPeriodic: drain the event queue
ProcessConnections ==
    /\ ProcessWishCore
    /\ UNCHANGED <<ctx, relay, resolverList, nextResolveId, dnsReq, answered,
                   hostConn, hostRelay, honored, dnsOpens>>

-----------------------------------------------------------------------------
Init ==
    /\ ctx = [s \in Slots |-> [gen |-> 0, state |-> "FREE"]]
    /\ relay = [state |-> "IDLE", sockfd |-> 0]
    /\ resolverList = <<>>
    /\ nextResolveId = 0
    /\ dnsReq = {}
    /\ answered = {}
    /\ hostConn = [c \in ConnId |-> "none"]
    /\ hostRelay = [i \in RelaySocks |-> "none"]
    /\ eventsPending = FALSE
    /\ honored = [i \in ResolveIds |-> 0]
    /\ dnsOpens = {}

Next ==
    \/ \E s \in Slots :
          \/ WishOpenConnectionDns(s)
          \/ WishOpenConnectionIp(s)
          \/ WishCloseConnection(s)
          \/ CoreReclaim(s)
          \/ AcceptServerConnection(s)
    \/ \E isName \in BOOLEAN : WishRelayClientOpen(isName)
    \/ WishRelayClientClose
    \/ \E id \in ResolveIds, ok \in BOOLEAN : DnsResolvingCompleted(id, ok)
    \/ \E cid \in ConnId, sig \in Sigs : HostConnSignal(cid, sig)
    \/ \E cid \in ConnId : FeedData(cid)
    \/ \E id \in RelaySocks, sig \in Sigs : HostRelaySignal(id, sig)
    \/ ProcessConnections

\* The host answers every resolution it was asked for (startDnsResolving
\* runs the lookup to completion on its own thread).
\* A TCP connect the host starts ends in a connected or a disconnected
\* signal (the Java socket connect times out).
Fairness ==
    /\ \A id \in ResolveIds :
          WF_vars(id \in dnsReq /\ \E ok \in BOOLEAN : DnsResolvingCompleted(id, ok))
    /\ \A cid \in ConnId :
          WF_vars(hostConn[cid] = "connecting" /\ \E sig \in Sigs : HostConnSignal(cid, sig))

Spec == Init /\ [][Next]_vars /\ Fairness

-----------------------------------------------------------------------------
TypeOK ==
    /\ ctx \in [Slots -> [gen : 0 .. MaxGen, state : CtxStates]]
    /\ relay \in [state : RelayStates, sockfd : 0 .. MaxRelaySocks]
    /\ \A i \in 1 .. Len(resolverList) :
          resolverList[i].id \in ResolveIds
          /\ resolverList[i].conn \in Slots \cup {NoSlot}
          /\ resolverList[i].relay = (resolverList[i].conn = NoSlot)
    /\ nextResolveId \in 0 .. MaxResolves
    /\ dnsReq \subseteq ResolveIds /\ answered \subseteq ResolveIds
    /\ hostConn \in [ConnId -> SockStates]
    /\ hostRelay \in [RelaySocks -> SockStates]
    /\ eventsPending \in BOOLEAN
    /\ honored \in [ResolveIds -> Nat]


\* Idempotence (spec 4.3, 8): a resolve id is acted on at most once, however
\* often the host delivers its completion; the record removal in
\* dnsResolvingCompleted is what guarantees it.
HonoredOnce == \A id \in ResolveIds : honored[id] <= 1

\* resolver_list holds a record exactly for the resolutions the host still
\* owes an answer: no completion path leaks a record, and no request is
\* issued without one (enqueue_dns_resolving / dnsResolvingCompleted).
RecordsMatchOutstanding ==
    {resolverList[i].id : i \in 1 .. Len(resolverList)} = dnsReq

\* Every open a DNS completion issues goes to the connection or relay that
\* asked for the resolution and is still waiting for it (spec 4.3: "must
\* not dereference a stale target"); the record holds a raw conn pointer.
DnsOpensReachRequester == \A o \in dnsOpens : o.waiting

\* After a JNI entry point returns, the core's event queue is empty (spec
\* 4.2, 4.3 step 5); dnsResolvingCompleted's failure branch does not drain.
NoStrandedEvents == ~eventsPending

\* A connection waiting for name resolution eventually stops waiting:
\* the DNS result either starts a connect that the host completes or fails
\* the connection (enqueue_dns_resolving, dnsResolvingCompleted, signalEvent).
ResolvingEnds ==
    \A s \in Slots : ctx[s].state = "RESOLVING" ~> ctx[s].state # "RESOLVING"

=============================================================================
