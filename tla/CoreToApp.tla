------------------------------ MODULE CoreToApp ------------------------------
(***************************************************************************)
(* send_core_to_app of jni_core_service_ipc.c: the core hands a payload    *)
(* for an app to the bridge, on whichever Java thread is running the core. *)
(* With DETECT_WISH_RPC_ERROR_63 the bridge first looks into the BSON      *)
(* frame for an RPC error whose data object has code 63; it then calls     *)
(* the app's receiveCoreToApp with the payload, and afterwards, if the     *)
(* code was found, close_wish_service() (requestWishCoreServiceClose).     *)
(*                                                                         *)
(* A BSON document is a sequence of elements [key, type, num, sub]: num is *)
(* the value of an INT or STRING element (a STRING holds the digits), sub  *)
(* the elements of an embedded OBJECT.  The byte encoding is left out: the *)
(* inspector only reads keys, types and values through the bson iterator.  *)
(*                                                                         *)
(* register_core_bridge sets the static core_bridge_instance that both     *)
(* calls use.  send_core_to_app passes it to GetObjectClass without a NULL *)
(* check; on a NULL reference the JNI call aborts the process (CheckJNI) or *)
(* faults, so both builds end in the process dying: aborted.               *)
(***************************************************************************)
EXTENDS Naturals, Sequences, SequencesExt

CONSTANTS
    Threads,        \* Java threads on which the core may call send_core_to_app
    PayloadDocs,    \* payloads the core sends in a behaviour
    MaxSends        \* bound: payloads sent in a behaviour

ASSUME MaxSends \in Nat

VARIABLES
    pc,             \* [Threads -> "idle" | "deliver" | "close"]
    cur,            \* [Threads -> index of the payload being sent, or 0]
    requestClose,   \* [Threads -> the local request_close]
    payloads,       \* the payloads the core handed over, in order (ghost)
    log,            \* what happened to each payload, in order: [ev, id]
    bridgeRef,      \* core_bridge_instance: "null" or "ref"
    aborted         \* the process died in a JNI call on a NULL reference

vars == <<pc, cur, requestClose, payloads, log, bridgeRef, aborted>>

-----------------------------------------------------------------------------
(* The bson iterator, restricted to the calls the inspector makes          *)

\* bson_find_from_buffer: the type of the first element with key k, or EOO
BsonFind(doc, k) ==
    LET i == SelectInSeq(doc, LAMBDA e : e.key = k)
    IN  IF i = 0 THEN "EOO" ELSE doc[i].type

BsonFindElem(doc, k) == doc[SelectInSeq(doc, LAMBDA e : e.key = k)]

\* bson_iterator_int: the value of a number, 0 for any other type
BsonIteratorInt(e) == IF e.type = "INT" THEN e.num ELSE 0

\* mutant: strncmp(key, "code", 4), which also accepts "codes"
KeyIsCodePrefix(key) == key \in {"code", "codes"}

\* strncmp(key, "code", 5) == 0: the terminating NUL is compared too
KeyIsCode(key) == key = "code"

\* the while loop over the data object's elements: request_close on the
\* first "code" element whose value is 63, then break; otherwise next
RECURSIVE ScanCode(_)
ScanCode(sub) ==
    /\ sub # <<>>
    /\ \/ KeyIsCode(Head(sub).key) /\ BsonIteratorInt(Head(sub)) = 63
       \/ ScanCode(Tail(sub))

\* the DETECT_WISH_RPC_ERROR_63 block: "err" is an INT, "data" an OBJECT,
\* and the scan of data finds code 63
Inspect(doc) ==
    /\ BsonFind(doc, "err") = "INT"
    /\ BsonFind(doc, "data") = "OBJECT"
    /\ ScanCode(BsonFindElem(doc, "data").sub)

-----------------------------------------------------------------------------
\* mutant: request_close is not acted on after the delivery
DeliverNoClose(t) ==
    /\ pc[t] = "deliver"
    /\ log' = Append(log, [ev |-> "deliver", id |-> cur[t]])
    /\ pc' = [pc EXCEPT ![t] = "idle"]
    /\ UNCHANGED <<cur, requestClose, payloads, bridgeRef, aborted>>

\* mutant: the payload gets the index of the previous one
SendCoreToAppPrevId(t, d) ==
    /\ pc[t] = "idle" /\ Len(payloads) < MaxSends /\ bridgeRef = "ref"
    /\ payloads' = Append(payloads, d)
    /\ pc' = [pc EXCEPT ![t] = "deliver"]
    /\ cur' = [cur EXCEPT ![t] = Len(payloads)]
    /\ requestClose' = [requestClose EXCEPT ![t] = Inspect(d)]
    /\ UNCHANGED <<log, bridgeRef, aborted>>

\* send_core_to_app(wsid, d) on thread t: getJNIEnv, the inspector, the
\* receiveCoreToApp method id.  If the env or the method id cannot be had
\* the function returns and the payload is dropped (logged only).  With
\* core_bridge_instance NULL, GetObjectClass ends the process.
SendCoreToApp(t, d) ==
    /\ pc[t] = "idle" /\ Len(payloads) < MaxSends
    /\ payloads' = Append(payloads, d)
    /\ \/ /\ bridgeRef = "ref"
          /\ pc' = [pc EXCEPT ![t] = "deliver"]
          /\ cur' = [cur EXCEPT ![t] = Len(payloads) + 1]
          /\ requestClose' = [requestClose EXCEPT ![t] = Inspect(d)]
          /\ UNCHANGED <<log, aborted>>
       \/ /\ log' = Append(log, [ev |-> "drop", id |-> Len(payloads) + 1])
          /\ UNCHANGED <<pc, cur, requestClose, aborted>>
       \/ /\ bridgeRef = "null"
          /\ aborted' = TRUE
          /\ UNCHANGED <<pc, cur, requestClose, log>>
    /\ UNCHANGED bridgeRef

\* NewByteArray/SetByteArrayRegion of wsid and payload, then
\* CallVoidMethod(receiveCoreToApp): the app has the payload
Deliver(t) ==
    /\ pc[t] = "deliver"
    /\ log' = Append(log, [ev |-> "deliver", id |-> cur[t]])
    /\ pc' = [pc EXCEPT ![t] = IF requestClose[t] THEN "close" ELSE "idle"]
    /\ UNCHANGED <<cur, requestClose, payloads, bridgeRef, aborted>>

\* close_wish_service(): CallVoidMethod(requestWishCoreServiceClose); it
\* returns early, with no call, when the env or the method id is missing,
\* or when core_bridge_instance is NULL (a failed re-registration since
\* the delivery)
CloseWishService(t) ==
    /\ pc[t] = "close"
    /\ \/ /\ bridgeRef = "ref"
          /\ log' = Append(log, [ev |-> "close", id |-> cur[t]])
       \/ log' = Append(log, [ev |-> "closeLost", id |-> cur[t]])
    /\ pc' = [pc EXCEPT ![t] = "idle"]
    /\ UNCHANGED <<cur, requestClose, payloads, bridgeRef, aborted>>

\* register_core_bridge: GetJavaVM, then core_bridge_instance =
\* NewGlobalRef(bridge), NULL when out of memory.  A failed GetJavaVM
\* returns with the instance unchanged (a stuttering step).  The previous
\* global reference is never deleted.
RegisterCoreBridge ==
    /\ \E r \in {"null", "ref"} : bridgeRef' = r
    /\ UNCHANGED <<pc, cur, requestClose, payloads, log, aborted>>

-----------------------------------------------------------------------------
Init ==
    /\ pc = [t \in Threads |-> "idle"]
    /\ cur = [t \in Threads |-> 0]
    /\ requestClose = [t \in Threads |-> FALSE]
    /\ payloads = <<>>
    /\ log = <<>>
    /\ bridgeRef = "null"
    /\ aborted = FALSE

\* a dead process takes no more steps
Next ==
    /\ ~aborted
    /\ \/ RegisterCoreBridge
       \/ \E t \in Threads :
            \/ \E d \in PayloadDocs : SendCoreToApp(t, d)
            \/ Deliver(t)
            \/ CloseWishService(t)

Spec == Init /\ [][Next]_vars

-----------------------------------------------------------------------------
(* The reference: spec 4.6 and Scenario E                                  *)

\* an RPC error frame whose data object holds a numeric "code" equal to 63
Fatal(doc) ==
    \E i, j \in DOMAIN doc :
        /\ doc[i].key = "err"
        /\ doc[j].key = "data" /\ doc[j].type = "OBJECT"
        /\ \E e \in ToSet(doc[j].sub) :
              e.key = "code" /\ e.type = "INT" /\ e.num = 63

\* what the host may see of one payload once send_core_to_app has returned:
\* nothing (boundary unavailable), or the unmodified payload, followed when
\* it is fatal by exactly one shutdown request (or its failed attempt)
Outcomes(doc) ==
    {<<"drop">>} \cup
    IF Fatal(doc) THEN {<<"deliver", "close">>, <<"deliver", "closeLost">>}
                  ELSE {<<"deliver">>}

\* the events of payload id, in log order
EventsOf(id) == [k \in 1 .. Len(SelectSeq(log, LAMBDA r : r.id = id)) |->
                    SelectSeq(log, LAMBDA r : r.id = id)[k].ev]

\* a thread is inside the call for payload id, or the process died in it
InFlight(id) ==
    \/ \E t \in Threads : pc[t] # "idle" /\ cur[t] = id
    \/ aborted /\ id = Len(payloads)

\* the frames the inspector is checked on: an "err" or "ack" frame (the id
\* is an int, as the core writes it) with or without a "data" element, in
\* either order; data an INT or an object of up to two distinctly keyed
\* INT or STRING elements named code, codes or msg
SubKeys == {"code", "codes", "msg"}
Scalar == [key : SubKeys, type : {"INT", "STRING"}, num : {63, 64}, sub : {<<>>}]
SubDocs == {<<>>} \cup {<<e>> : e \in Scalar}
           \cup {s \in Scalar \X Scalar : s[1].key # s[2].key}
DataElems == {[key |-> "data", type |-> "OBJECT", num |-> 0, sub |-> s] : s \in SubDocs}
             \cup {[key |-> "data", type |-> "INT", num |-> 63, sub |-> <<>>]}
RpcElem(r) == [key |-> r, type |-> "INT", num |-> 1, sub |-> <<>>]
AllDocs == UNION {{<<RpcElem(r)>>, <<RpcElem(r), d>>, <<d, RpcElem(r)>>} :
                      r \in {"err", "ack"}, d \in DataElems}

-----------------------------------------------------------------------------
Ids == 1 .. MaxSends

TypeOK ==
    /\ pc \in [Threads -> {"idle", "deliver", "close"}]
    /\ cur \in [Threads -> 0 .. MaxSends]
    /\ requestClose \in [Threads -> BOOLEAN]
    /\ payloads \in Seq(PayloadDocs) /\ Len(payloads) <= MaxSends
    /\ \A k \in DOMAIN log :
          log[k] \in [ev : {"drop", "deliver", "close", "closeLost"}, id : Ids]
    /\ bridgeRef \in {"null", "ref"}
    /\ aborted \in BOOLEAN

\* Scenario E, on every interleaving of the threads sending: for every
\* payload the core has handed to send_core_to_app, the host has seen a
\* prefix of one allowed outcome, and the whole outcome once no thread is
\* still inside the call for it.  A fatal payload is delivered before the
\* shutdown request and gets exactly one; any other payload gets none.
DeliveredThenShutdown ==
    \A id \in 1 .. Len(payloads) :
        IF InFlight(id)
        THEN \E o \in Outcomes(payloads[id]) : IsPrefix(EventsOf(id), o)
        ELSE EventsOf(id) \in Outcomes(payloads[id])

\* The DETECT_WISH_RPC_ERROR_63 block agrees with spec 4.6 on every frame
\* above and on every payload sent: it requests the shutdown exactly for an error frame whose data
\* object holds code 63, and never for "codes", a string, another code, a
\* reply frame or a data element that is not an object.
InspectorMatchesSpec ==
    \A d \in AllDocs \cup ToSet(payloads) : Inspect(d) = Fatal(d)

=============================================================================
