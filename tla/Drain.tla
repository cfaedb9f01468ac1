------------------------------- MODULE Drain -------------------------------
(***************************************************************************)
(* process_wish_core() of android_wish.c and its nesting on one thread.    *)
(* The loop takes the core's next event (wish_get_next_event) and runs     *)
(* wish_message_processor_task on it until the queue is empty.  A handler  *)
(* may post further events, and may call a port adapter                   *)
(* (wish_open_connection, wish_close_connection, port_relay_client_open,   *)
(* wish_relay_client_close, wish_send_advertizement), which ends with its  *)
(* own process_wish_core(): the inner loop drains the queue while the      *)
(* outer handler is still in progress.  The call stack is a sequence of    *)
(* frames, the outermost first.                                            *)
(***************************************************************************)
EXTENDS Naturals, Sequences, SequencesExt

CONSTANTS
    MaxEvents,      \* bound: events posted in a behaviour
    MaxDepth        \* bound: frames on the call stack (adapter calls
                    \* from a handler stop one frame below it)

ASSUME MaxEvents \in Nat \ {0} /\ MaxDepth \in Nat \ {0}

Events == 1 .. MaxEvents

VARIABLES
    queue,      \* the core's event queue, oldest first
    stack,      \* frames: [kind |-> "drain"] or [kind |-> "handler", ev]
    posted      \* events posted so far (the next one is posted + 1)

vars == <<queue, stack, posted>>

Top == stack[Len(stack)]
DrainFrame == [kind |-> "drain"]
HandlerFrame(e) == [kind |-> "handler", ev |-> e]

\* wish_message_processor_notify / any core step that posts an event
Post == /\ posted < MaxEvents
        /\ posted' = posted + 1
        /\ queue' = Append(queue, posted + 1)

-----------------------------------------------------------------------------
\* a JNI entry point on an idle thread (feedLocalDiscoveryData:
\* wish_ldiscover_feed; likewise feedData, signalEvent, relayControlFeed,
\* reportPeriodic): the core is fed and posts an event, process_wish_core()
EntryPoint ==
    /\ stack = <<>>
    /\ Post
    /\ stack' = <<DrainFrame>>

\* processConnections: process_wish_core() alone
ProcessConnections ==
    /\ stack = <<>>
    /\ stack' = <<DrainFrame>>
    /\ UNCHANGED <<queue, posted>>

\* mutant: wish_message_processor_task is called without the ev != NULL
\* check (NoEvent stands for the NULL event)
NoEvent == 0

DrainStepNoNullCheck ==
    /\ stack # <<>> /\ Top.kind = "drain"
    /\ IF queue # <<>>
       THEN /\ stack' = Append(stack, HandlerFrame(Head(queue)))
            /\ queue' = Tail(queue)
       ELSE /\ stack' = Append(stack, HandlerFrame(NoEvent))
            /\ UNCHANGED queue
    /\ UNCHANGED posted

\* the loop of process_wish_core(): the next event goes to
\* wish_message_processor_task; no event left: break and return
DrainStep ==
    /\ stack # <<>> /\ Top.kind = "drain"
    /\ IF queue # <<>>
       THEN /\ stack' = Append(stack, HandlerFrame(Head(queue)))
            /\ queue' = Tail(queue)
       ELSE /\ stack' = Front(stack)
            /\ UNCHANGED queue
    /\ UNCHANGED posted

\* the core's handler posts another event
HandlerPosts ==
    /\ stack # <<>> /\ Top.kind = "handler"
    /\ Post
    /\ UNCHANGED stack

\* the handler calls a port adapter (wish_send_advertizement: enter, the
\* startBroadcastAutodiscovery call, exit); the adapter then runs
\* process_wish_core() before returning to the handler
HandlerCallsAdapter ==
    /\ stack # <<>> /\ Top.kind = "handler"
    /\ Len(stack) + 1 < MaxDepth
    /\ stack' = Append(stack, DrainFrame)
    /\ UNCHANGED <<queue, posted>>

\* wish_message_processor_task returns to the loop that called it
HandlerReturns ==
    /\ stack # <<>> /\ Top.kind = "handler"
    /\ stack' = Front(stack)
    /\ UNCHANGED <<queue, posted>>

-----------------------------------------------------------------------------
Init ==
    /\ queue = <<>>
    /\ stack = <<>>
    /\ posted = 0

Next ==
    \/ EntryPoint \/ ProcessConnections
    \/ DrainStep \/ HandlerPosts \/ HandlerCallsAdapter \/ HandlerReturns

Spec == Init /\ [][Next]_vars

-----------------------------------------------------------------------------
TypeOK ==
    /\ queue \in Seq(Events)
    /\ \A i \in 1 .. Len(stack) :
          stack[i] = DrainFrame \/ \E e \in Events : stack[i] = HandlerFrame(e)
    /\ posted \in 0 .. MaxEvents

=============================================================================
