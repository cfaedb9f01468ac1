------------------------------- MODULE Monitor -------------------------------
(***************************************************************************)
(* Java threads entering the native bridge, and the Java monitor of the    *)
(* WishOsJni instance (enter/exit_WishOsJni_monitor, android_wish.c).     *)
(* A thread enters through a JNI entry point and runs core code: either    *)
(* without the monitor (feedData, signalEvent, the relay and DNS entry     *)
(* points, reportPeriodic, processConnections), or holding it across the   *)
(* whole core call (jni_receive_app_to_core, remove_service).  While in    *)
(* the core it may call port adapters, each doing enter, one call into     *)
(* Java, exit; and send_core_to_app, which calls the app's                 *)
(* receiveCoreToApp without touching the monitor.  The monitor is          *)
(* reentrant: an owner and a recursion count.                              *)
(***************************************************************************)
EXTENDS Naturals, FiniteSets

CONSTANTS
    Threads,    \* Java threads calling into the bridge
    None,       \* no owner
    MaxCalls    \* bound: adapter or app calls per core run

ASSUME None \notin Threads /\ MaxCalls \in Nat

VARIABLES
    owner,      \* thread owning the WishOsJni monitor, or None
    count,      \* its recursion count
    pc,         \* [Threads -> step]
    outer,      \* [Threads -> the entry point itself holds the monitor]
    callsLeft   \* [Threads -> adapter or app calls the core may still make]

vars == <<owner, count, pc, outer, callsLeft>>

Pcs == {"idle", "enterOuter", "core", "enter", "host", "exit", "app",
        "exitOuter"}

-----------------------------------------------------------------------------
(* enter_WishOsJni_monitor / exit_WishOsJni_monitor                       *)

\* MonitorEnter(wishOsJniInstance): blocks while another thread owns it
MonitorEnter(t) ==
    /\ owner \in {None, t}
    /\ owner' = t
    /\ count' = count + 1

\* MonitorExit(wishOsJniInstance)
MonitorExit(t) ==
    /\ owner = t
    /\ count' = count - 1
    /\ owner' = IF count = 1 THEN None ELSE t

-----------------------------------------------------------------------------
(* JNI entry points                                                        *)

\* feedData (and every other WishOsJni entry point): no monitor; the core
\* is fed and process_wish_core() runs the core's handlers
FeedData(t) ==
    /\ pc[t] = "idle"
    /\ pc' = [pc EXCEPT ![t] = "core"]
    /\ outer' = [outer EXCEPT ![t] = FALSE]
    /\ callsLeft' = [callsLeft EXCEPT ![t] = MaxCalls]
    /\ UNCHANGED <<owner, count>>

\* jni_receive_app_to_core / remove_service: enter the monitor, run the core
ReceiveAppToCore(t) ==
    /\ pc[t] = "idle"
    /\ pc' = [pc EXCEPT ![t] = "enterOuter"]
    /\ outer' = [outer EXCEPT ![t] = TRUE]
    /\ callsLeft' = [callsLeft EXCEPT ![t] = MaxCalls]
    /\ UNCHANGED <<owner, count>>

EnterOuter(t) ==
    /\ pc[t] = "enterOuter"
    /\ MonitorEnter(t)
    /\ pc' = [pc EXCEPT ![t] = "core"]
    /\ UNCHANGED <<outer, callsLeft>>

\* the core returns to the entry point
CoreReturns(t) ==
    /\ pc[t] = "core"
    /\ pc' = [pc EXCEPT ![t] = IF outer[t] THEN "exitOuter" ELSE "idle"]
    /\ UNCHANGED <<owner, count, outer, callsLeft>>

\* mutant: the monitor is left held when wish_core_handle_app_to_core returns
ExitOuterSkip(t) ==
    /\ pc[t] = "exitOuter"
    /\ pc' = [pc EXCEPT ![t] = "idle"]
    /\ UNCHANGED <<owner, count, outer, callsLeft>>

\* exit_WishOsJni_monitor() after wish_core_handle_app_to_core
ExitOuter(t) ==
    /\ pc[t] = "exitOuter"
    /\ MonitorExit(t)
    /\ pc' = [pc EXCEPT ![t] = "idle"]
    /\ UNCHANGED <<outer, callsLeft>>

-----------------------------------------------------------------------------
(* Calls the core makes                                                    *)

\* a port adapter (write_to_socket, wish_open_connection, my_fs_*, ...):
\* JNI env and method id, then enter_WishOsJni_monitor()
CoreCallsAdapter(t) ==
    /\ pc[t] = "core" /\ callsLeft[t] > 0
    /\ callsLeft' = [callsLeft EXCEPT ![t] = @ - 1]
    /\ pc' = [pc EXCEPT ![t] = "enter"]
    /\ UNCHANGED <<owner, count, outer>>

\* mutant: the adapter calls into Java without entering the monitor
AdapterEnterSkip(t) ==
    /\ pc[t] = "enter"
    /\ pc' = [pc EXCEPT ![t] = "host"]
    /\ UNCHANGED <<owner, count, outer, callsLeft>>

AdapterEnter(t) ==
    /\ pc[t] = "enter"
    /\ MonitorEnter(t)
    /\ pc' = [pc EXCEPT ![t] = "host"]
    /\ UNCHANGED <<outer, callsLeft>>

\* the Call<Type>Method into WishOsJni returns
HostReturns(t) ==
    /\ pc[t] = "host"
    /\ pc' = [pc EXCEPT ![t] = "exit"]
    /\ UNCHANGED <<owner, count, outer, callsLeft>>

\* mutant: exit_WishOsJni_monitor() called twice on the adapter's path
AdapterExitTwice(t) ==
    /\ pc[t] = "exit"
    /\ owner = t
    /\ count' = count - 2
    /\ owner' = IF count <= 2 THEN None ELSE t
    /\ pc' = [pc EXCEPT ![t] = "core"]
    /\ UNCHANGED <<outer, callsLeft>>

\* exit_WishOsJni_monitor(); back in the core
AdapterExit(t) ==
    /\ pc[t] = "exit"
    /\ MonitorExit(t)
    /\ pc' = [pc EXCEPT ![t] = "core"]
    /\ UNCHANGED <<outer, callsLeft>>

\* send_core_to_app: CallVoidMethod(receiveCoreToApp) with the monitor
\* calls commented out around it, then back in the core
SendCoreToApp(t) ==
    /\ pc[t] = "core" /\ callsLeft[t] > 0
    /\ callsLeft' = [callsLeft EXCEPT ![t] = @ - 1]
    /\ pc' = [pc EXCEPT ![t] = "app"]
    /\ UNCHANGED <<owner, count, outer>>

AppReturns(t) ==
    /\ pc[t] = "app"
    /\ pc' = [pc EXCEPT ![t] = "core"]
    /\ UNCHANGED <<owner, count, outer, callsLeft>>

-----------------------------------------------------------------------------
Init ==
    /\ owner = None
    /\ count = 0
    /\ pc = [t \in Threads |-> "idle"]
    /\ outer = [t \in Threads |-> FALSE]
    /\ callsLeft = [t \in Threads |-> 0]

Next ==
    \E t \in Threads :
        \/ FeedData(t) \/ ReceiveAppToCore(t) \/ EnterOuter(t)
        \/ CoreReturns(t) \/ ExitOuter(t)
        \/ CoreCallsAdapter(t) \/ AdapterEnter(t) \/ HostReturns(t)
        \/ AdapterExit(t) \/ SendCoreToApp(t) \/ AppReturns(t)

Spec == Init /\ [][Next]_vars

-----------------------------------------------------------------------------
TypeOK ==
    /\ owner \in Threads \cup {None}
    /\ count \in Nat
    /\ pc \in [Threads -> Pcs]
    /\ outer \in [Threads -> BOOLEAN]
    /\ callsLeft \in [Threads -> 0 .. MaxCalls]

\* The monitor token (spec 3, 4.4): no two threads are inside a call into
\* the WishOsJni object at once, whatever the nesting of entry points and
\* adapters around them.
HostCallsExclusive ==
    \A t1, t2 \in Threads : t1 # t2 => ~(pc[t1] = "host" /\ pc[t2] = "host")

\* The monitor is released on every path (spec 4.4): its recursion count is
\* exactly the number of enters the owner has not yet exited, and a thread
\* back out of the bridge owns nothing.
MonitorBalanced ==
    /\ (owner = None) = (count = 0)
    /\ owner # None =>
         count = (IF outer[owner] /\ pc[owner] # "enterOuter" THEN 1 ELSE 0)
                 + (IF pc[owner] \in {"host", "exit"} THEN 1 ELSE 0)
    /\ \A t \in Threads : pc[t] = "idle" => owner # t

\* The monitor token invariant (spec 3): the engine's message-processing
\* loop never runs while a different thread is inside an outbound call into
\* the host.  process_wish_core() is run by feedData and the other entry
\* points without the monitor, so it can overlap an adapter's host call.
MonitorToken ==
    \A t1, t2 \in Threads : t1 # t2 => ~(pc[t1] = "core" /\ pc[t2] = "host")

=============================================================================
