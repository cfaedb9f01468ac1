# TLA+ models of the android-wish JNI port layer

This directory models the native bridge in `src/app/src/main/jni`. The bridge sits between the Java
service, which owns sockets, files and DNS, and the Wish core, which owns the protocol and does no
I/O of its own. The core is a separate library and is not in this repository, so it appears in the
models only as an environment that calls the port's functions. The Java side appears the same way:
it delivers DNS answers and socket signals. All model checking is done with TLC.

## 1. Inventory

### Components and their state

| Component | Source | State it keeps | Operations |
|---|---|---|---|
| DNS resolution correlator | `android_wish.c` 86-136, 995-998, 1156-1234 | `resolver_list` (a singly linked list of `resolve_data`, each with `conn` XOR `relay`), the static `next_resolve_id` | `enqueue_dns_resolving` (called by `wish_open_connection_dns` and `port_dns_start_resolving_relay_client`), `dnsResolvingCompleted` |
| Connection adapters | `android_wish.c` 248-316, 356-444, 460-555, 601-617 | no state of their own; they write `ctx->remote_port`, `via_relay`, `curr_transport_state`, `context_state` of the core's contexts | `wish_open_connection`, `wish_open_connection_dns`, `wish_close_connection`, `acceptServerConnection`, `signalEvent`, `feedData`, `write_to_socket`, `getRxBufferFree`, `isRingbufferEmpty` |
| Relay control adapters | `android_wish.c` 906-1111 | they write `relay->curr_state`, `relay->sockfd` and `relay->send` of the single relay client | `wish_relay_client_open`, `port_relay_client_open`, `wish_relay_client_close`, `relayControlSignalEvent`, `relayControlFeed`, `relay_control_send_data` |
| Identifier registry | `android_wish.c` 175-183; the core's `wish_core_lookup_ctx_by_connection_id` | the connection ids are minted by the core, relay and file ids by the host | the lookups; a miss is a logged no-op |
| Event drain loop | `android_wish.c` 163-173 | the core's event queue | `process_wish_core`, run at the end of nearly every entry point and every adapter |
| Cross-boundary monitor | `android_wish.c` 1113-1150, `jni_core_service_ipc.c` 104-106, 226-228 | the Java monitor of the `WishOsJni` instance (reentrant) | `enter/exit_WishOsJni_monitor`, wrapped around each call into Java; held across `wish_core_handle_app_to_core` |
| File system adapters | `android_wish.c` 619-856 | none (the host holds the file ids) | `my_fs_open/close/read/write/lseek/rename/remove` |
| Local discovery, host address | `android_wish.c` 323-353, 557-589, 858-901 | none | `feedLocalDiscoveryData`, `wish_send_advertizement`, `wish_get_host_ip_str`, `wish_get_host_port` |
| App IPC and error-63 inspector | `jni_core_service_ipc.c` | `javaVM`, `core_bridge_instance`, `core` | `jni_receive_app_to_core`, `send_core_to_app` (a BSON scan for `err`, `data.code == 63`, then `close_wish_service`), `remove_service` |
| Registration | `android_wish.c` 138-160, 195-241; `jni_core_service_ipc.c` 48-51, 195-212 | the global references | `register`, `unRegister`, `register_core_bridge`, `core_service_ipc_init` |

### How they interact

Every entry point is a JNI call made by some Java thread. There is no native thread. The entry points
are `feedData`, `signalEvent`, `dnsResolvingCompleted`, `relayControl*`, `reportPeriodic`,
`processConnections` and `jni_receive_app_to_core`. Each one feeds the core or looks up an id, and
then drains the core's events. While it drains, the core calls the port's adapters synchronously.
Each adapter makes one call into Java under the monitor, and most adapters drain again before
returning, so drains nest. A DNS request is fire-and-forget: `startDnsResolving(qname, id)` returns
at once, and the answer arrives later as `dnsResolvingCompleted(id, ip)`, most likely on another
Java thread.

### What is hard

* **Concurrency.** The entry points are not serialized. The monitor only guards the calls into Java.
  `resolver_list` and `next_resolve_id` are shared between the core-driving thread and the
  DNS-result thread with no lock.
* **Stale targets.** A pending record points at a connection slot. That connection can be closed,
  or its slot reused, before the answer arrives.
* **Unreliable host answers.** Answers can be duplicated, can come for unknown ids, or can report
  failure.
* **Order of host calls and stores.** `relay->sockfd` is stored only after the host call that
  creates the socket returns, but the host may signal on that socket before then.
* **Nested drains.** The core's event handlers are re-entered.
* **Error paths.** Some error paths return early without draining.

### Properties that make each component correct

* **Correlator.**
  * Every answer is acted on at most once.
  * No pending record is leaked or lost.
  * A record always names exactly one target.
  * Every waiting connection or relay eventually stops waiting.
  * An answer only ever acts on the connection or relay that asked for it.
* **Drain.** Handlers nest through adapter drains; the source and the spec accept this. The
  model explores the nesting. Exhaustion on return holds by the shape of the loop (its only exit
  is the empty-queue `break`), and termination depends on the core, so neither is checked as a
  property.
* **Monitor.**
  * Calls into Java are mutually exclusive across threads.
  * Every enter has exactly one exit on every path.
  * Holding the monitor across a call into the app does not deadlock.
* **Relay.**
  * A host signal for the current control socket is never dropped.
  * At most one control socket is open per relay.
* **Connection adapters.**
  * A second close makes no second host close.
  * A short write is logged and not escalated (spec 7).
* **Inspector.** A payload is delivered unchanged, followed by exactly one shutdown request if and
  only if it carries error code 63.

## 2. Plan

Modules, in order of importance:

1. **`Bridge`** (done). The correlator together with the connection and relay adapters it
   dispatches to. Each handler is one atomic step.
2. **`ResolverList` + `ResolverQueue`** (done). The unlocked list at the level of its memory
   accesses. `ResolverQueue` is the abstract list, and `ResolverList` refines it when calls do not
   overlap. A second configuration has two appenders, for duplicate resolve ids.
3. **`Monitor`** (done, without the app-side deadlock). Java threads and the reentrant monitor.
4. **`RelayControl`** (done). `port_relay_client_open` split into its host call and the store of
   `sockfd`, with a host listener signalling by id.
5. **`Drain`** (done). Nested `process_wish_core` calls made from adapters inside
   `wish_message_processor_task`.
6. **`CoreToApp`** (done). The error-63 inspector as a recursive operator, checked against a
   reference definition, plus the delivery and shutdown sequence.
7. **`WishPort`** (open). Composes `Bridge` with `Monitor` and shows the two-thread versions of the
   `Bridge` properties.

Still open: a count of host close calls, for the idempotent close of spec 8.

## 3. What is modelled

### `Bridge` (android_wish.c)

Variables:

* `ctx` is the core's connection pool. Each slot has an allocation number `gen`, so a connection
  id is the pair `<<slot, gen>>` (the core mints ids). Each slot also has one state, which merges
  `context_state` and `curr_transport_state`.
* `relay` is the single relay client: its `curr_state` and `sockfd`.
* `resolverList` and `nextResolveId` are the code's globals. Each record also carries a ghost
  `req`, the connection id that asked.
* `dnsReq` and `answered` hold the host's DNS work.
* `hostConn` and `hostRelay` hold the host's sockets.
* `eventsPending` is the core's queue.
* `honored` and `dnsOpens` are ghosts.

Actions:

* The port functions called by the core: `WishOpenConnectionDns`, `WishOpenConnectionIp`,
  `WishCloseConnection`, `AcceptServerConnection`, `WishRelayClientOpen` and
  `WishRelayClientClose`. Each includes the core's allocation of the slot and the trailing drain.
* The JNI entry points called by the host: `DnsResolvingCompleted`, `HostConnSignal`
  (`signalEvent`), `FeedData`, `HostRelaySignal` (`relayControlSignalEvent`) and
  `ProcessConnections`. `FeedData` drops data for an unknown connection id without draining.
* The core's reactions, modelled from the spec: `SignalTcpEvent`, the relay callbacks and
  `CoreReclaim`. These are marked `spec_modelled` in the map.

`getJNIEnv` failure branches are not modelled: every entry point runs on a Java thread, so the
thread is always attached. Failed method lookups are not modelled either, because the Java class
is fixed.

### `ResolverList` / `ResolverQueue`

`ResolverList` models the list at the level of single reads and writes. Appender threads run
`enqueue_dns_resolving`: the load and the store of `next_resolve_id++`, then `calloc`, then utlist's
`LL_APPEND` as a head read, a walk, and a link or head store, then the host call. Completer threads
run the `LL_FOREACH_SAFE` / `LL_DELETE` / `free` loop of `dnsResolvingCompleted`. Records are
allocation numbers 1..MaxNodes. A freed record keeps its contents, since no allocation reuses it
within the bound.

`ResolverQueue` is the abstract list: add at the tail, or unlink one record.
`RefinesResolverQueue` instantiates it with `pending <- ReachSeq`, the records reachable from
`head`.

### `Monitor` (android_wish.c, jni_core_service_ipc.c)

Variables:

* `owner` and `count` are the Java monitor of `wishOsJniInstance`. A JNI monitor is reentrant, so it
  has an owner and a recursion count.
* `pc[t]` is where thread `t` is: idle, running core code, at an adapter's enter, in its call into
  Java, at its exit, or in the app's `receiveCoreToApp`.
* `outer[t]` records whether the entry point took the monitor itself (`jni_receive_app_to_core`,
  `remove_service`).
* `callsLeft[t]` bounds the adapter and app calls of one core run.

Actions:

* `FeedData` stands for every entry point that drives the core without the monitor.
* `ReceiveAppToCore`, `EnterOuter`, `CoreReturns` and `ExitOuter` model the app entry point.
* `CoreCallsAdapter`, `AdapterEnter`, `HostReturns` and `AdapterExit` model one adapter
  (`write_to_socket` is the mapped one). Every adapter, including the `my_fs_*` ones, has the same
  shape.
* `SendCoreToApp` and `AppReturns` model the call to the app, with the monitor calls commented
  out around it.

### `RelayControl` (android_wish.c)

Variables:

* `relay` is the relay client: its state and `sockfd`.
* `opening` is the control-socket id that `relayControlConnect` has returned and the core thread
  has not yet stored.
* `sock` maps the host's socket ids to their status. The host reuses the id of a closed socket,
  as a file descriptor would be reused.

Actions:

* `WishRelayClientOpen` is the first half of `port_relay_client_open`, up to the return of
  `relayControlConnect`.
* `PortRelayClientOpenStore` is the rest of it: the store of `relay->sockfd`, then the drain.
* `WishRelayClientClose` sets the relay to CLOSING and calls `relayControlCloseConnection`.
* `RelayControlSendData` is `relay_control_send_data` on a CONNECTED relay. It changes no
  state: the bridge returns 0 whatever the host sent.
* `RelayControlSignalEvent` and `RelayControlFeed` are the listener's entry points. Each looks the
  relay up by `sockfd` (`wish_relay_client_get_by_id`) and returns if it does not match.

The constant `SignalAfterReturn` says whether the host's listener can signal a new socket before
`relayControlConnect` has returned. The source does not say; both values are checked.

### `Drain` (android_wish.c)

`stack` is the native call stack of one thread, as a sequence of frames. A `drain` frame is a
running `process_wish_core` loop. A `handler` frame is a `wish_message_processor_task` on one
event. `queue` is the core's event queue.

Actions:

* `EntryPoint` is any JNI entry point that feeds the core and drains.
* `ProcessConnections` drains without feeding.
* `DrainStep` is one turn of the loop: pop an event into a handler, or return when the queue is
  empty.
* `HandlerPosts` and `HandlerReturns` come from the core's handler.
* `HandlerCallsAdapter` is an adapter (`wish_send_advertizement` is the mapped one) whose trailing
  `process_wish_core` pushes a new loop above the running handler.

### `CoreToApp` (jni_core_service_ipc.c)

A BSON document is a sequence of elements `[key, type, num, sub]`. The inspector is translated
call by call:

* `BsonFind` is `bson_find_from_buffer`: the first element with the key.
* `BsonIteratorInt` gives the value of an INT element, and 0 for any other type.
* `KeyIsCode` is `strncmp(key, "code", 5)`.
* `ScanCode` is a RECURSIVE operator for the `while` loop with its `break`.

`Fatal` is the reference, written from spec 4.6: an `err` frame whose `data` object holds a numeric
`code` of 63.

Each thread has a `pc` (idle, deliver, close), the index of its payload, and its local
`request_close`. The actions are:

* `SendCoreToApp`, with the early return when the env or the method id is missing.
* `Deliver`, the `receiveCoreToApp` call.
* `CloseWishService`, which has early returns of its own. It loses the shutdown request when
  `core_bridge_instance` is NULL.
* `RegisterCoreBridge`, the `core_bridge_instance` that `register_core_bridge` stores. It starts
  NULL. A call can set it to a reference, or to NULL when `NewGlobalRef` runs out of memory, and
  it may be called again. `send_core_to_app` passes the instance to `GetObjectClass` with no NULL
  check. On a NULL instance the JNI call aborts the process, whether CheckJNI is on or off, so
  `SendCoreToApp` has a disjunct that sets `aborted`. After that, `Next` takes no more steps.
  `DeliveredThenShutdown` counts the payload whose send aborted as still in flight.

`log` is a ghost. It records what happened to each payload.

## 4. Runs

| Run | Result | What it shows |
|---|---|---|
| `bridge_correlator` (`MC_Bridge.cfg`) | pass, about 190k states | Checks `TypeOK`, `HonoredOnce`, `RecordsMatchOutstanding` and `ResolvingEnds`. Connections are closed, reclaimed and reallocated while resolving, and the host may answer twice. Each answer is acted on at most once. `resolver_list` always holds exactly the ids the host still owes. Every RESOLVING connection eventually leaves that state. |
| `bridge_stale_target` (`MC_Bridge_stale.cfg`) | violation of `DnsOpensReachRequester` | Open by name, then the core closes the connection, then the answer arrives: the bridge asks the host to connect the closed connection. |
| `bridge_failure_drain` (`MC_Bridge_drain.cfg`) | violation of `NoStrandedEvents` | A failed resolution leaves core events queued until the next entry point. |
| `resolver_list_serial` (`MC_ResolverList.cfg`) | pass, about 300 states | Checks `TypeOK`, `NoLostRecord` and `RefinesResolverQueue`. Without overlap, the pointer code implements the abstract list. Unique ids are checked only in the concurrent run below, since with serial calls they restate `next_resolve_id++`. |
| `resolver_list_race` (`MC_ResolverList_race.cfg`) | violation of `NoLostRecord` | The completer loads `head->next`, the appender links a new record after the head, and the completer stores `head = NULL`. The new record is lost. |
| `resolver_list_dup_ids` (`MC_ResolverList_dup.cfg`) | violation of `UniqueResolveIds` | Two appenders both load `next_resolve_id` before either stores it, so both records get id 0. |
| `monitor_discipline` (`MC_Monitor.cfg`) | pass, about 360 states | Checks `TypeOK`, `HostCallsExclusive` and `MonitorBalanced` for two threads with up to two nested calls each. Deadlock is checked: the bridge alone never blocks. |
| `monitor_token` (`MC_Monitor_token.cfg`) | violation of `MonitorToken` | One thread's `feedData` drain is in the core while the other thread's adapter is inside its call into Java. |
| `relay_control` (`MC_RelayControl.cfg`) | pass, about 210 states | Checks `TypeOK`, `AtMostOneControlSocket`, `RelayMirrorsSocket`, `RelayConnectingEnds` and `RelayClosingEnds`, with the listener signalling only after `relayControlConnect` has returned. The relay is opened and closed repeatedly, with socket ids reused. Whenever the relay is CONNECTED, the `sockfd` that `relay_control_send_data` uses names an open host socket. |
| `relay_signal_window` (`MC_RelayControl_window.cfg`) | violation of `RelayConnectingEnds` | The listener signals DISCONNECTED for the new socket before its id is stored. The lookup misses, the signal is dropped, and the relay stays CONNECTING for ever. |
| `drain_exhaustive` (`MC_Drain.cfg`) | pass, 178 states | Checks `TypeOK` only, including that `wish_message_processor_task` never gets a NULL event (the `ev != NULL` check). The run explores handlers that post events and call adapters, with drains nested three deep. The exhaustion and termination properties that were here held by the shape of the loop or by the fairness assumed, so they were removed. |
| `core_to_app_inspector` (`MC_CoreToApp.cfg`) | pass, about 18k states | Checks `TypeOK`, `InspectorMatchesSpec` and `DeliveredThenShutdown`. The inspector agrees with spec 4.6 on 442 frames. On two threads, every payload is delivered before its single shutdown request, and only fatal ones get one. |

### Bounds

**`Bridge`:**

* 2 slots × 2 allocations each.
* 2 resolve ids.
* 2 relay sockets.

These bounds are enough for a connection to be closed and its slot reused while its resolution is
pending, for two resolutions to be pending at once, and for the relay to be opened, closed and
opened again. They keep the run under 30 s (3 resolve ids take 4 minutes).

**`Monitor`:** 2 threads and 2 calls per core run. That is enough for an adapter to nest inside
`jni_receive_app_to_core`, and for both threads to contend for the monitor. Symmetry over the
threads is sound: the threads are interchangeable model values.

**`ResolverList`:**

* 3 records and 3 ids, with one appender and one completer. That is enough for deletes at the
  head, in the middle and at the tail, and for an append to race each of them.
* 2 records and 2 ids with two appenders. That is enough for the two loads of `next_resolve_id`
  to interleave.

**`RelayControl`:** 4 socket ids, reused once closed. That is enough for the relay to be opened,
closed and reopened with an earlier socket still closing.

**`Drain`:** 5 events and a stack of 7 frames. That gives three nested loops, each able to take
events that an outer handler posted.

**`CoreToApp`:**

* The inspector is checked on every frame with an `err` or `ack` id and a `data` element, in
  either order. The data is either an INT, or an object of up to two INT or STRING elements keyed
  `code`, `codes` or `msg`, with values 63 or 64.
* The state machine runs two threads and three payloads. The payloads are a fatal frame, an error
  with code 64, a reply carrying code 63, and an error keyed `codes`.

### Fairness

`Bridge` assumes weak fairness for two host behaviours:

* The host answers every DNS request it was given (`startDnsResolving` runs the lookup to
  completion on its own thread).
* A socket connect the host started eventually ends in a CONNECTED or DISCONNECTED signal (Java's
  connect times out).

`RelayControl` assumes weak fairness for three things:

* The return of `relayControlConnect`.
* The listener's final signal for every connecting socket.
* The listener's final signal for every closing socket.

`Drain` assumes no fairness. Whether the nested loops return depends on the core posting finitely
many events and on every handler returning, and neither is code of this repository.

The core's own choices (open, close, reclaim) get no fairness. `ResolverList`, `Drain` and `CoreToApp` check
safety only. Their cfgs turn off deadlock checking, because the system may really fall quiet: the
core need not ask for more resolutions or send more payloads.

### Findings

Six findings are listed in `PROJECT.json`:

* Stale dispatch, against spec 4.3.
* No drain on the failure branch, against spec 4.3 step 5.
* The unlocked pending list, against spec 5.
* Duplicate resolve ids from the unlocked `next_resolve_id++`.
* The core loop runs without the monitor while another thread is in a host call. This breaks the
  monitor token invariant of spec 3.
* The relay `sockfd` window, a spec gap. The spec does not say whether the host may signal a
  socket before `relayControlConnect` returns, and the code is correct only if it may not.

## 5. Not modelled, and why

* The Wish core, the Java service and BSON are external to this repository and are represented
  only by their interfaces. `bson_iterator_int` also converts LONG and DOUBLE values, truncating
  them. The core writes `code` as an int32, so these types are not in the inspector's domain.
* Byte copying, logging, and the JNI reference bookkeeping (`NewByteArray`, `DeleteLocalRef`) are
  left out. So are `seed_random_init` and the port configuration constants.
* `getJNIEnv` attaching a thread is not modelled. Every caller is a Java thread, so the attach
  and detach paths (and the missing detach in `close_wish_service`) are never taken.
* `register_core_bridge` is modelled only through the instance it stores (see `CoreToApp`). No
  property forbids the abort on a NULL instance, because the order in which the Java side
  registers the bridge and lets apps in is outside this repository. Its global-reference leak on
  re-registration is listed as a hazard.
* The other registration and bootstrap calls (`register`, `unRegister`) run once at
  service start and stop, and mostly hand function pointers to the core. `unRegister` deletes the
  global reference but leaves `wishOsJniInstance` set. This matters only if the Java service
  signals after it, which is host code outside this repository.
* The file adapters (`my_fs_*`), `wish_get_host_ip_str`, `getRxBufferFree` and
  `isRingbufferEmpty` are single pass-through calls. Their monitor discipline is the adapter shape
  of `Monitor`. Their return values are unit-testable, and no property of sequence or
  interleaving depends on them. `wish_port_config.h` holds only sizes that the core uses.
* `jni_receive_app_to_core` and `remove_service` do not drain. Whether the core posts events
  while handling an app request is decided in the core.
* A second close of a CLOSING connection or relay reaches the host again
  (android_wish.c:522 and :1021). No property counts host closes yet.
* A deadlock through the app holding the monitor across `receiveCoreToApp` would need a lock on
  the Java app side. That code is not in this repository, so the deadlock check of
  `monitor_discipline` covers only the bridge's own cycles.
