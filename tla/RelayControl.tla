---------------------------- MODULE RelayControl ----------------------------
(***************************************************************************)
(* The relay control channel of android_wish.c with port_relay_client_open *)
(* split at the point where it really is two steps:                       *)
(*     relay->sockfd = CallIntMethod(..., relayControlConnect, ...);       *)
(* the host creates the control socket (and its relayControlTcpListener    *)
(* may start signalling it) inside the call, and the id is stored on the   *)
(* relay only after the call returns.  Host signals and data arrive        *)
(* through relayControlSignalEvent and relayControlFeed on the listener's  *)
(* thread and find the relay by comparing the id with relay->sockfd.       *)
(*                                                                         *)
(* The relay client is opened here by IP; the host-name path goes through  *)
(* the DNS correlator and is modelled in Bridge.  The core decides when to *)
(* open and close the relay; relay_ctrl_connected_cb and                   *)
(* relay_ctrl_disconnect_cb are the core's reactions (spec 2, 4.5).        *)
(***************************************************************************)
EXTENDS Naturals, FiniteSets

CONSTANTS
    MaxSocks,           \* bound: control socket ids; the host reuses the
                        \* id of a closed socket
    SignalAfterReturn   \* the host's listener signals a new socket only
                        \* after relayControlConnect has returned

ASSUME MaxSocks \in Nat \ {0} /\ SignalAfterReturn \in BOOLEAN

Socks == 1 .. MaxSocks
NoSock == 0                 \* relay->sockfd before any socket was stored
RelayStates == {"IDLE", "CONNECTING", "CONNECTED", "CLOSING"}
SockStates == {"none", "connecting", "open", "closing", "closed"}

VARIABLES
    relay,      \* the relay client: [state, sockfd]
    opening,    \* the core thread is inside relayControlConnect's return:
                \* the id the host returned, not yet stored, or NoSock
    sock        \* host: [Socks -> socket status]

vars == <<relay, opening, sock>>

\* the sockets the host's listener thread may report on
Signalling == {i \in Socks : sock[i] \in {"connecting", "open", "closing"}
                             /\ (SignalAfterReturn => i # opening)}

-----------------------------------------------------------------------------
\* wish_relay_client_get_by_id: the relay, if its sockfd is id
RelayGetById(id) == relay.sockfd = id

\* relay_ctrl_disconnect_cb / relay_ctrl_connected_cb (the core)
RelayDisconnectCb == relay' = [relay EXCEPT !.state = "IDLE"]
RelayConnectedCb == relay' = [relay EXCEPT !.state = "CONNECTED"]

\* mutant: the relay client is reopened whatever its state
WishRelayClientOpenAny ==
    /\ opening = NoSock
    /\ \E i \in Socks :
          /\ sock[i] \in {"none", "closed"}
          /\ relay' = [relay EXCEPT !.state = "CONNECTING"]
          /\ sock' = [sock EXCEPT ![i] = "connecting"]
          /\ opening' = i

\* wish_relay_client_open with an IP host (the core opens an IDLE relay)
\* and port_relay_client_open up to the return of relayControlConnect:
\* state CONNECTING, relay->send, the host creates control socket i (an id
\* never used, or that of a closed socket)
WishRelayClientOpen ==
    /\ opening = NoSock /\ relay.state = "IDLE"
    /\ \E i \in Socks :
          /\ sock[i] \in {"none", "closed"}
          /\ relay' = [relay EXCEPT !.state = "CONNECTING"]
          /\ sock' = [sock EXCEPT ![i] = "connecting"]
          /\ opening' = i

\* mutant: the returned id is dropped instead of stored
PortRelayClientOpenStoreLost ==
    /\ opening # NoSock
    /\ opening' = NoSock
    /\ UNCHANGED <<relay, sock>>

\* mutant: an off-by-one between the host's id and the stored sockfd
PortRelayClientOpenStoreOff ==
    /\ opening # NoSock
    /\ relay' = [relay EXCEPT !.sockfd = opening + 1]
    /\ opening' = NoSock
    /\ UNCHANGED sock

\* the rest of port_relay_client_open: relay->sockfd := the returned id,
\* exit the monitor, process_wish_core()
PortRelayClientOpenStore ==
    /\ opening # NoSock
    /\ relay' = [relay EXCEPT !.sockfd = opening]
    /\ opening' = NoSock
    /\ UNCHANGED sock

\* mutant: the host close call is left out
WishRelayClientCloseNoHost ==
    /\ opening = NoSock /\ relay.state # "IDLE"
    /\ relay' = [relay EXCEPT !.state = "CLOSING"]
    /\ UNCHANGED <<opening, sock>>

\* wish_relay_client_close: state CLOSING, relayControlCloseConnection(
\* relay->sockfd) whatever the state was, process_wish_core()
WishRelayClientClose ==
    /\ opening = NoSock /\ relay.state # "IDLE"
    /\ relay' = [relay EXCEPT !.state = "CLOSING"]
    /\ LET i == relay.sockfd IN
       sock' = IF i \in Socks /\ sock[i] \in {"connecting", "open"}
               THEN [sock EXCEPT ![i] = "closing"] ELSE sock
    /\ UNCHANGED opening

\* mutant: the DISCONNECTED branch leaves out relay_ctrl_disconnect_cb
RelayControlSignalEventNoDisconnectCb(i, sig) ==
    /\ i \in Signalling
    /\ \/ sig = "CONNECTED" /\ sock[i] = "connecting"
          /\ sock' = [sock EXCEPT ![i] = "open"]
       \/ sig = "DISCONNECTED"
          /\ sock' = [sock EXCEPT ![i] = "closed"]
    /\ IF RelayGetById(i) /\ sig = "CONNECTED" THEN RelayConnectedCb
       ELSE UNCHANGED relay
    /\ UNCHANGED opening

\* Java_..._relayControlSignalEvent(id, sig) from the host's listener:
\* lookup by sockfd, return if none; DISCONNECTED: disconnect callback;
\* CONNECTED: connected callback and wish_relay_client_periodic; drain
RelayControlSignalEvent(i, sig) ==
    /\ i \in Signalling
    /\ \/ sig = "CONNECTED" /\ sock[i] = "connecting"
          /\ sock' = [sock EXCEPT ![i] = "open"]
       \/ sig = "DISCONNECTED"
          /\ sock' = [sock EXCEPT ![i] = "closed"]
    /\ IF ~RelayGetById(i) THEN UNCHANGED relay
       ELSE IF sig = "DISCONNECTED" THEN RelayDisconnectCb
       ELSE RelayConnectedCb
    /\ UNCHANGED opening

\* Java_..._relayControlFeed(id, data): lookup by sockfd, return if none;
\* wish_relay_client_feed, wish_relay_client_periodic, drain.  The relay
\* protocol's reaction to the bytes is the core's and changes nothing here.
RelayControlFeed(i) ==
    /\ i \in Signalling /\ sock[i] = "open"
    /\ UNCHANGED vars

\* relay_control_send_data(relay->sockfd, ...), called by the core's relay
\* protocol on a connected relay: relayControlSendData under the monitor;
\* the bytes sent are only compared with the length and logged, and 0 is
\* returned whatever the host did, so nothing here changes
RelayControlSendData ==
    /\ relay.state = "CONNECTED"
    /\ UNCHANGED vars

-----------------------------------------------------------------------------
Init ==
    /\ relay = [state |-> "IDLE", sockfd |-> NoSock]
    /\ opening = NoSock
    /\ sock = [i \in Socks |-> "none"]

Next ==
    \/ WishRelayClientOpen
    \/ PortRelayClientOpenStore
    \/ WishRelayClientClose
    \/ \E i \in Socks, sig \in {"CONNECTED", "DISCONNECTED"} :
          RelayControlSignalEvent(i, sig)
    \/ \E i \in Socks : RelayControlFeed(i)
    \/ RelayControlSendData

\* The JNI call relayControlConnect returns; the host's listener reports
\* the end of every connect and of every close it was asked for.  The
\* core's own decisions to open and close get no fairness.
Fairness ==
    /\ WF_vars(PortRelayClientOpenStore)
    /\ \A i \in Socks :
          WF_vars(sock[i] \in {"connecting", "closing"}
                  /\ \E sig \in {"CONNECTED", "DISCONNECTED"} :
                        RelayControlSignalEvent(i, sig))

Spec == Init /\ [][Next]_vars /\ Fairness

-----------------------------------------------------------------------------
TypeOK ==
    /\ relay \in [state : RelayStates, sockfd : Socks \cup {NoSock}]
    /\ opening \in Socks \cup {NoSock}
    /\ sock \in [Socks -> SockStates]

\* One relay control connection at a time (the FIXME in
\* port_relay_client_open): the host never has two control sockets
\* connecting or open, across any sequence of opens, closes and signals.
AtMostOneControlSocket ==
    Cardinality({i \in Socks : sock[i] \in {"connecting", "open"}}) <= 1

\* The relay's CONNECTED state mirrors the host: whenever the core sees the
\* relay connected (and may call relay_control_send_data on relay->sockfd),
\* the socket with that id is open on the host.  It takes the sockfd store,
\* the listener's signals through the lookup, both callbacks and the
\* close to keep this, across reopenings that reuse socket ids.
RelayMirrorsSocket ==
    relay.state = "CONNECTED" => relay.sockfd \in Socks /\ sock[relay.sockfd] = "open"

\* A relay the core opens eventually stops CONNECTING: the host's CONNECTED
\* or DISCONNECTED signal for the new socket reaches the relay through the
\* sockfd lookup of relayControlSignalEvent.
RelayConnectingEnds ==
    relay.state = "CONNECTING" ~> relay.state # "CONNECTING"

\* A relay the core closes eventually becomes IDLE again: the close reaches
\* the host socket and the host's DISCONNECTED reaches the relay.
RelayClosingEnds ==
    relay.state = "CLOSING" ~> relay.state = "IDLE"

=============================================================================
