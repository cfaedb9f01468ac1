\* Relay control channel; the host signals a new socket only after
\* relayControlConnect has returned.
CONSTANTS
    MaxSocks = 4
    SignalAfterReturn = TRUE
SPECIFICATION Spec
INVARIANT TypeOK
INVARIANT AtMostOneControlSocket
INVARIANT RelayMirrorsSocket
PROPERTY RelayConnectingEnds
PROPERTY RelayClosingEnds
