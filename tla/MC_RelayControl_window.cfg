\* The host's listener may signal the new socket while relayControlConnect
\* has not yet returned.
CONSTANTS
    MaxSocks = 4
    SignalAfterReturn = FALSE
SPECIFICATION Spec
PROPERTY RelayConnectingEnds
