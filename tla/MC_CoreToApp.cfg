\* send_core_to_app on two threads, three payloads.  The run stops when the
\* core has sent its last payload and every call has returned.
CONSTANTS
    t1 = t1
    t2 = t2
    Threads <- MC_Threads
    PayloadDocs <- MC_PayloadDocs
    MaxSends = 3
SYMMETRY MC_Symmetry
SPECIFICATION Spec
INVARIANT TypeOK
INVARIANT InspectorMatchesSpec
INVARIANT DeliveredThenShutdown
CHECK_DEADLOCK FALSE
