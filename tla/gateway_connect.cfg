\* The gateway against a server that may close a connection without an
\* answer, or refuse it.
CONSTANTS
    Parts = {"gw"}
    ServerFaults = TRUE

SPECIFICATION Spec

INVARIANT ReportsServerOutcome

CHECK_DEADLOCK FALSE
