\* One lifetime of the server ends: the accept loop has handed out client[],
\* thread[1] has exited, and main() shuts down while the other thread may
\* still be serving its device.  The server then starts again.
CONSTANTS
    d1 = d1
    d2 = d2
    Devices = {d1, d2}
    NoDevice = NoDevice
    NumSlots = 2
    z1 = z1
    z2 = z2
    Zones = {z1}
    ErrZone = ErrZone
    NoZone = NoZone
    Price <- MCPrice
    T0 = 100
    MaxTime = 3
    Period = 2
    Scripts <- GatewayScripts
    Reconnect = "done"
    DbFaults = FALSE
    MaxRuns = 1

SPECIFICATION Spec

PROPERTY ImplementsSessionStore

\* After the restart the threads may sit in recv while main() blocks in accept.
CHECK_DEADLOCK FALSE
