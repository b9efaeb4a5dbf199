\* Sequential connections: a device opens its next connection only after
\* the server thread of the previous one has exited.  No sqlite3 failures.
CONSTANTS
    d1 = d1
    d2 = d2
    Devices = {d1, d2}
    NoDevice = NoDevice
    NumSlots = 3
    z1 = z1
    z2 = z2
    Zones = {z1}
    ErrZone = ErrZone
    NoZone = NoZone
    Price <- MCPrice
    T0 = 100
    MaxTime = 3
    Period = 2
    Scripts <- GatewayScripts
    Reconnect = "done"
    DbFaults = FALSE
    MaxRuns = 0

SPECIFICATION Spec

INVARIANT TypeOK
INVARIANT LiveElapsedIsParked
INVARIANT PaymentIsParkedTime
INVARIANT AtMostOneRowPerDevice
INVARIANT TerminatedNotConnected

PROPERTY PersistedElapsedNeverDecreases
PROPERTY ImplementsSessionStore

\* All threads may sit in recv or exit while main() blocks in accept.
CHECK_DEADLOCK FALSE

SYMMETRY DeviceSymmetry
