\* A frame corrupted on the wire after the session started.
CONSTANTS
    d1 = d1
    d2 = d2
    Devices = {d1}
    NoDevice = NoDevice
    NumSlots = 1
    z1 = z1
    z2 = z2
    Zones = {z1}
    ErrZone = ErrZone
    NoZone = NoZone
    Price <- MCPrice
    T0 = 100
    MaxTime = 2
    Period = 2
    Scripts <- CorruptScripts
    Reconnect = "done"
    DbFaults = FALSE
    MaxRuns = 0

SPECIFICATION Spec

INVARIANT TerminatedNotConnected

\* All threads may sit in recv or exit while main() blocks in accept.
CHECK_DEADLOCK FALSE
