\* Sequential connections with resets, heartbeats and sqlite3 failures.
CONSTANTS
    d1 = d1
    d2 = d2
    Devices = {d1}
    NoDevice = NoDevice
    NumSlots = 2
    z1 = z1
    z2 = z2
    Zones = {z1}
    ErrZone = ErrZone
    NoZone = NoZone
    Price <- MCPrice
    T0 = 100
    MaxTime = 2
    Period = 2
    Scripts <- ProgressScripts
    Reconnect = "done"
    DbFaults = TRUE
    MaxRuns = 1

SPECIFICATION Spec

PROPERTY StartAnswered

\* All threads may sit in recv or exit while main() blocks in accept.
CHECK_DEADLOCK FALSE
