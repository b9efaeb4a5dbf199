\* The device reconnects as soon as its previous connection is closed.
CONSTANTS
    d1 = d1
    d2 = d2
    Devices = {d1}
    NoDevice = NoDevice
    NumSlots = 2
    z1 = z1
    z2 = z2
    Zones = {z1}
    ErrZone = ErrZone
    NoZone = NoZone
    Price <- MCPrice
    T0 = 100
    MaxTime = 4
    Period = 2
    Scripts <- LostScripts
    Reconnect = "closed"
    DbFaults = FALSE
    MaxRuns = 0

SPECIFICATION Spec

PROPERTY PersistedElapsedNeverDecreases

\* All threads may sit in recv or exit while main() blocks in accept.
CHECK_DEADLOCK FALSE
