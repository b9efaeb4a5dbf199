\* The device reconnects as soon as it has its payment.
CONSTANTS
    d1 = d1
    d2 = d2
    Devices = {d1}
    NoDevice = NoDevice
    NumSlots = 2
    z1 = z1
    z2 = z2
    Zones = {z1}
    ErrZone = ErrZone
    NoZone = NoZone
    Price <- MCPrice
    T0 = 100
    MaxTime = 3
    Period = 2
    Scripts <- CloseScripts
    Reconnect = "closed"
    DbFaults = FALSE
    MaxRuns = 0

SPECIFICATION Spec

INVARIANT PaymentIsParkedTime

\* All threads may sit in recv or exit while main() blocks in accept.
CHECK_DEADLOCK FALSE
