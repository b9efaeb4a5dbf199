-------------------------- MODULE MC_ParkingServer --------------------------
(* Instances of ParkingServer for TLC: the devices' scripts.               *)
EXTENDS ParkingServer, TLC

CONSTANTS d1, d2, z1, z2

\* The devices are interchangeable: nothing in the server depends on a MAC's value.
DeviceSymmetry == Permutations({d1, d2})

MCPrice == [z \in Zones |-> IF z = z1 THEN 1 ELSE 2]

StartF(z) == [st |-> "START", xy |-> z, crcOk |-> TRUE]
CloseF(z) == [st |-> "CLOSE", xy |-> z, crcOk |-> TRUE]
OtherF(z) == [st |-> "OTHER", xy |-> z, crcOk |-> TRUE]
CorruptF(z) == [st |-> "START", xy |-> z, crcOk |-> FALSE]

\* What the gateway (src/client/main_client.c) sends on one connection: the
\* START frame, then the CLOSE frame or, if it dies, the kernel's close.
CloseScripts == {<<StartF(z), CloseF(z)>> : z \in Zones}
LostScripts == {<<StartF(z), EOF>> : z \in Zones}
GatewayScripts == CloseScripts \cup LostScripts

\* A connection that is reset after its START: recv returns -1, then 0.
ResetScripts == {<<StartF(z), RESET, EOF>> : z \in Zones}

\* A gateway that loses power: its connection stays half open forever.
VanishScripts == {<<StartF(z)>> : z \in Zones}

\* A frame corrupted on the wire after the session started.
CorruptScripts == {<<StartF(z), CorruptF(z)>> : z \in Zones}

\* A frame with a status byte the switch ignores, between START and CLOSE.
HeartbeatScripts == {<<StartF(z), OtherF(z), CloseF(z)>> : z \in Zones}

\* A START whose coordinates are out of range (x or y above 127).
ErrorZoneScripts == {<<StartF(ErrZone), CloseF(ErrZone)>>}

ProgressScripts == GatewayScripts \cup ResetScripts \cup HeartbeatScripts
=============================================================================
