------------------------------ MODULE Location ------------------------------
(***************************************************************************)
(* The coordinates of a frame, from where they are made to the zone name  *)
(* the server gives them.  The firmware's get_coordinates draws x and y    *)
(* from the hardware RNG through rand_uint128; any other sender may put   *)
(* any byte in a frame with a valid CRC.  The server reads them back      *)
(* (store_client_data_in_struct) and location_func names the zone.        *)
(***************************************************************************)
EXTENDS Integers, Sequences

CONSTANTS RngValues    \* values HAL_RNG_GenerateRandomNumber returns

ASSUME RngValues \subseteq Nat

Byte == 0..255
Unset == ""

VARIABLES x, y, loc, origin
vars == <<x, y, loc, origin>>

\* Mutant: the reduction to [0, 127] left out.
RandNoModulo(r) == r

\* rand_uint128: *insert_num = (uint8_t)(*insert_num % 128)
RandUint128(r) == (r % 128) % 256

\* Mutant: the low side of the split taken as exclusive.
LocationFuncStrict(cx, cy) ==
    CASE cx > 127 \/ cy > 127 -> "ERROR"
      [] cx < 70 /\ cy < 70   -> "Ashkelon"
      [] cx < 70 /\ cy >= 70  -> "Jerusalem"
      [] cx >= 70 /\ cy < 70  -> "Petah-Tikva"
      [] cx >= 70 /\ cy >= 70 -> "Herzliya"

\* location_func; x < 0 and y < 0 never hold for a uint8_t.
LocationFunc(cx, cy) ==
    CASE cx > 127 \/ cy > 127 -> "ERROR"
      [] cx <= 70 /\ cy <= 70 -> "Ashkelon"
      [] cx <= 70 /\ cy > 70  -> "Jerusalem"
      [] cx > 70 /\ cy <= 70  -> "Petah-Tikva"
      [] cx > 70 /\ cy > 70   -> "Herzliya"

Init ==
    /\ x = 0 /\ y = 0
    /\ loc = Unset
    /\ origin = "none"

\* The firmware's get_coordinates, packed into the frame by pack_pango_buffer.
GetCoordinates ==
    /\ origin = "none"
    /\ \E rx, ry \in RngValues :
         /\ x' = RandUint128(rx)
         /\ y' = RandUint128(ry)
    /\ origin' = "stm"
    /\ UNCHANGED loc

\* A frame from another sender: the server checks only the CRC.
ForeignFrame ==
    /\ origin = "none"
    /\ \E vx, vy \in Byte : x' = vx /\ y' = vy
    /\ origin' = "wire"
    /\ UNCHANGED loc

\* initialize_and_get_start_time: location_func(client->x_axis, client->y_axis).
Resolve ==
    /\ origin # "none" /\ loc = Unset
    /\ loc' = LocationFunc(x, y)
    /\ UNCHANGED <<x, y, origin>>

Next == GetCoordinates \/ ForeignFrame \/ Resolve

Spec == Init /\ [][Next]_vars
-----------------------------------------------------------------------------
\* Spec 4.2: the valid domain 0..127 per axis is split into four zones at
\* the midline, the low side (<= 70) inclusive; anything else is an error.
Quadrant == [lowX : BOOLEAN, lowY : BOOLEAN]
ZoneOf == [q \in Quadrant |->
             IF q.lowX THEN (IF q.lowY THEN "Ashkelon" ELSE "Jerusalem")
             ELSE (IF q.lowY THEN "Petah-Tikva" ELSE "Herzliya")]
GridZone(cx, cy) ==
    IF cx \in 0..127 /\ cy \in 0..127
    THEN ZoneOf[[lowX |-> cx <= 70, lowY |-> cy <= 70]]
    ELSE "ERROR"

TypeOK ==
    /\ x \in Byte /\ y \in Byte
    /\ loc \in {Unset, "ERROR"} \cup {ZoneOf[q] : q \in Quadrant}
    /\ origin \in {"none", "stm", "wire"}

\* location_func names the zone of spec 4.2's grid for every byte pair a
\* frame can carry, and "ERROR" exactly outside 0..127.
LocationIsGridZone == loc # Unset => loc = GridZone(x, y)

\* Coordinates the firmware makes always resolve: the server's "ERROR"
\* location is reached only by frames from other senders.
FirmwareCoordinatesResolve == origin = "stm" /\ loc # Unset => loc # "ERROR"
=============================================================================
