-------------------------------- MODULE Crc8 --------------------------------
(***************************************************************************)
(* The two loops of calculateCRC8 (Crc8Function), run one step at a time *)
(* on a message drawn from Inputs, and checked against the function's     *)
(* value and the reference division.                                     *)
(***************************************************************************)
EXTENDS Integers, Sequences, Crc8Function

CONSTANTS Inputs      \* the byte sequences calculateCRC8 is run on

ASSUME Inputs \subseteq Seq(Bytes)

\* crc ^= data[i] as a table over the byte values, evaluated once.
XorOf == [a, b \in Bytes |-> a ^^ b]

VARIABLES data, i, j, crc
vars == <<data, i, j, crc>>

-----------------------------------------------------------------------------
(* The loops.  j = 8 stands for "between two bytes".                        *)
Init ==
    /\ data \in Inputs
    /\ i = 0
    /\ j = 8
    /\ crc = Seed

\* for (i...) { crc ^= data[i]; ... }
XorByte ==
    /\ j = 8 /\ i < Len(data)
    /\ crc' = XorOf[crc, data[i + 1]]
    /\ i' = i + 1
    /\ j' = 0
    /\ UNCHANGED data

\* for (j = 0; j < 8; j++) { ... }
ShiftBit ==
    /\ j < 8
    /\ crc' = Step(crc)
    /\ j' = j + 1
    /\ UNCHANGED <<data, i>>

Next == XorByte \/ ShiftBit

Spec == Init /\ [][Next]_vars

Returned == i = Len(data) /\ j = 8
-----------------------------------------------------------------------------
TypeOK ==
    /\ data \in Seq(Bytes)
    /\ i \in 0..Len(data) /\ j \in 0..8
    /\ crc \in Bytes

\* The value the loops return is the CRC of spec 4.1/8: the remainder of the
\* seeded message polynomial divided by G.  The bytewise register of the code
\* and the bitwise division of the reference agree on every input.
CrcIsPolynomialRemainder ==
    Returned => crc = PolyRemainder(data) /\ crc = CalculateCRC8(data)
=============================================================================
