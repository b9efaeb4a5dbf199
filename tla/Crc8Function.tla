---------------------------- MODULE Crc8Function ----------------------------
(***************************************************************************)
(* calculateCRC8, as the server (client_thread_func.c), the gateway        *)
(* (client_func.c) and the firmware (pango_functions.c, calculate_crc8)    *)
(* each define it: seed 0xFF, polynomial 0x8D, MSB first, no final xor.    *)
(* The RECURSIVE operator is the function's value; Crc8 runs its loops one *)
(* step at a time, Gateway computes the CRC of the frames on UART1, and   *)
(* ParkingServer abstracts it to a frame's crcOk.                          *)
(* Reference: the remainder of a GF(2) polynomial division.               *)
(***************************************************************************)
EXTENDS Integers, Sequences, Bitwise

Bytes == 0..255

CRC_POLYNOMIAL == 141    \* 0x8D
\* Mutant: the generic CRC-8 default seed.
SeedZero == 0

Seed == 255              \* uint8_t crc = 0xFF


\* Mutant: the register held in a wider variable, so the shift is not truncated.
StepUntruncated(c) ==
    IF (c & 128) # 0 THEN (c * 2) ^^ CRC_POLYNOMIAL ELSE c * 2

\* Mutant: the wrong bit tested before the shift.
StepTestsBit6(c) ==
    IF (c & 64) # 0 THEN ((c * 2) ^^ CRC_POLYNOMIAL) % 256 ELSE (c * 2) % 256

\* One pass of the inner loop: if (crc & 0x80) crc = (crc << 1) ^ 0x8D;
\* else crc <<= 1; the shift is done in int and stored back to uint8_t.
Step(c) ==
    IF (c & 128) # 0 THEN ((c * 2) ^^ CRC_POLYNOMIAL) % 256 ELSE (c * 2) % 256

\* Step as a table over the byte values: TLC evaluates it once, and a
\* lookup forces the register value it is given.
StepOf == [c \in Bytes |-> Step(c)]

RECURSIVE Steps(_, _)
Steps(c, k) == IF k = 0 THEN c ELSE Steps(StepOf[c], k - 1)

\* The eight passes of the inner loop on a register value, as a table.
ByteStepOf == [c \in Bytes |-> Steps(c, 8)]

\* for (i...) { crc ^= data[i]; for (j...) ... }
CrcFrom(c, bytes) ==
    LET crcAfter[k \in 0..Len(bytes)] ==
          IF k = 0 THEN c ELSE ByteStepOf[crcAfter[k - 1] ^^ bytes[k]]
    IN crcAfter[Len(bytes)]

CalculateCRC8(bytes) == CrcFrom(Seed, bytes)

-----------------------------------------------------------------------------
(* Reference: the message as a polynomial over GF(2), MSB first, times x^8, *)
(* with the seed added to its top eight coefficients, modulo               *)
(* G = x^8 + x^7 + x^3 + x^2 + 1.  The division shifts the dividend in one *)
(* bit at a time (the augmented-message algorithm).                        *)
BitsOf(b) == [k \in 1..8 |-> (b \div 2^(8 - k)) % 2]

RECURSIVE BitString(_)
BitString(bytes) == IF bytes = <<>> THEN <<>> ELSE BitsOf(Head(bytes)) \o BitString(Tail(bytes))

Dividend(bytes) ==
    IF bytes = <<>> THEN <<>>
    ELSE BitString(<<Head(bytes) ^^ Seed>> \o Tail(bytes)) \o BitsOf(0)

\* One division step: shift the next dividend bit into the remainder and
\* subtract (xor) G when the bit shifted out was set.
ShiftIn == [r \in Bytes, b \in {0, 1} |->
              LET shifted == ((r * 2) % 256) + b
              IN IF r >= 128 THEN shifted ^^ CRC_POLYNOMIAL ELSE shifted]

RECURSIVE Remainder(_, _)
Remainder(r, bits) == IF bits = <<>> THEN r ELSE Remainder(ShiftIn[r, Head(bits)], Tail(bits))

PolyRemainder(bytes) == IF bytes = <<>> THEN Seed ELSE Remainder(0, Dividend(bytes))
=============================================================================
