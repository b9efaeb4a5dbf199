------------------------------ MODULE MC_Device ------------------------------
(***************************************************************************)
(* The device side, checked in one run: the CRC-8 loops, location_func    *)
(* with the firmware's coordinates, the gateway with the STM firmware     *)
(* behind it, and sql_price_db_create.  The four share no state; part     *)
(* picks the one that moves in a behaviour, so their state spaces add     *)
(* instead of multiplying.  The parts that do not move stay in a fixed    *)
(* initial state.                                                         *)
(***************************************************************************)
EXTENDS Integers, Sequences

CONSTANTS Parts, ServerFaults

VARIABLES part,
          data, i, j, crc,
          x, y, loc, origin,
          gwPc, status, stmErrors, buff, connected, location, payment, link,
          toStm, toGw, fwArmed, fwFlag, fwStatus, wrongStatus, fwHalted,
          sent, session, srvLive, shown, noise, resets, quitAt, resetNoise, fatal,
          pc, insertNo, opened, tableExists, rows, runs, clean, cleanRun

crcVars == <<data, i, j, crc>>
locVars == <<x, y, loc, origin>>
gwAll == <<gwPc, status, stmErrors, buff, connected, location, payment, link,
           toStm, toGw, fwArmed, fwFlag, fwStatus, wrongStatus, fwHalted,
           sent, session, srvLive, shown, noise, resets, quitAt, resetNoise, fatal>>
priceVars == <<pc, insertNo, opened, tableExists, rows, runs, clean, cleanRun>>
vars == <<part, crcVars, locVars, gwAll, priceVars>>

\* calculateCRC8 on every one- and two-byte message and the frames of spec 8.
SpecVector == <<1, 170, 187, 204, 221, 238, 255, 35, 69>>
ZeroBuffer == [k \in 1..9 |-> 0]
MCInputs == {<<b>> : b \in 0..255} \cup {<<a, b>> : a, b \in 0..255}
            \cup {SpecVector, ZeroBuffer}

\* RNG outputs around every boundary of % 128 and of the zone split; TLC's
\* integers stop at 2^31 - 1, below the largest uint32_t.
MCRngValues == {0, 70, 71, 127, 128, 198, 199, 255, 256, 65535, 2147483647}

\* The gateway's MAC bytes (main_client.c), one RNG output for the STM's
\* coordinates, and line noise that turns a byte into 0, RESTART or a byte
\* no handler knows, at most four times.
MCMac == <<0, 128, 225, 1, 2, 3>>

C == INSTANCE Crc8 WITH Inputs <- MCInputs
L == INSTANCE Location WITH RngValues <- MCRngValues
P == INSTANCE PriceTable WITH ExecFaults <- TRUE, MaxRuns <- 2
G == INSTANCE Gateway WITH Mac <- MCMac, RngValues <- {199},
                           NoiseBytes <- {0, 3, 200}, UartFaults <- TRUE,
                           PartialReads <- TRUE, MaxSessions <- 1, MaxNoise <- 4,
                           MaxResets <- 1, HalFaults <- TRUE

Init ==
    /\ part \in Parts
    /\ C!Init /\ (part # "crc" => data = SpecVector)
    /\ L!Init
    /\ G!Init
    /\ P!Init

Next ==
    \/ part = "crc"   /\ C!Next /\ UNCHANGED <<part, locVars, gwAll, priceVars>>
    \/ part = "loc"   /\ L!Next /\ UNCHANGED <<part, crcVars, gwAll, priceVars>>
    \/ part = "gw"    /\ G!Next /\ UNCHANGED <<part, crcVars, locVars, priceVars>>
    \/ part = "price" /\ P!Next /\ UNCHANGED <<part, crcVars, locVars, gwAll>>

\* A step of the gateway part.
GwStep(A) == part = "gw" /\ A /\ UNCHANGED <<part, crcVars, locVars, priceVars>>

\* The UART delivers a byte sent to the STM (the receive interrupt fires,
\* or the byte is lost) and main_PNG's while(1) spins: each of these steps,
\* once enabled for good, is taken.  The gateway's own steps need no
\* fairness for the property checked here, which starts once main() has
\* returned.  Weak fairness of the main loop is written out over the
\* condition that enables it (FwFrames is never empty), so that TLC need
\* not compute a frame's CRC to decide ENABLED.
Spec == Init /\ [][Next]_vars
        /\ WF_vars(GwStep(G!RxCallback \/ G!RxLost))
        /\ (<>[](part = "gw" /\ G!FwLoopPending) => []<><<GwStep(G!FwMainLoop)>>_vars)
-----------------------------------------------------------------------------
TypeOK == part \in Parts /\ C!TypeOK /\ L!TypeOK /\ G!TypeOK /\ P!TypeOK

\* The loops of calculateCRC8 compute the remainder of the GF(2) division.
CrcIsPolynomialRemainder == C!CrcIsPolynomialRemainder

\* The values the loops return on two frames: pango_client's zeroed
\* client_data_buff, whose CRC byte (0) is not crc8 of the nine zero bytes
\* before it, so replaying an untouched buffer fails CRC_8_check
\* (ParkingServer's ZeroFrame); and the regression vector of spec 8, 0x29.
PinnedVectors ==
    C!Returned =>
        /\ data = ZeroBuffer => crc # ZeroBuffer[9]
        /\ data = SpecVector => crc = 41

\* location_func names the grid zone of every byte pair it is given.
LocationIsGridZone == L!LocationIsGridZone

\* Coordinates from get_coordinates never resolve to "ERROR".
FirmwareCoordinatesResolve == L!FirmwareCoordinatesResolve

\* The gateway reports what the server did (Gateway!ReportsServerOutcome).
ReportsServerOutcome == G!ReportsServerOutcome

\* A frame the gateway acts on was sent by the STM (Gateway).
AcceptedFrameWasSent == G!AcceptedFrameWasSent

\* The RESTART the gateway writes when it quits resets the STM (Gateway).
GatewayRestartResetsStm == G!GatewayRestartResetsStm

\* The STM halts on wrong_status only after four corrupted status bytes
\* since its last reset (Gateway).
StmHaltsOnlyOnNoise == G!StmHaltsOnlyOnNoise

\* Every zone is priced once sql_price_db_create has run cleanly, at one
\* price whatever the reruns added (PriceTable).
ZonesPriced == P!ZonesPriced
=============================================================================
