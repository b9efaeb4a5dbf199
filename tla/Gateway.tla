------------------------------- MODULE Gateway -------------------------------
(***************************************************************************)
(* The device side of a session: the BeagleBone gateway's main loop       *)
(* (main_client.c and its helpers), the STM32 firmware behind its UART1   *)
(* (PNG.c: the receive callback and the main loop), and the parking       *)
(* server seen from the gateway's socket.                                  *)
(*                                                                         *)
(* A button press makes the gateway write its status byte to the STM and   *)
(* poll for the 10-byte frame the STM answers with; a frame that passes    *)
(* the CRC starts a session (ON, not connected) or closes it (OFF,         *)
(* connected) over TCP.  The server is an endpoint that answers a START   *)
(* with a zone name or "ERROR" and a CLOSE with the payment; with         *)
(* ServerFaults it may also close without an answer, or be unreachable.   *)
(* Bytes are modelled as bytes wherever the code computes on them (the    *)
(* frame, its CRC, the uint8_t conversions); names and payments are        *)
(* tokens.                                                                 *)
(***************************************************************************)
EXTENDS Integers, Sequences

CONSTANTS
    Mac,           \* the STM's MAC address, six bytes
    RngValues,     \* values HAL_RNG_GenerateRandomNumber returns
    NoiseBytes,    \* what a corrupted status byte on UART1 may read as
    UartFaults,    \* TRUE: a status byte may be corrupted on the line
    PartialReads,  \* TRUE: read() may return fewer than 10 bytes
    ServerFaults,  \* TRUE: the server may close without answering, or be down
    MaxSessions,   \* bound: sessions the server starts
    MaxNoise,      \* bound: corrupted status bytes
    MaxResets,     \* bound: failed HAL_UART_Transmits (each resets the STM)
    HalFaults      \* TRUE: HAL_RNG_GenerateRandomNumber and HAL_UART_Receive_IT
                   \* may fail (Error_Handler, exit(1))

Crc == INSTANCE Crc8Function
Loc == INSTANCE Location WITH x <- 0, y <- 0, loc <- "", origin <- "none"

\* png_enums.h (gateway) and the STM's status values
ON == 1
OFF == 2
RESTART == 3
STAY_ON == 6
STAY_OFF == 7
ERROR == -1
StmRetryLimit == RESTART    \* stm_data_receive_error == RESTART

\* uint8_t v = <int expression>: the value modulo 2^8
AsUint8(v) == v % 256
Min2(a, b) == IF a < b THEN a ELSE b

VARIABLES
    gwPc,        \* "press": waiting for the button; "await": polling UART1;
                 \* "decide": a frame was read; "quit": main() has returned
    status,      \* the gateway's uint8_t status
    stmErrors,   \* stm_data_receive_error
    buff,        \* data_buff[10]
    connected,   \* connected (CONNECTED / NOT_CONNECTED)
    location,    \* location[12]: "unset" until a recv fills it
    payment,     \* payment[2]: 0 until a recv fills it, then the session it was sent for
    link,        \* client_socket as the server sees it: "none", "up", "closed"
    toStm,       \* bytes on UART1 towards the STM
    toGw,        \* bytes on UART1 towards the gateway, not yet read
    fwArmed,     \* HAL_UART_Receive_IT is armed
    fwFlag,      \* interrupt_flag = ON
    fwStatus,    \* pango_client_data.status
    wrongStatus, \* wrong_status
    fwHalted,    \* Error_Handler() has been entered
    sent,        \* ghost: every frame the STM has transmitted
    session,     \* ghost: the number of the server's latest session
    srvLive,     \* ghost: the server counts time on the gateway's connection
    shown,       \* ghost: the payment final_price_for_costumer printed last,
                 \* and the session the gateway was closing
    noise,       \* ghost: status bytes corrupted so far
    resets,      \* ghost: NVIC_SystemReset()s of the STM so far
    quitAt,      \* ghost: resets and noise when main() left its loop
    resetNoise,  \* ghost: noise at the STM's last reset
    fatal        \* ghost: the STM stopped in a HAL error path, not by wrong_status

vars == <<gwPc, status, stmErrors, buff, connected, location, payment, link,
          toStm, toGw, fwArmed, fwFlag, fwStatus, wrongStatus, fwHalted,
          sent, session, srvLive, shown, noise, resets, quitAt, resetNoise, fatal>>
gwVars == <<gwPc, status, stmErrors, buff, connected, location, payment, link>>
fwVars == <<fwArmed, fwFlag, fwStatus, wrongStatus, fwHalted>>
ghostVars == <<sent, session, srvLive, shown, noise, resets, quitAt, resetNoise, fatal>>

Zones == {Loc!ZoneOf[q] : q \in Loc!Quadrant}
HalOutcomes == IF HalFaults THEN BOOLEAN ELSE {TRUE}   \* status == HAL_OK
NoShow == [paid |-> 0, for |-> 0]

\* pack_pango_buffer, then calculate_crc8 over the nine bytes into send_buff[9]
Pack(st, cx, cy) ==
    LET body == <<st>> \o Mac \o <<cx, cy>> IN body \o <<Crc!CalculateCRC8(body)>>

\* Mutant: the result of the check not stored back into the status.
CrcCheckNoEffect(b, st) == st

\* CRC_8_check (client_func.c): on a mismatch, ON becomes STAY_ON and any
\* other status STAY_OFF.
CrcCheck(b, st) ==
    IF b[10] # Crc!CalculateCRC8(SubSeq(b, 1, 9)) THEN (IF st = ON THEN STAY_ON ELSE STAY_OFF)
    ELSE st

\* get_status: *status = buff[0].
GetStatus(b) == b[1]

\* Mutant: updating_status_value without its case 0.
UpdatingStatusValueNoWrap(st) == AsUint8(st + 1) % 3

\* updating_status_value: *status = (++(*status)) % 3; 0 becomes 1.
UpdatingStatusValue(st) == LET v == AsUint8(st + 1) % 3 IN IF v = 0 THEN 1 ELSE v

\* received_data_from_stm
ReceivedDataFromStm(st) == st \in {ON, OFF}

\* already_connected_to_server_check(...) == NOT_CONNECTED
NotYetConnected(st, c) == st = ON /\ ~c

\* crc8_server_side_value: strcmp(location, "ERROR") != 0
LocationAccepted(l) == l # "ERROR"

\* ready_to_quit(...) == QUIT
ReadyToQuit(st, c) == st = OFF /\ c

\* connect_to_pango_server returns uint8_t: its -1 reaches main() as 255.
ConnectResult(ok) == AsUint8(IF ok THEN 0 ELSE ERROR)
\* send_data_and_receive_location's int result, stored in uint8_t return_value
ExchangeResult(ok) == AsUint8(IF ok THEN 0 ELSE ERROR)

Init ==
    /\ gwPc = "press"
    /\ status = ON
    /\ stmErrors = 0
    /\ buff = [k \in 1..10 |-> 0]     \* data_buff is not initialised: zero stack
    /\ connected = FALSE
    /\ location = "unset"
    /\ payment = 0
    /\ link = "none"
    /\ toStm = <<>> /\ toGw = <<>>
    /\ fwArmed = TRUE /\ fwFlag = FALSE /\ fwStatus = 0
    /\ wrongStatus = 1 /\ fwHalted = FALSE
    /\ sent = {} /\ session = 0 /\ srvLive = FALSE /\ shown = NoShow /\ noise = 0
    /\ resets = 0 /\ quitAt = [resets |-> 0, noise |-> 0]
    /\ resetNoise = 0 /\ fatal = FALSE
-----------------------------------------------------------------------------
(* The gateway's loop                                                      *)

\* The button: tcflush(uart4), poll(uart4), write(uart1, &status), then
\* tcflush(uart1, TCIOFLUSH), which drops what the STM sent earlier and may
\* drop the status byte itself before it has left the output queue.
Press ==
    /\ gwPc = "press"
    /\ \E delivered \in BOOLEAN :
         toStm' = IF delivered THEN Append(toStm, status) ELSE toStm
    /\ toGw' = <<>>
    /\ gwPc' = "await"
    /\ UNCHANGED <<status, stmErrors, buff, connected, location, payment, link,
                   fwVars, ghostVars>>

\* The STM will not answer: nothing is on its way to it, and it holds no
\* status byte it would answer.  A frame is 10 bytes at 115200 baud
\* (uart.c) and the poll waits 1000 ms, so poll times out only then.
StmSilent == toStm = <<>> /\ (~fwFlag \/ fwHalted \/ fwStatus = RESTART)

\* main() leaves its loop: write(uart1_fd, &restart) and close(client_socket)
\* after it.  On a connection still up the server's recv returns 0 and it
\* stops counting time (ParkingServer's RecvClosed).
LeaveLoop(restarts) ==
    /\ toStm' = toStm \o restarts
    /\ link' = "none" /\ srvLive' = FALSE
    /\ gwPc' = "quit"
    /\ quitAt' = [resets |-> resets, noise |-> noise]

\* poll(uart1, 1000 ms) times out: ++stm_data_receive_error; at RESTART (3)
\* write RESTART and leave the loop, which writes RESTART again and returns;
\* otherwise continue, without updating the status.
Timeout ==
    /\ gwPc = "await" /\ toGw = <<>> /\ StmSilent
    /\ stmErrors' = stmErrors + 1
    /\ IF stmErrors + 1 = StmRetryLimit
       THEN LeaveLoop(<<RESTART, RESTART>>)
       ELSE /\ gwPc' = "press"
            /\ UNCHANGED <<toStm, quitAt, link, srvLive>>
    /\ UNCHANGED <<status, buff, connected, location, payment, toGw,
                   fwVars, sent, session, shown, noise, resets, resetNoise, fatal>>

\* read(uart1, data_buff, 10) returns what has arrived (its result is not
\* checked), get_status takes data_buff[0], CRC_8_check.
\* poll(uart1) reports data, and received_data_from_stm (always TRUE: the
\* status written is 1 or 2).
FrameWaiting == gwPc = "await" /\ toGw # <<>> /\ ReceivedDataFromStm(status)

ReadFrame ==
    /\ FrameWaiting
    /\ \E k \in IF PartialReads THEN 1..Min2(10, Len(toGw)) ELSE {Min2(10, Len(toGw))} :
         LET b == [n \in 1..10 |-> IF n <= k THEN toGw[n] ELSE buff[n]] IN
         /\ buff' = b
         /\ status' = CrcCheck(b, GetStatus(b))
         /\ toGw' = SubSeq(toGw, k + 1, Len(toGw))
    /\ gwPc' = "decide"
    /\ UNCHANGED <<stmErrors, connected, location, payment, link, toStm,
                   fwVars, ghostVars>>

\* A START on a new connection: connect_to_pango_server, send the frame and
\* recv the location (send_data_and_receive_location), crc8_server_side_value,
\* sleep(1), then updating_status_value.  Both results pass through uint8_t,
\* so neither -1 equals ERROR and main() goes on after any failure with the
\* location buffer as it was.  The server answers with the zone of the
\* frame's coordinates (and counts time), or "ERROR" and closes; with
\* ServerFaults it closes without an answer (recv returns 0), or the
\* connect fails and so does the send.
StartSession ==
    /\ gwPc = "decide" /\ NotYetConnected(status, connected)
    /\ \E o \in {"loc", "error"} \cup (IF ServerFaults THEN {"closed", "down"} ELSE {}) :
         LET zone == Loc!LocationFunc(buff[8], buff[9])
             loc == CASE o = "loc" -> zone [] o = "error" -> "ERROR" [] OTHER -> location
         IN
         /\ o = "loc" => session < MaxSessions
         /\ ConnectResult(o # "down") # ERROR
         /\ ExchangeResult(o \in {"loc", "error"}) # ERROR
         /\ location' = loc
         /\ link' = IF o = "down" THEN "none" ELSE IF o = "loc" THEN "up" ELSE "closed"
         /\ session' = IF o = "loc" THEN session + 1 ELSE session
         /\ srvLive' = (o = "loc")
         /\ connected' = LocationAccepted(loc)
         /\ status' = UpdatingStatusValue(IF LocationAccepted(loc) THEN status ELSE STAY_ON)
    /\ gwPc' = "press"
    /\ UNCHANGED <<stmErrors, buff, payment, toStm, toGw, fwVars, sent, shown, noise,
                   resets, quitAt, resetNoise, fatal>>

\* final_price_for_costumer prints the payment[] the recv left: which
\* session's payment it is, formatting aside.
FinalPriceForCostumer(paid) == [paid |-> paid, for |-> session]

\* OFF while connected: send the frame, recv the payment (only -1 is an
\* error: a recv of 0 leaves payment[] as it was), final_price_for_costumer,
\* close, connected = NOT_CONNECTED, updating_status_value.  An error makes
\* main() leave the loop, write RESTART and return.  On a connection the
\* server closed the send still succeeds and the recv returns 0 or -1.
EndSession ==
    /\ gwPc = "decide" /\ ~NotYetConnected(status, connected) /\ ReadyToQuit(status, connected)
    /\ \E o \in CASE link = "none" -> {"sendError"}
                  [] link = "closed" -> {"eof", "recvError"}
                  [] OTHER -> {"pay"} \cup (IF ServerFaults THEN {"eof"} ELSE {}) :
         IF o \in {"sendError", "recvError"}
         THEN /\ LeaveLoop(<<RESTART>>)
              /\ UNCHANGED <<status, connected, payment, shown>>
         ELSE LET paid == IF o = "pay" THEN session ELSE payment IN
              /\ payment' = paid
              /\ shown' = FinalPriceForCostumer(paid)
              /\ srvLive' = FALSE
              /\ link' = "none"
              /\ connected' = FALSE
              /\ status' = UpdatingStatusValue(status)
              /\ gwPc' = "press"
              /\ UNCHANGED <<toStm, quitAt>>
    /\ UNCHANGED <<stmErrors, buff, location, toGw, fwVars, sent, session, noise, resets,
                   resetNoise, fatal>>

\* Neither a START nor a CLOSE: a frame that failed the CRC (STAY_ON,
\* STAY_OFF: puts("Here"), sleep(1)), ON while connected, OFF while not;
\* then updating_status_value.
Idle ==
    /\ gwPc = "decide"
    /\ ~NotYetConnected(status, connected) /\ ~ReadyToQuit(status, connected)
    /\ status' = UpdatingStatusValue(status)
    /\ gwPc' = "press"
    /\ UNCHANGED <<stmErrors, buff, connected, location, payment, link, toStm, toGw,
                   fwVars, ghostVars>>
-----------------------------------------------------------------------------
(* The STM firmware                                                        *)

\* HAL_UART_RxCpltCallback: the byte lands in pango_client_data.status.
\* Once wrong_status % 5 == 0 it transmits (uint8_t *)hardware_error, a byte
\* read from address 255, and enters Error_Handler.  ON, OFF and RESTART
\* raise interrupt_flag; anything else counts in wrong_status and re-arms.
FwGivesUp(w) == w % 5 = 0

\* A switch that lost its RESTART case (for the liveness check below).
RxCasesNoRestart == {ON, OFF}

\* The cases of the switch on pango_client_data.status that raise
\* interrupt_flag.
RxCases == {ON, OFF, RESTART}

\* The default case re-arms HAL_UART_Receive_IT and calls exit(1) if that
\* fails, which on the bare-metal build spins like Error_Handler.
RxCallback ==
    /\ toStm # <<>> /\ fwArmed /\ ~fwHalted
    /\ \E b \in {Head(toStm)} \cup (IF UartFaults /\ noise < MaxNoise THEN NoiseBytes ELSE {}),
         rearmed \in HalOutcomes :
         /\ noise' = IF b = Head(toStm) THEN noise ELSE noise + 1
         /\ fwStatus' = b
         /\ toStm' = Tail(toStm)
         /\ IF FwGivesUp(wrongStatus)
            THEN /\ fwHalted' = TRUE
                 /\ \E g \in NoiseBytes : toGw' = Append(toGw, g)
                 /\ UNCHANGED <<fwArmed, fwFlag, wrongStatus, fatal>>
            ELSE /\ fwFlag' = (b \in RxCases)
                 /\ fwArmed' = (b \notin RxCases)
                 /\ wrongStatus' = IF b \in RxCases THEN wrongStatus ELSE wrongStatus + 1
                 /\ fwHalted' = (b \notin RxCases /\ ~rearmed)
                 /\ fatal' = fwHalted'
                 /\ UNCHANGED toGw
    /\ UNCHANGED <<gwVars, sent, session, srvLive, shown, resets, quitAt, resetNoise>>

\* A byte that arrives while the receive interrupt is not armed, or after
\* Error_Handler, is lost.
RxLost ==
    /\ toStm # <<>> /\ (~fwArmed \/ fwHalted)
    /\ toStm' = Tail(toStm)
    /\ UNCHANGED <<gwVars, toGw, fwVars, ghostVars>>

\* NVIC_SystemReset(): the globals take their initial values again
\* (pango_client_data = {0}, wrong_status = 1, interrupt_flag = OFF), and
\* main_PNG runs get_mac_address (Error_Handler if HAL_ETH_Init fails) and
\* arms the receive interrupt (exit(1) if HAL_UART_Receive_IT fails).
BoardReset ==
    /\ fwStatus' = 0
    /\ wrongStatus' = 1
    /\ fwFlag' = FALSE
    /\ \E eth, armed \in HalOutcomes :
         LET up == eth /\ armed IN fwArmed' = up /\ fwHalted' = ~up /\ fatal' = ~up
    /\ resets' = resets + 1
    /\ resetNoise' = noise

\* The frame main_PNG's loop builds: get_coordinates, pack_pango_buffer,
\* calculate_crc8.
FwFrames == {Pack(fwStatus, Loc!RandUint128(rx), Loc!RandUint128(ry)) : rx, ry \in RngValues}

\* if(interrupt_flag == ON) in main_PNG's while(1); Error_Handler never
\* returns to it.
FwLoopPending == fwFlag /\ ~fwHalted

\* main_PNG's loop: RESTART resets the board.  Otherwise get_coordinates,
\* where a failing HAL_RNG_GenerateRandomNumber enters Error_Handler before
\* anything is sent; or the frame is built, HAL_UART_Transmit succeeds, and
\* HAL_UART_Receive_IT arms the interrupt again (exit(1) if it fails) and
\* the flag is cleared.
FwMainLoop ==
    /\ FwLoopPending
    /\ IF fwStatus = RESTART
       THEN /\ BoardReset
            /\ UNCHANGED <<toGw, sent>>
       ELSE \E rng \in HalOutcomes, rearmed \in HalOutcomes :
            /\ IF rng
               THEN \E frame \in FwFrames :
                      /\ toGw' = toGw \o frame
                      /\ sent' = sent \cup {frame}
               ELSE UNCHANGED <<toGw, sent>>
            /\ fwHalted' = ~(rng /\ rearmed)
            /\ fatal' = fwHalted'
            /\ fwFlag' = fwHalted'
            /\ fwArmed' = ~fwHalted'
            /\ UNCHANGED <<fwStatus, wrongStatus, resets, resetNoise>>
    /\ UNCHANGED <<gwVars, toStm, session, srvLive, shown, noise, quitAt>>

\* HAL_UART_Transmit returns an error and main_PNG calls NVIC_SystemReset:
\* HAL_BUSY before any byte left, or HAL_TIMEOUT after the first n bytes.
FwTransmitFails ==
    /\ UartFaults /\ resets < MaxResets /\ FwLoopPending /\ fwStatus # RESTART
    /\ \E frame \in FwFrames, n \in 0..10 :
         /\ toGw' = toGw \o SubSeq(frame, 1, n)
         /\ sent' = IF n = 10 THEN sent \cup {frame} ELSE sent
    /\ BoardReset
    /\ UNCHANGED <<gwVars, toStm, session, srvLive, shown, noise, quitAt>>

Next ==
    \/ Press \/ Timeout \/ ReadFrame
    \/ StartSession \/ EndSession \/ Idle
    \/ RxCallback \/ RxLost \/ FwMainLoop \/ FwTransmitFails

Spec == Init /\ [][Next]_vars
-----------------------------------------------------------------------------
(* Properties                                                               *)

TypeOK ==
    /\ gwPc \in {"press", "await", "decide", "quit"}
    /\ status \in 0..255 /\ stmErrors \in 0..StmRetryLimit
    /\ buff \in [1..10 -> 0..255]
    /\ connected \in BOOLEAN
    /\ location \in Zones \cup {"unset", "ERROR"}
    /\ payment \in 0..MaxSessions
    /\ link \in {"none", "up", "closed"}
    /\ toStm \in Seq(0..255) /\ toGw \in Seq(0..255)
    /\ wrongStatus \in 1..5 /\ session \in 0..MaxSessions
    /\ resets \in Nat /\ quitAt \in [resets : Nat, noise : Nat]
    /\ resetNoise \in 0..noise /\ fatal \in BOOLEAN

\* What the gateway tells its user is what the server did: while main()
\* runs and holds itself connected the server is counting time for it on
\* that connection, and the payment final_price_for_costumer prints is the
\* one the server sent for the session being closed (crc8_server_side_value,
\* and the recv results main() checks against ERROR).
ReportsServerOutcome ==
    /\ gwPc # "quit" /\ connected => srvLive
    /\ shown.for # 0 => shown.paid = shown.for

\* A frame the gateway acts on as ON or OFF is, byte for byte, a frame the
\* STM transmitted: CRC_8_check rejects every buffer a short read() leaves
\* mixed with the bytes of an earlier frame.
AcceptedFrameWasSent ==
    gwPc = "decide" /\ status \in {ON, OFF} => buff \in sent

\* When main() leaves its loop (three poll timeouts, or a failed send or
\* recv) the RESTART it writes resets the STM: NVIC_SystemReset runs after
\* the gateway quit, unless line noise corrupted a status byte after that
\* or the STM already sits in Error_Handler.  The firmware's interrupt
\* and main loop are what must make it happen.
GatewayRestartResetsStm ==
    gwPc = "quit" ~> (resets > quitAt.resets \/ noise > quitAt.noise \/ fwHalted)

\* The STM's receive callback gives up (wrong_status % 5 == 0, then
\* Error_Handler) only after line noise has corrupted four status bytes
\* since its last NVIC_SystemReset: wrong_status restarts at 1 on every
\* reset and counts every unknown byte, consecutive or not, and every
\* status the gateway writes (updating_status_value, the RESTARTs) is one
\* the STM knows.
StmHaltsOnlyOnNoise == fwHalted /\ ~fatal => noise - resetNoise >= 4
=============================================================================
