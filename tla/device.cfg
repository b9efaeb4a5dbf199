\* The CRC-8 loops, location_func, the gateway with the STM firmware (with
\* HAL failures) and sql_price_db_create,
\* against a server that may close a connection without an answer.
CONSTANTS
    Parts = {"crc", "loc", "gw", "price"}
    ServerFaults = TRUE

SPECIFICATION Spec

INVARIANT TypeOK
INVARIANT CrcIsPolynomialRemainder
INVARIANT PinnedVectors
INVARIANT LocationIsGridZone
INVARIANT FirmwareCoordinatesResolve
INVARIANT AcceptedFrameWasSent
INVARIANT StmHaltsOnlyOnNoise
INVARIANT ZonesPriced
PROPERTY GatewayRestartResetsStm

\* calculateCRC8 and location_func return, the gateway's main() returns
\* after it has sent RESTART, and sql_price_db_create stops after its runs:
\* each part ends in a final state.
CHECK_DEADLOCK FALSE
