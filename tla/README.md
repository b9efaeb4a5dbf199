# TLA+ models of the PANGO parking server

PANGO is a parking-meter system in three tiers:

- an STM32 board (`src/STM`) makes 10-byte frames: status, MAC, x, y, CRC-8;
- a BeagleBone gateway (`src/client`) sends those frames to the server over TCP;
- the server (`src/server`) bills each device for the seconds between its
  START and its CLOSE.

The server is where the concurrency is, so it is the core of this project.

## The server: parts and how they interact

| part | code | shared state it touches |
|------|------|-------------------------|
| accept loop | `main_server.c` `main` (l. 95-107) | hands connection *i* the zeroed `client[i]` and a thread |
| client thread | `client_thread.c` `pango_client` + `client_thread_func.c`, `existing_client.c`, `new_client.c` | its own `client[i]`; `your_table` under `mutex` |
| database update thread | `db_update_thread.c` `db_update` + `db_update_thread_func.c` | reads every `client[i].connected`/`time_start_parking`, writes `your_table`, all under `mutex` |
| price table | `city_parking` in `parking_prices_per_city.db` (filled by `sql_price_db_create.c`) | read-only |

`your_table (MAC_ADR, TIME_USED, LOCATION)` has no key. A SELECT reads the first
row of a MAC, while an UPDATE or DELETE touches all of them.

A client thread loops like this:

1. It blocks in `recv`.
2. It checks the CRC.
3. It copies the frame into its struct.
4. It switches on the status byte:
   - **START on a MAC with a row.** The thread runs `retriev_client_data` under
     the mutex. This rebases the start: `time_start_parking = now - TIME_USED`.
     It then sets `connected` and reads the location and the price.
   - **START on an unknown MAC.** The thread runs `process_client_data`: it reads
     the start time, looks up the price under the mutex and inserts a row with
     TIME_USED 0. It then sets `connected` without the mutex.
   - **CLOSE.** Under the mutex the thread writes TIME_USED and clears
     `connected`. After the loop it sends the payment (after `sleep(1)`), then
     deletes the rows under the mutex.

When `recv` returns 0, the thread clears `connected` under the mutex. After the
loop it writes TIME_USED in a second critical section.

`db_update` loops with no sleep. Each iteration holds the mutex. When
`(now - start) % 5 == 0` it writes `now - time_start_parking` for every connected
`client[i]`.

## Modules

- **`ParkingServer.tla`** models the server.
  - **Threads and locking.** Every mutex-protected block is one action. The
    blocks never nest and are the only users of the mutex, so they are atomic
    with respect to each other. Writes a thread makes to its own struct outside
    the mutex are separate actions (`SendStart`, `Online`).
  - **State.** `db` is `your_table` as a sequence of rows. `slot[s]` is
    `client[s]`. `pc`, `status`, `checked`, `endTime` and `buf` are the locals
    of `pango_client`. `now` is `gettimeofday` in whole seconds.
  - **Actions, and the code each one translates** (the exact lines are in
    `PROJECT.json`, under "map"):
    - `Accept` — the accept loop; `AcceptOverrun` — its last iteration,
      `i = SERVER_MAX_NUM_CLIENTS`, which writes `client[10]` past the array.
      That is undefined behaviour. The model takes the outcome that the write
      lands in memory nothing uses again: the loop ends, and the extra thread
      is not followed. `main` reaches `pthread_join` only after this eleventh
      connection, as in the code;
    - `Receive`, `RecvError` (recv -1) and `RecvClosed` (recv 0) — one recv and
      the CRC/struct steps;
    - `Existing` — `retriev_client_data` with its three queries and their
      failure exits;
    - `InitializeStart`, `Insert`, `SendStart` and `Online` — the new-client
      path: the start time, then the price and the INSERT under the mutex,
      then the location sent after the unlock, then `connected = TRUE` back in
      `pango_client`;
    - `Close`, `Pay` and `Remove` — the CLOSE path;
    - `LostSave` — the save after a lost connection;
    - `Reconcile` — one backup iteration of `db_update` (`UpdateClients` is
      `update_clients`);
    - `Tick` — a second passes;
    - `MainJoin`, `FinalFlush` and `Exit` — shutdown. `main` joins `thread[1]`
      alone and sets `return_thread`. `db_update`'s next iteration runs
      `return_database_update_thread`, the final flush, and exits. `main` then
      closes the databases and returns, which ends every other thread where it
      stands. `Exit` also starts the server again on the same `your_table`, at
      most `MaxRuns` times.
  - **Device side.** Each connection's events are a script chosen at `Accept`:
    frames, EOF (recv 0) or RESET (recv -1). `Reconnect` says when a device may
    open its next connection:
    - `done` — once the server thread has exited;
    - `closed` — once it has its last reply and has nothing more to send (the
      gateway's behaviour);
    - `any` — at any time (a gateway that reboots).
  - **Optional sqlite3 failures.** With `DbFaults` set, every sqlite3 call may
    fail. Each failure takes the code's error path.
  - **Ghost variables.** `attached`, `live`, `parked`, `zoneOf` and `billed`
    record the spec's notion of a session. Its time is the seconds during which
    a thread held it, summed over connections from the first START to the CLOSE.
    No action of the code reads them.
  - **Mutants.** The operators that come just before a definition and are named
    as variants of it (`AcceptOverrunLoops`, `RebaseOffByOne`, `SavedTimeStaleEnd`,
    ...) are mutants. They show that each property can fail when the code it is
    about changes.
  - **Refinement.** `SessionStore.tla` is the abstract store of spec 4.3. It
    has one record per device and four atomic operations: `CreateOrResume`,
    `Finalize`, `MarkDisconnected` and `ShutdownFlush`. A second passing is
    `Tick`. `ParkingServer` maps onto it in three parts:
    - `AbsStore`: a device's session is held while some thread holds it
      (`Holds`). Otherwise it is the device's first row, unless a CLOSE is
      finalizing it. A new session is held from `InitializeStart`, where
      `time_start_parking` is taken, and not from the INSERT. The code bills
      from that moment, and the thread may wait a second for the mutex before
      its INSERT. A mapping that creates the session at the INSERT therefore
      fails `billing`: the session would start with those seconds already
      counted.
    - `AbsPaid`: the payments sent so far (`receipts`) followed by the ones
      being sent. `receipts` is a history variable. `Pay` appends to it and
      nothing clears it, so payments survive a restart.
    - `ImplementsSessionStore` checks the instance's `Spec` as a property.
- **`MC_ParkingServer.tla`** instantiates the model. It declares the model
  values, the price function, the scripts a device can follow (a gateway's
  START/CLOSE or START/EOF, a reset, a vanishing gateway, a corrupted frame, an
  ignored status byte, an out-of-range coordinate) and the device symmetry.

- **`Crc8Function.tla`** is `calculateCRC8` as an operator.
  - The server, gateway and firmware copies are the same loop.
  - `CrcFrom` is the byte loop, written as a recursively defined function of
    the byte index; `Steps` (the inner loop) is a RECURSIVE operator.
  - `ByteStepOf` tabulates the eight inner passes. The table and the indexed
    function make TLC evaluate each step once, also when it decides ENABLED
    for the fairness conditions, instead of re-evaluating chains of lazy
    operator arguments.
  - The reference is `PolyRemainder`: a bit-serial GF(2) division of the seeded
    message by x^8+x^7+x^3+x^2+1.
- **`Crc8.tla`** runs the same loops one step at a time, keeping the `uint8_t`
  truncation (`% 256`).
  - `XorByte` is `crc ^= data[i]`.
  - `ShiftBit` is one pass of the inner loop.
- **`Location.tla`** follows a frame's coordinates from where they are made to
  the zone name the server gives them.
  - `GetCoordinates` is the firmware's `get_coordinates`/`rand_uint128`:
    `(uint8_t)(r % 128)` of a 32-bit RNG value.
  - `ForeignFrame` is any other sender. It may put any byte in a frame with a
    valid CRC.
  - `Resolve` is `location_func`.
  - The reference `GridZone` is spec 4.2's grid.
- **`Gateway.tla`** composes the BeagleBone's `main` loop (`main_client.c`) with
  the STM firmware (`PNG.c`) over the two UART directions, `toStm` and `toGw`.
  - **Gateway actions:**
    - `Press` — the button, `write(status)` and the `tcflush` that may drop that
      byte;
    - `Timeout` — a poll timeout, with the `stm_data_receive_error` count and
      RESTART. The poll waits 1000 ms and a frame takes under 1 ms at 115200
      baud, so it times out only when the STM will not answer (`StmSilent`);
      `LeaveLoop` is the exit: the RESTART written after the loop and the
      `close(client_socket)`, on which the server stops counting;
    - `ReadFrame` — a possibly short `read`, `get_status` and `CRC_8_check`;
    - `StartSession`, `EndSession` and `Idle` — the three branches of the loop
      body, each ending in `updating_status_value`.
  - **Firmware actions:**
    - `RxCallback` — `HAL_UART_RxCpltCallback`, with `wrong_status`,
      `Error_Handler`, and the re-arm of the default case, which `exit(1)`s
      when it fails;
    - `RxLost` — a byte that arrives while the interrupt is not armed;
    - `FwMainLoop` — `main_PNG`'s loop: the RESTART reset, or
      `get_coordinates` (a failing RNG enters `Error_Handler`),
      `pack_pango_buffer`, `calculate_crc8`, transmit and the re-arm (`exit(1)`
      when it fails);
    - `FwTransmitFails` — `HAL_UART_Transmit` fails after any prefix of the
      frame, from none to all ten bytes, and `NVIC_SystemReset` runs. At most
      `MaxResets` times.
    - `BoardReset` is the reset and the start of `main_PNG`: the globals take
      their initial values, `get_mac_address` runs (`Error_Handler` when
      `HAL_ETH_Init` fails) and the interrupt is armed again.
    - The HAL failures occur only with `HalFaults`; each stops the STM for
      good.
  - **The server** is abstracted to its answers: a location, "ERROR", a close
    with no answer, or a refused connect. The last two occur only with
    `ServerFaults`.
  - **Line noise** (`UartFaults`) may turn up to `MaxNoise` status bytes into
    one of `NoiseBytes`.
  - **Ghost variables.** `sent`, `session`, `srvLive` and `shown` record what
    the STM sent and what the server did; `resets` counts board resets and
    `quitAt` records `resets` and `noise` when `main` left its loop;
    `resetNoise` is `noise` at the last reset, and `fatal` marks a stop in a
    HAL error path.
- **`PriceTable.tla`** is `sql_price_db_create.c`, the program that fills
  `city_parking`. `Sqlite3Open`, `CreateTable`, `Insert` (four times) and
  `Close` are its statements. With `ExecFaults` each call may fail; the error
  is printed and the next statement runs, and `main` returns 0. The program
  may run again (`MaxRuns`) on the file it left, appending the rows again.
  `RowsOf` is the SELECT of `retrieve_parking_price_per_city_from_database`.
- **`MC_Device.tla`** checks `Crc8`, `Location`, `Gateway` and `PriceTable` in
  one run. The four share no state, so a variable `part` picks the one that
  moves, and the others stay at fixed initial states. The state spaces add
  instead of multiplying.

## Properties

- `TypeOK` — the type invariant.
- `LiveElapsedIsParked` — a connected thread's `now - time_start_parking` equals
  the session's held time. This is the resume semantics of spec 3 and 4.3.
- `PaymentIsParkedTime` — every payment sent covers exactly the session's held
  time, at the price of the session's zone (spec 8).
- `SingleActiveSession` — no two connected threads share a MAC (spec 8). It is
  checked only by `half_open`: with `Reconnect = "done"` a device reconnects
  only after its thread has exited, so there it would only restate
  `TerminatedNotConnected`.
- `AtMostOneRowPerDevice` — `your_table` has at most one row per MAC (spec 3).
- `TerminatedNotConnected` — a thread that has exited leaves no session
  counting.
- `PersistedElapsedNeverDecreases` — an action property: TIME_USED of a row
  never goes down (spec 3 and 8).
- `UnresolvedZoneNeverCounts` — a START whose coordinates do not resolve never
  becomes a counting session (spec 4.4).
- `StartAnswered` — a liveness property: every START a thread takes up is
  answered, with a location or with "ERROR", unless the process exits first.

- `ImplementsSessionStore` — the server, through the refinement mapping,
  implements `SessionStore`. Every step either leaves each device's session
  unchanged or is one of the store's operations.
- `AcceptedFrameWasSent` (Gateway) — a frame the gateway acts on as ON or OFF
  is, byte for byte, a frame the STM transmitted. It holds despite short
  reads, flushes and noise.
- `ReportsServerOutcome` (Gateway) — this property has two parts:
  - while the gateway holds itself connected, the server is counting time for
    it;
  - the payment it prints is the one the server sent for that session.

- `GatewayRestartResetsStm` (Gateway) — a liveness property: once the
  gateway's `main` has left its loop (three poll timeouts, or a failed send or
  recv), the RESTART it writes resets the STM, unless line noise corrupted a
  status byte after the quit or the STM sits in `Error_Handler`.
- `StmHaltsOnlyOnNoise` (Gateway) — the receive callback gives up
  (`wrong_status % 5 == 0`, then `Error_Handler`) only after line noise has
  corrupted four status bytes since the STM's last reset. `wrong_status`
  counts unknown bytes whether or not they are consecutive. The property holds
  because every status the gateway writes is one the STM knows;
  `updating_status_value` without its `case 0` would write a 0 and break it.
- `ZonesPriced` (PriceTable) — once a run of `sql_price_db_create` has
  succeeded in every call, every zone name `location_func` can write has a row
  in `city_parking`; and all rows of a city, whichever run inserted them,
  carry one price, so the duplicate the SELECT returns first does not matter.

- `CrcIsPolynomialRemainder` (Crc8) — the loop, run to its end, returns the
  remainder of the polynomial division, and so does the recursive operator.
- `PinnedVectors` (Crc8) — spec 8's frame `01 AA BB CC DD EE FF 23 45` has CRC
  0x29. A zeroed 9-byte buffer does not carry its own CRC, because its CRC is
  not 0.
- `LocationIsGridZone` (Location) — for all 256x256 byte pairs, `location_func`
  gives spec 4.2's zone, and "ERROR" exactly outside 0..127.
- `FirmwareCoordinatesResolve` (Location) — coordinates the firmware draws never
  resolve to "ERROR".

## Runs

| run | expect | what it shows |
|-----|--------|---------------|
| `billing` | pass | Two devices with three sequential connections (START/CLOSE or START/EOF), time 0..3 and backups every 2 s. This covers fresh sessions, resumed sessions, the lost-connection save, payment and removal, interleaved with `db_update`. All seven properties of the cfg hold, the refinement included: 679,994 distinct states. |
| `progress` | pass | One device, two connections, with resets, ignored status bytes, every sqlite3 failure, and one shutdown and restart. Every START is answered, unless the process ends first. |
| `reset_replay` | violation | A recv of -1 after a new client's START replays the START. The replay takes the resume path, and the seconds counted since the last backup are lost. |
| `lost_save_race` | violation | The device reconnects between the two critical sections of a lost connection. It resumes from a stale TIME_USED, and the persisted time goes from 1 down to 0. |
| `close_reconnect` | violation | The device reconnects after it is paid but before the row is deleted. It is charged for the same second twice. |
| `half_open` | violation | A vanished gateway's thread stays connected. The device's next connection makes two threads count one MAC. |
| `concurrent_start` | violation | Two connections of one MAC both pass the unlocked existence check, and both insert a row. |
| `crc_orphan` | violation | A corrupted frame after START ends the thread with `connected` still TRUE. |
| `error_zone` | violation | An out-of-range coordinate is stored as location "ERROR" and counts time. |
| `device` | pass | `MC_Device`, 1,487,365 states in about 3 minutes. **CRC:** every 1- and 2-byte message and both spec-8 frames; the byte loop is the polynomial remainder, and the spec-8 vector gives 0x29. **Location:** every byte pair from another sender, and RNG values around every boundary of `% 128` and of the 70 split; `location_func` matches the grid, and the firmware's coordinates never give "ERROR". **Gateway:** one session, up to four noisy bytes, one failed transmit after any prefix of a frame, HAL failures, short reads and a server that may close without answering; the gateway acts only on frames the STM sent, the STM halts on `wrong_status` only after four corrupted bytes since its reset, and the RESTART the gateway writes when it quits resets the STM. **Price table:** two runs of `sql_price_db_create` with any call failing; a clean run prices every zone, at one price. |
| `shutdown` | violation | One shutdown and restart. `main` returns after the final flush and ends every other thread where it stands. The shortest trace ends a thread between `initialize_and_get_start_time` and its INSERT: the START it took up, whose clock had started, gets no answer and leaves no row. A longer trace ends a thread that has inserted its row and sent its location but has not set `connected`: the final flush skips it, and its seconds are lost. Spec 5 says graceful shutdown waits for in-flight handlers to finish their current frame. |
| `gateway_connect` | violation | The server closes a connection without an answer. `recv` returns 0, the location buffer is stale, and the uint8_t results never equal ERROR, so the gateway sets `connected` for a session the server never started. |

The findings in `PROJECT.json` explain each violation and give the line it comes
from.

### Bounds

- **Time.** `MaxTime` is 2 to 4 seconds, and `Period` (the backup period,
  `NUMBER_OF_SECONDS_BETWEEN_BACKUPS`) is 2 instead of 5. The code's behaviour
  depends only on whether a backup falls between two steps, not on the length
  of the period. Every race above needs at most one backup and two ticks.
- **Connections.** 2 or 3 slots (the code has 10). Every hazard involves at most
  two connections of one device, plus one other device for cross-contamination.
- **Zones.** One zone with a price. A second zone only multiplies states: the
  price is read per session and never compared across zones.
- **Restarts.** `MaxRuns` is 0 in `billing` and 1 in `progress` and
  `shutdown`. A single restart already puts a killed thread's loss, and the rows
  it leaves, in front of the next run.
- **Gateway.** One server session (`MaxSessions`), one RNG value, and up to
  four corrupted bytes. Four is the fewest that halt the STM: every unknown
  byte costs a poll timeout, the third timeout ends `main`, and one of the
  RESTARTs it writes must then be corrupted too. With fewer, the halt branch
  goes unvisited. Three noise
  values cover the three classes of byte: 0, RESTART and an unknown byte.
  One failed transmit (`MaxResets`) puts a board reset between any two
  gateway steps.
- **Price table.** Two runs of `sql_price_db_create`: the second appends
  duplicates to what the first left, with any of its calls failing.
- **Symmetry.** The devices are symmetric in `billing`, because nothing in the
  server depends on a MAC's value. The liveness run uses no symmetry.

### Fairness

`Spec` assumes weak fairness of each client thread's own steps (`Serve`). The
steps that wait for the device (`Receive` and the recv outcomes) are not fair,
since a device may stay silent forever. `Accept`, `Reconcile` and `Tick` are not
fair either. The fairness assumes that a thread waiting for the mutex
eventually gets it. `db_update` unlocks the mutex at the end of every iteration,
but it relocks it immediately. This fairness is therefore an assumption about
the pthread scheduler, and the hazards list records it.

Deadlock checking is off. The real server does stop: when all devices are done,
the threads sit in `recv` and `main` blocks in `accept`. In `MC_Device`,
`calculateCRC8` and `location_func` return, and the gateway's `main` returns
after its RESTART, and `sql_price_db_create` stops after its runs: each part
ends in a final state.

`MC_Device`'s `Spec` assumes weak fairness of the STM: a byte on the line is
taken by the receive interrupt (or lost, when it is not armed), and
`main_PNG`'s `while(1)` spins, so a raised `interrupt_flag` is served. The
gateway's own steps and the button press have no fairness: the checked
liveness property starts once the gateway's `main` has returned. The fairness
of the main loop is written out as `<>[]P => []<><<A>>_vars` over its guard
`FwLoopPending`, which is exactly when the step is enabled (the frames it may
build are never none).

## Not modelled

- **The frame round trip on the server side**: `store_client_data_in_struct`
  and the MAC printed with `%x`. `ParkingServer` abstracts a frame to its
  device, zone and CRC flag.
- **Recovery of a halted STM.** After `Error_Handler` or `exit(1)` the board
  answers nothing more, and `GatewayRestartResetsStm` has to except it. No
  property states what should follow: the comment at `PNG.c:98` asks for the
  restart button.
- **The mutex initialised after `db_update` starts** (`main_server.c:88-93`).
  Only the thread's `sleep(1)` orders the two; the untimed model starts the
  server with both in place.
- **Cumulative poll timeouts.** `stm_data_receive_error` is never reset, so the
  third timeout of the gateway's life ends `main`. The quit path is checked;
  nothing in the spec or the comments says how many timeouts should be
  tolerated, so no property states it.
- **A failing run of `sql_price_db_create`** returns 0 and leaves a zone
  without a row. `ZonesPriced` covers a clean run; no property claims more.
- **The socket leaked after an "ERROR" answer.** File descriptors are not
  state of the model.
- **Left out of the model:**
  - what the eleventh accept's write past `client[]` corrupts, and the thread
    it starts: that depends on the frame layout the compiler picks;
  - the button thread `start_end_func`, which only makes UART4's poll return
    (`Press`), the UART set-up, `Tools.c`'s printf retargeting, and the HAL
    drivers beyond the outcomes of their calls;
  - SQL text built with `sprintf`, which is formatting; `ParkingServer`'s
    `Price` constant stands for the table `PriceTable` fills.
