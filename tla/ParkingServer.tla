--------------------------- MODULE ParkingServer ---------------------------
(***************************************************************************)
(* The server of the parking system (src/server): one client thread per    *)
(* accepted TCP connection (pango_client), the database update thread     *)
(* (db_update) and the client table your_table they share under the one   *)
(* global mutex.  Every mutex-protected block of the code is one action:   *)
(* the blocks never nest and nothing else takes the mutex, so they are     *)
(* atomic with respect to each other.  Writes a thread makes to its own    *)
(* struct pango_data outside the mutex are actions of their own.           *)
(*                                                                         *)
(* Time is the integer second gettimeofday returns; a device is a MAC      *)
(* address; a coordinate pair is abstracted to the zone location_func      *)
(* gives it.  The device side of each connection is a script of events    *)
(* (frames, an orderly close, a reset) chosen from Scripts when the        *)
(* connection is accepted.                                                 *)
(*                                                                         *)
(* Ghost variables (attached, live, parked, zoneOf, billed) record what   *)
(* the spec says a session's time is: the seconds during which a handler  *)
(* held the session, summed over connections, from its first START to its *)
(* CLOSE.  They are never read by an action of the code.                   *)
(***************************************************************************)
EXTENDS Integers, Sequences, FiniteSetsExt

CONSTANTS
    Devices,          \* MAC addresses of the devices (model values)
    NoDevice,         \* the empty mac_address of a memset struct
    NumSlots,         \* connections main() accepts: its client[] array
    Zones,            \* zones with a row in city_parking
    ErrZone,          \* "ERROR": location_func of an out-of-range pair
    NoZone,           \* the empty location of a memset struct
    Price,            \* city_parking: zone -> price per second
    T0,               \* the second the server (and db_update) starts
    MaxTime,          \* bound: seconds the model lets pass
    Period,           \* NUMBER_OF_SECONDS_BETWEEN_BACKUPS
    Scripts,          \* what a device may do on one connection
    Reconnect,        \* when a device opens its next connection
    DbFaults,         \* whether a sqlite3 call may fail
    MaxRuns           \* bound: lifetimes of the process that end in shutdown

Slots == 1..NumSlots

\* A frame as store_client_data_in_struct reads it: the status byte, the
\* zone of (x, y), and whether buff[9] matched calculateCRC8.
Statuses == {"START", "CLOSE", "OTHER"}
Frames == [st : Statuses, xy : Zones \cup {ErrZone}, crcOk : BOOLEAN]
\* client_data_buff before the first recv: all zeros, and calculateCRC8 of
\* nine zero bytes is 0x2F, not 0, so it fails the check.
ZeroFrame == [st |-> "ZERO", xy |-> NoZone, crcOk |-> FALSE]
\* recv returning 0 (the peer closed) and -1 (an error, e.g. a reset).
EOF == [st |-> "EOF", xy |-> NoZone, crcOk |-> TRUE]
RESET == [st |-> "RESET", xy |-> NoZone, crcOk |-> TRUE]
Events == Frames \cup {EOF, RESET}

ASSUME /\ NumSlots \in Nat \ {0}
       /\ Price \in [Zones -> Nat]
       /\ Period \in Nat \ {0} /\ MaxTime \in Nat /\ T0 \in Nat
       /\ Scripts \subseteq Seq(Events)
       /\ Reconnect \in {"done", "closed", "any"}
       /\ DbFaults \in BOOLEAN
       /\ MaxRuns \in Nat

VARIABLES
    now,        \* gettimeofday().tv_sec
    db,         \* your_table, in row order: [mac, used (TIME_USED), loc]
    slot,       \* client[s]: struct pango_data
    pc,         \* where the thread of connection s is
    status,     \* pango_client's local status
    checked,    \* pango_client's local checked_database
    endTime,    \* pango_client's local end_time
    buf,        \* pango_client's client_data_buff (the last frame read)
    dev,        \* the device at the other end of connection s
    script,     \* what that device does on connection s
    pos,        \* the next event of script[s]
    replies,    \* what the server has sent on connection s
    receipts,   \* the payments each device has received, over all connections
    accepted,   \* connections main() has accepted
    mainPc,     \* where main() is: its accept loop, or shutting down
    dbThread,   \* whether db_update is still looping
    epoch,      \* db_update's database_backup_start_time
    run,        \* lifetimes of the process that have ended
    attached, live, parked, zoneOf, billed   \* ghost

vars == <<now, db, slot, pc, status, checked, endTime, buf, dev, script,
          pos, replies, receipts, accepted, mainPc, dbThread, epoch, run,
          attached, live, parked, zoneOf, billed>>
procVars == <<mainPc, dbThread, epoch, run>>

NoBill == -1
ErrorReply == [kind |-> "error"]
LocReply(z) == [kind |-> "loc", zone |-> z]

PriceOf(z) == IF z \in Zones THEN Price[z] ELSE 0

-----------------------------------------------------------------------------
(* The client table.  It has no key: a SELECT reads the first row of a MAC, *)
(* an UPDATE or DELETE touches every row of it.                           *)

RowsOf(d) == {i \in DOMAIN db : db[i].mac = d}
HasRow(d) == RowsOf(d) # {}
FirstRow(d) == db[Min(RowsOf(d))]

\* UPDATE your_table SET TIME_USED = t WHERE MAC_ADR = d
SetUsed(d, t) == [i \in DOMAIN db |->
                    IF db[i].mac = d THEN [db[i] EXCEPT !.used = t] ELSE db[i]]

\* DELETE FROM your_table WHERE MAC_ADR = d
DeleteRows(d) == SelectSeq(db, LAMBDA r : r.mac # d)

\* retrieve_parking_price_per_city_from_database: no row leaves price as is.
PriceLookup(z, old) == IF z \in Zones THEN Price[z] ELSE old

ExistOutcomes == {"ok"} \cup (IF DbFaults THEN {"failTime", "failLoc", "failPrice"} ELSE {})
InsertOutcomes == {"ok"} \cup (IF DbFaults THEN {"failPrice", "failInsert"} ELSE {})
WriteOutcomes == {"ok"} \cup (IF DbFaults THEN {"fail"} ELSE {})

\* Mutant: the resumed start one second late.
RebaseOffByOne(s, used) == now - used + 1

\* update_client_and_continue_time: time_start_parking = now - TIME_USED.
Rebase(s, used) == now - used

\* Mutant: TIME_USED computed from end_time before it is refreshed.
SavedTimeStaleEnd(s) == endTime[s] - slot[s].start

\* update_client_data: TIME_USED = now - time_start_parking.
SavedTime(s) == now - slot[s].start

\* Mutant: the location is never written to the socket.
SendLocationLost(s, z) == UNCHANGED replies

\* send_client_location: the 12-byte location field.
SendLocation(s, z) == replies' = [replies EXCEPT ![s] = Append(@, LocReply(z))]

\* Mutant: the elapsed time taken when the payment is sent, after sleep(1).
PayElapsedAtSend(s) == now - slot[s].start

\* calculate_and_send_payment_data: end_time - time_start_parking.
PayElapsed(s) == endTime[s] - slot[s].start

\* Mutant: the struct left marked connected.
KeepConnected(s) == UNCHANGED slot

\* client->connected = FALSE
ClearConnected(s) == slot' = [slot EXCEPT ![s].connected = FALSE]

-----------------------------------------------------------------------------
EmptyClient == [mac |-> NoDevice, xy |-> NoZone, loc |-> NoZone, price |-> 0,
                start |-> 0, connected |-> FALSE]

Init ==
    /\ now = T0
    /\ db = <<>>
    /\ slot = [s \in Slots |-> EmptyClient]
    /\ pc = [s \in Slots |-> "idle"]
    /\ status = [s \in Slots |-> "CLOSE"]     \* STATUS_INITIAL_VALUE
    /\ checked = [s \in Slots |-> FALSE]
    /\ endTime = [s \in Slots |-> 0]
    /\ buf = [s \in Slots |-> ZeroFrame]
    /\ dev = [s \in Slots |-> NoDevice]
    /\ script = [s \in Slots |-> <<>>]
    /\ pos = [s \in Slots |-> 1]
    /\ replies = [s \in Slots |-> <<>>]
    /\ receipts = [d \in Devices |-> <<>>]
    /\ accepted = 0
    /\ mainPc = "accept"
    /\ dbThread = "running"
    /\ epoch = T0
    /\ run = 0
    /\ attached = [s \in Slots |-> FALSE]
    /\ live = [d \in Devices |-> FALSE]
    /\ parked = [d \in Devices |-> 0]
    /\ zoneOf = [d \in Devices |-> NoZone]
    /\ billed = [s \in Slots |-> NoBill]
-----------------------------------------------------------------------------
(* main(): the accept loop hands connection s a fresh, zeroed client[s]    *)
(* and a thread.  Which device connects, and with what script, is chosen   *)
(* here; Reconnect says when a device may open another connection.         *)

\* The device has had the reply to its last frame and has nothing more to
\* send on connection s.
AwaitingReply == {"existing", "init", "insert", "send", "close", "pay"}
DeviceFinished(s) ==
    /\ \A i \in pos[s]..Len(script[s]) : script[s][i] \notin Frames
    /\ pc[s] \notin AwaitingReply

MayConnect(d) ==
    CASE Reconnect = "done"   -> \A s \in Slots : dev[s] = d => pc[s] = "done"
      [] Reconnect = "closed" -> \A s \in Slots : dev[s] = d => DeviceFinished(s)
      [] OTHER                -> TRUE

Accept ==
    /\ mainPc = "accept"
    /\ accepted < NumSlots
    /\ \E d \in Devices, sc \in Scripts :
         LET s == accepted + 1 IN
         /\ MayConnect(d)
         /\ pc' = [pc EXCEPT ![s] = "recv"]
         /\ dev' = [dev EXCEPT ![s] = d]
         /\ script' = [script EXCEPT ![s] = sc]
         /\ accepted' = s
    /\ UNCHANGED <<receipts, now, db, slot, status, checked, endTime, buf, pos, replies,
                   attached, live, parked, zoneOf, billed>>
    /\ UNCHANGED procVars

(* The loop runs i <= SERVER_MAX_NUM_CLIENTS: its last iteration accepts   *)
(* one more connection and writes client[i] and thread[i] past both        *)
(* arrays, into whatever main()'s frame holds next.  That is undefined     *)
(* behaviour; the outcome taken is that the write lands in memory the      *)
(* program does not use again: the loop ends and the extra thread, which   *)
(* serves its device from that memory, is not followed.                   *)

\* Mutant: the loop bound one further, i <= SERVER_MAX_NUM_CLIENTS + 1.
AcceptOverrunLoops ==
    /\ mainPc = "accept"
    /\ accepted \in NumSlots..(NumSlots + 1)
    /\ accepted' = accepted + 1
    /\ UNCHANGED <<receipts, now, db, slot, pc, status, checked, endTime, buf, dev, script,
                   pos, replies, attached, live, parked, zoneOf, billed>>
    /\ UNCHANGED procVars

AcceptOverrun ==
    /\ mainPc = "accept"
    /\ accepted = NumSlots
    /\ accepted' = NumSlots + 1
    /\ UNCHANGED <<receipts, now, db, slot, pc, status, checked, endTime, buf, dev, script,
                   pos, replies, attached, live, parked, zoneOf, billed>>
    /\ UNCHANGED procVars

-----------------------------------------------------------------------------
(* pango_client: one iteration of its loop, from the recv of               *)
(* wait_for_data_from_client through CRC_8_check,                         *)
(* store_client_data_in_struct and the switch on status.  The existence   *)
(* check of the START case reads the table without the mutex.            *)

HasEvent(s) == pos[s] <= Len(script[s])
Event(s) == script[s][pos[s]]

\* The thread's exit on an error status: send "ERROR", close the socket.
Fail(s, st) ==
    /\ status' = [status EXCEPT ![s] = st]
    /\ pc' = [pc EXCEPT ![s] = "done"]
    /\ replies' = [replies EXCEPT ![s] = Append(@, ErrorReply)]
    /\ attached' = [attached EXCEPT ![s] = FALSE]

\* new_client: TRUE when the existence check has not been made.
NewClient(checkedDatabase) == ~checkedDatabase

\* Mutant: new_client without the existence check before it.
NextPcNoCheck(s, st) ==
    CASE st = "START" /\ NewClient(checked[s]) -> "init"
      [] st = "CLOSE"                           -> "close"
      [] OTHER                                  -> "recv"

\* The branch of the switch a valid frame takes.  clinet_exist_in_database_check
\* answers FALSE once checked_database is set, and new_client only when it
\* is not.
NextPc(s, st) ==
    CASE st = "START" /\ ~checked[s] /\ HasRow(dev[s]) -> "existing"
      [] st = "START" /\ NewClient(checked[s])         -> "init"
      [] st = "CLOSE"                                  -> "close"
      [] OTHER                                         -> "recv"

\* CRC_8_check: buff[9] == calculateCRC8(buff, 9); a frame carries the
\* outcome as crcOk (Crc8Function computes the value itself).
CRC_8_check(f) == f.crcOk

Deliver(s, f) ==
    \/ /\ ~CRC_8_check(f)
       /\ Fail(s, "CRCFAIL")
       /\ UNCHANGED slot
    \/ /\ CRC_8_check(f)
       /\ slot' = [slot EXCEPT ![s].mac = dev[s], ![s].xy = f.xy]
       /\ status' = [status EXCEPT ![s] = f.st]
       /\ pc' = [pc EXCEPT ![s] = NextPc(s, f.st)]
       /\ UNCHANGED <<replies, attached>>

Receive(s) ==
    /\ pc[s] = "recv" /\ HasEvent(s) /\ Event(s) \in Frames
    /\ Deliver(s, Event(s))
    /\ buf' = [buf EXCEPT ![s] = Event(s)]
    /\ pos' = [pos EXCEPT ![s] = @ + 1]
    /\ UNCHANGED <<receipts, now, db, checked, endTime, dev, script, accepted,
                   live, parked, zoneOf, billed>>

\* recv returns -1: the buffer keeps the last frame, which is handled again.
RecvError(s) ==
    /\ pc[s] = "recv" /\ HasEvent(s) /\ Event(s) = RESET
    /\ Deliver(s, buf[s])
    /\ pos' = [pos EXCEPT ![s] = @ + 1]
    /\ UNCHANGED <<receipts, now, db, checked, endTime, buf, dev, script, accepted,
                   live, parked, zoneOf, billed>>

\* Mutant: wait_for_data_from_client without its connected := FALSE.
RecvClosedKeepsConnected(s) ==
    /\ pc[s] = "recv" /\ HasEvent(s) /\ Event(s) = EOF
    /\ status' = [status EXCEPT ![s] = "LOST"]
    /\ pc' = [pc EXCEPT ![s] = "lostSave"]
    /\ pos' = [pos EXCEPT ![s] = @ + 1]
    /\ UNCHANGED <<receipts, now, db, slot, checked, endTime, buf, dev, script, replies,
                   accepted, attached, live, parked, zoneOf, billed>>

\* recv returns 0: under the mutex connected := FALSE; status CONNECTION_LOST.
RecvClosed(s) ==
    /\ pc[s] = "recv" /\ HasEvent(s) /\ Event(s) = EOF
    /\ ClearConnected(s)
    /\ status' = [status EXCEPT ![s] = "LOST"]
    /\ pc' = [pc EXCEPT ![s] = "lostSave"]
    /\ pos' = [pos EXCEPT ![s] = @ + 1]
    /\ UNCHANGED <<receipts, now, db, checked, endTime, buf, dev, script, replies,
                   accepted, attached, live, parked, zoneOf, billed>>
-----------------------------------------------------------------------------
(* The START case, for a MAC already in the table: retriev_client_data,    *)
(* one mutex block of three queries.  retrieve_time_start_parking_value_   *)
(* from_database reads TIME_USED into time_start_parking; update_client_   *)
(* and_continue_time rebases it to now - TIME_USED, sets connected and     *)
(* reads the row's LOCATION; then the price.  A query that finds no row    *)
(* (the row was deleted since the check) leaves the field as it was.      *)

Existing(s) ==
    /\ pc[s] = "existing"
    /\ \E o \in ExistOutcomes :
         LET d == slot[s].mac
             found == HasRow(d)
             used == IF found THEN FirstRow(d).used ELSE slot[s].start
             loc == IF found THEN FirstRow(d).loc ELSE slot[s].loc
             resumed == [slot[s] EXCEPT !.start = Rebase(s, used), !.connected = TRUE]
         IN
         \/ /\ o = "failTime"
            /\ Fail(s, "ERR_EXIST")
            /\ UNCHANGED <<slot, checked, live, parked, zoneOf>>
         \/ /\ o \in {"failLoc", "failPrice"}
            /\ slot' = [slot EXCEPT ![s] = IF o = "failLoc" THEN resumed
                                            ELSE [resumed EXCEPT !.loc = loc]]
            /\ Fail(s, "ERR_EXIST")
            /\ UNCHANGED <<checked, live, parked, zoneOf>>
         \/ /\ o = "ok"
            /\ slot' = [slot EXCEPT ![s] = [resumed EXCEPT !.loc = loc,
                                               !.price = PriceLookup(loc, slot[s].price)]]
            /\ checked' = [checked EXCEPT ![s] = TRUE]
            /\ pc' = [pc EXCEPT ![s] = "recv"]
            /\ SendLocation(s, loc)
            /\ UNCHANGED status
            \* ghost: a session the spec does not know is a new one
            /\ attached' = [attached EXCEPT ![s] = TRUE]
            /\ live' = [live EXCEPT ![d] = TRUE]
            /\ parked' = IF live[d] THEN parked ELSE [parked EXCEPT ![d] = 0]
            /\ zoneOf' = IF live[d] THEN zoneOf ELSE [zoneOf EXCEPT ![d] = loc]
    /\ UNCHANGED <<receipts, now, db, endTime, buf, dev, script, pos, accepted, billed>>

(* The START case for a MAC not in the table: process_client_data.         *)
(* initialize_and_get_start_time runs before the mutex is taken.          *)
InitializeStart(s) ==
    LET d == slot[s].mac IN
    /\ pc[s] = "init"
    /\ slot' = [slot EXCEPT ![s].start = now, ![s].loc = slot[s].xy]
    /\ pc' = [pc EXCEPT ![s] = "insert"]
    /\ attached' = [attached EXCEPT ![s] = TRUE]
    /\ parked' = IF live[d] THEN parked ELSE [parked EXCEPT ![d] = 0]
    /\ zoneOf' = IF live[d] THEN zoneOf ELSE [zoneOf EXCEPT ![d] = slot[s].xy]
    /\ UNCHANGED <<receipts, now, db, status, checked, endTime, buf, dev, script, pos,
                   replies, accepted, live, billed>>

\* Under the mutex: the price, then INSERT (mac, 0, location); the location
\* is sent after the unlock.  checked_database stays FALSE.
Insert(s) ==
    /\ pc[s] = "insert"
    /\ \E o \in InsertOutcomes :
         LET cl == slot[s]
             priced == [slot EXCEPT ![s].price = PriceLookup(cl.loc, cl.price)]
         IN
         \/ /\ o = "failPrice"
            /\ Fail(s, "ERR_NEW")
            /\ UNCHANGED <<db, slot>>
         \/ /\ o = "failInsert"
            /\ slot' = priced
            /\ Fail(s, "ERR_NEW")
            /\ UNCHANGED db
         \/ /\ o = "ok"
            /\ slot' = priced
            /\ db' = Append(db, [mac |-> cl.mac, used |-> 0, loc |-> cl.loc])
            /\ pc' = [pc EXCEPT ![s] = "send"]
            /\ UNCHANGED <<status, attached>>
    /\ UNCHANGED <<receipts, now, checked, endTime, buf, dev, script, pos, replies,
                   accepted, live, parked, zoneOf, billed>>

\* After the unlock: send_client_location answers the START, STAY.
SendStart(s) ==
    /\ pc[s] = "send"
    /\ SendLocation(s, slot[s].loc)
    /\ pc' = [pc EXCEPT ![s] = "online"]
    /\ UNCHANGED <<receipts, now, db, slot, status, checked, endTime, buf, dev, script,
                   pos, accepted, attached, live, parked, zoneOf, billed>>

\* Back in pango_client, without the mutex: client->connected = TRUE.
Online(s) ==
    /\ pc[s] = "online"
    /\ slot' = [slot EXCEPT ![s].connected = TRUE]
    /\ pc' = [pc EXCEPT ![s] = "recv"]
    /\ live' = [live EXCEPT ![slot[s].mac] = TRUE]
    /\ UNCHANGED <<receipts, now, db, status, checked, endTime, buf, dev, script, pos,
                   replies, accepted, attached, parked, zoneOf, billed>>

-----------------------------------------------------------------------------
(* The CLOSE case, under the mutex: update_client_data writes              *)
(* TIME_USED = now - time_start_parking and sets end_time, then            *)
(* connected := FALSE.  An sqlite3 error makes the status CLOSE_APP_ERROR, *)
(* for which the exit sends nothing and deletes nothing.                  *)
Close(s) ==
    LET d == slot[s].mac IN
    /\ pc[s] = "close"
    /\ \E o \in WriteOutcomes :
         /\ db' = IF o = "ok" THEN SetUsed(d, SavedTime(s)) ELSE db
         /\ status' = [status EXCEPT ![s] = IF o = "ok" THEN @ ELSE "CLOSE_ERR"]
         /\ pc' = [pc EXCEPT ![s] = IF o = "ok" THEN "pay" ELSE "done"]
         /\ billed' = IF o = "ok" /\ live[d]
                      THEN [billed EXCEPT ![s] = parked[d]] ELSE billed
         /\ live' = IF o = "ok" THEN [live EXCEPT ![d] = FALSE] ELSE live
    /\ endTime' = [endTime EXCEPT ![s] = now]
    /\ ClearConnected(s)
    /\ attached' = [attached EXCEPT ![s] = FALSE]
    /\ UNCHANGED <<receipts, now, checked, buf, dev, script, pos, replies, accepted,
                   parked, zoneOf>>

\* After the loop, status CLOSE_APP: calculate_and_send_payment_data (after
\* its sleep(1)), without the mutex.
Pay(s) ==
    LET cl == slot[s]
        elapsed == PayElapsed(s)
    IN
    /\ pc[s] = "pay"
    /\ replies' = [replies EXCEPT ![s] = Append(@,
                     [kind |-> "pay", elapsed |-> elapsed, fee |-> cl.price * elapsed,
                      expect |-> billed[s], zone |-> zoneOf[cl.mac]])]
    /\ receipts' = [receipts EXCEPT ![dev[s]] =
                       Append(@, [elapsed |-> elapsed, fee |-> cl.price * elapsed])]
    /\ pc' = [pc EXCEPT ![s] = "remove"]
    /\ UNCHANGED <<now, db, slot, status, checked, endTime, buf, dev, script,
                   pos, accepted, attached, live, parked, zoneOf, billed>>

\* Then, under the mutex, remove_client_data: DELETE the MAC's rows.
Remove(s) ==
    /\ pc[s] = "remove"
    /\ \E o \in WriteOutcomes : db' = IF o = "ok" THEN DeleteRows(slot[s].mac) ELSE db
    /\ pc' = [pc EXCEPT ![s] = "done"]
    /\ UNCHANGED <<receipts, now, slot, status, checked, endTime, buf, dev, script, pos,
                   replies, accepted, attached, live, parked, zoneOf, billed>>

\* After the loop, status CONNECTION_LOST: update_client_data under the
\* mutex, a second block after the one that cleared connected.
LostSave(s) ==
    /\ pc[s] = "lostSave"
    /\ \E o \in WriteOutcomes :
         db' = IF o = "ok" THEN SetUsed(slot[s].mac, SavedTime(s)) ELSE db
    /\ endTime' = [endTime EXCEPT ![s] = now]
    /\ pc' = [pc EXCEPT ![s] = "done"]
    /\ attached' = [attached EXCEPT ![s] = FALSE]
    /\ UNCHANGED <<receipts, now, slot, status, checked, buf, dev, script, pos, replies,
                   accepted, live, parked, zoneOf, billed>>

-----------------------------------------------------------------------------
(* db_update: one iteration of its loop holds the mutex.  time_to_backup   *)
(* fires in every iteration of a second where (now - start) % 5 = 0, and  *)
(* update_clients then writes now - time_start_parking for each client[i] *)
(* that is connected, in index order, so the last one of a MAC wins.  A   *)
(* failed sqlite3_exec (the slots in failed) is only reported.            *)
UpdateClients(failed) ==
    LET writers(d) == {s \in Slots \ failed : slot[s].connected /\ slot[s].mac = d}
    IN [i \in DOMAIN db |->
          IF writers(db[i].mac) = {} THEN db[i]
          ELSE [db[i] EXCEPT !.used = now - slot[Max(writers(db[i].mac))].start]]

SqlFailures == SUBSET (IF DbFaults THEN Slots ELSE {})

\* time_to_backup: (current_time - database_backup_start_time) %
\* NUMBER_OF_SECONDS_BETWEEN_BACKUPS == 0.
TimeToBackup(t) == (t - epoch) % Period = 0

Reconcile ==
    /\ dbThread = "running" /\ mainPc # "teardown"
    /\ now > epoch                \* set_start_time, then sleep(1)
    /\ TimeToBackup(now)
    /\ \E failed \in SqlFailures : db' = UpdateClients(failed)
    /\ UNCHANGED <<receipts, now, slot, pc, status, checked, endTime, buf, dev, script, pos,
                   replies, accepted, attached, live, parked, zoneOf, billed>>
    /\ UNCHANGED procVars

\* A second passes; a session accrues it while a handler holds it.  main()
\* exits within the same second as db_update's final flush.
Tick ==
    /\ now < T0 + MaxTime
    /\ ~(mainPc = "teardown" /\ dbThread = "exited")
    /\ now' = now + 1
    /\ parked' = [d \in Devices |->
                    IF \E s \in Slots : attached[s] /\ dev[s] = d
                    THEN parked[d] + 1 ELSE parked[d]]
    /\ UNCHANGED <<receipts, db, slot, pc, status, checked, endTime, buf, dev, script, pos,
                   replies, accepted, attached, live, zoneOf, billed>>
    /\ UNCHANGED procVars

-----------------------------------------------------------------------------
(* Shutdown.  The accept loop ends once it has handed out every client[]   *)
(* (its last, eleventh, iteration accepts one more connection into the    *)
(* element past the array, whose thread is not modelled).  main() then    *)
(* joins thread[1] alone, sets return_thread, and joins db_update, which  *)
(* flushes every connected client once more and exits.  main() closes the *)
(* socket and both databases and returns: the process ends with whatever  *)
(* the other client threads were doing.  The model then starts the server *)
(* again on the same your_table, MaxRuns times at most.                   *)

ThreadOne == 2      \* thread[1] serves the second connection accepted

MainJoin ==
    /\ mainPc = "accept" /\ run < MaxRuns
    /\ accepted = NumSlots + 1
    /\ ThreadOne \in Slots /\ pc[ThreadOne] = "done"
    /\ mainPc' = "teardown"         \* return_thread = RETURN_THE_DATABASE_UPDATE_THREAD
    /\ UNCHANGED <<receipts, now, db, slot, pc, status, checked, endTime, buf, dev, script,
                   pos, replies, accepted, dbThread, epoch, run,
                   attached, live, parked, zoneOf, billed>>

\* db_update's last iteration: return_database_update_thread.
FinalFlush ==
    /\ mainPc = "teardown" /\ dbThread = "running"
    /\ \E failed \in SqlFailures : db' = UpdateClients(failed)
    /\ dbThread' = "exited"
    /\ UNCHANGED <<receipts, now, slot, pc, status, checked, endTime, buf, dev, script, pos,
                   replies, accepted, mainPc, epoch, run,
                   attached, live, parked, zoneOf, billed>>

\* main() returns: every thread of the process ends; your_table stays on
\* disk.  The server is started again: a zeroed client[], a new db_update.
Exit ==
    /\ mainPc = "teardown" /\ dbThread = "exited"
    /\ slot' = [s \in Slots |-> EmptyClient]
    /\ pc' = [s \in Slots |-> "idle"]
    /\ status' = [s \in Slots |-> "CLOSE"]
    /\ checked' = [s \in Slots |-> FALSE]
    /\ endTime' = [s \in Slots |-> 0]
    /\ buf' = [s \in Slots |-> ZeroFrame]
    /\ dev' = [s \in Slots |-> NoDevice]
    /\ script' = [s \in Slots |-> <<>>]
    /\ pos' = [s \in Slots |-> 1]
    /\ replies' = [s \in Slots |-> <<>>]
    /\ accepted' = 0
    /\ mainPc' = "accept"
    /\ dbThread' = "running"
    /\ epoch' = now
    /\ run' = run + 1
    /\ attached' = [s \in Slots |-> FALSE]
    /\ billed' = [s \in Slots |-> NoBill]
    /\ UNCHANGED <<receipts, now, db, live, parked, zoneOf>>

-----------------------------------------------------------------------------
\* The steps a client thread takes without waiting for its device.
Serve(s) ==
    /\ \/ Existing(s) \/ InitializeStart(s) \/ Insert(s) \/ SendStart(s) \/ Online(s)
       \/ Close(s) \/ Pay(s) \/ Remove(s) \/ LostSave(s)
    /\ UNCHANGED procVars

Handler(s) ==
    \/ (Receive(s) \/ RecvError(s) \/ RecvClosed(s)) /\ UNCHANGED procVars
    \/ Serve(s)

Shutdown == MainJoin \/ FinalFlush \/ Exit

Next ==
    \/ Accept
    \/ AcceptOverrun
    \/ \E s \in Slots : Handler(s)
    \/ Reconcile
    \/ Tick
    \/ Shutdown

\* A runnable client thread eventually runs: the only lock it waits for is
\* released by db_update at the end of every iteration.
Spec == Init /\ [][Next]_vars /\ \A s \in Slots : WF_vars(Serve(s))
-----------------------------------------------------------------------------
(* Properties                                                               *)

Replies == [kind : {"error"}] \cup [kind : {"loc"}, zone : Zones \cup {ErrZone, NoZone}]
           \cup [kind : {"pay"}, elapsed : Int, fee : Int, expect : Int,
                 zone : Zones \cup {ErrZone, NoZone}]

TypeOK ==
    /\ now \in T0..(T0 + MaxTime)
    /\ db \in Seq([mac : Devices, used : Int, loc : Zones \cup {ErrZone, NoZone}])
    /\ slot \in [Slots -> [mac : Devices \cup {NoDevice}, xy : Zones \cup {ErrZone, NoZone},
                           loc : Zones \cup {ErrZone, NoZone}, price : Nat,
                           start : Int, connected : BOOLEAN]]
    /\ pc \in [Slots -> {"idle", "recv", "existing", "init", "insert", "send", "online",
                         "close", "pay", "remove", "lostSave", "done"}]
    /\ checked \in [Slots -> BOOLEAN]
    /\ dev \in [Slots -> Devices \cup {NoDevice}]
    /\ replies \in [Slots -> Seq(Replies)]
    /\ receipts \in [Devices -> Seq([elapsed : Int, fee : Int])]
    /\ accepted \in 0..(NumSlots + 1)
    /\ parked \in [Devices -> Nat]
    /\ mainPc \in {"accept", "teardown"}
    /\ dbThread \in {"running", "exited"}
    /\ run \in 0..MaxRuns

\* The time a connected handler is counting, now - time_start_parking, is the
\* time the device's session has been held by a handler since its first
\* START, over all its connections: a resume continues it (spec 3, 4.3).
LiveElapsedIsParked ==
    \A s \in Slots : attached[s] /\ slot[s].connected =>
        now - slot[s].start = parked[dev[s]]

\* Every payment calculate_and_send_payment_data sends is for a session that
\* exists, reports that session's held time, and charges the price of the
\* zone the session was started in for exactly that time (spec 4.4, 8).
PaymentIsParkedTime ==
    \A s \in Slots : \A i \in DOMAIN replies[s] :
        LET r == replies[s][i] IN
        r.kind = "pay" =>
            /\ r.expect # NoBill
            /\ r.elapsed = r.expect
            /\ r.fee = PriceOf(r.zone) * r.expect

\* No two client threads count time for one MAC at once: two sessions of
\* the same device are never concurrently active (spec 8).
SingleActiveSession ==
    \A s, t \in Slots : s # t /\ slot[s].connected /\ slot[t].connected =>
        slot[s].mac # slot[t].mac

\* your_table holds at most one row per MAC (spec 3: at most one Session per
\* deviceId); the code's SELECTs read only the first.
AtMostOneRowPerDevice ==
    \A d \in Devices : Cardinality(RowsOf(d)) <= 1

\* A client thread that has exited leaves no session counting in its struct:
\* db_update only extends sessions a live handler holds (spec 3, 4.5, 7).
TerminatedNotConnected ==
    \A s \in Slots : pc[s] = "done" => ~slot[s].connected

\* A START whose coordinates location_func cannot resolve (it writes "ERROR")
\* never becomes a session that counts time (spec 4.2, 4.4: a resolver
\* error is answered with "ERROR" and ends the connection).
UnresolvedZoneNeverCounts ==
    \A s \in Slots : slot[s].connected => slot[s].loc # ErrZone

\* TIME_USED of a device's row never goes down while the row exists: every
\* writer (db_update, a CLOSE, a lost connection) persists an elapsed time
\* that continues the one before it (spec 3 and 8: elapsedSeconds is never
\* decreased; reconciliation never decreases a persisted value).
PersistedElapsedNeverDecreases ==
    [][\A d \in Devices :
         HasRow(d) /\ HasRow(d)' => FirstRow(d)'.used >= FirstRow(d).used]_vars

\* Bound on what one connection is sent: one reply per frame of its script
\* and the error or payment reply of its exit.
ReplyBound == Max({Len(sc) : sc \in Scripts}) + 1

\* Every START a client thread has taken up is answered: the location (from
\* retriev_client_data or process_client_data) or "ERROR" is sent on the
\* connection (spec 4.4: reply with the zone name, or "ERROR"), unless
\* main() returns first and the process ends with the thread.
StartAnswered ==
    \A s \in Slots, n \in 0..ReplyBound, r \in 0..MaxRuns :
        (pc[s] \in {"existing", "init"} /\ Len(replies[s]) = n /\ run = r)
            ~> (Len(replies[s]) > n \/ run # r)
-----------------------------------------------------------------------------
(* Refinement: what the code's state says each device's session is, in    *)
(* the terms of SessionStore.  Thread s holds its device's session from   *)
(* the moment it has a start time (a new client after                    *)
(* initialize_and_get_start_time, a resumed one once retriev_client_data *)
(* set connected) until it clears connected on a CLOSE, or, after a lost *)
(* connection, until the second critical section saves TIME_USED.  A     *)
(* held session's elapsed time is now - time_start_parking; a session    *)
(* nobody holds is its row of your_table, unless its CLOSE has been taken *)
(* and the row only waits for remove_client_data.                         *)

Holds(s) ==
    \/ pc[s] \in {"insert", "send", "online"}
    \/ pc[s] \in {"recv", "close"} /\ slot[s].connected
    \/ pc[s] = "lostSave" /\ slot[s].mac # NoDevice

Holders(d) == {s \in Slots : dev[s] = d /\ Holds(s)}
Finalizing(d) == \E s \in Slots : dev[s] = d /\ pc[s] \in {"pay", "remove"}

AbsStore == [d \in Devices |->
    IF Holders(d) # {}
    THEN LET cl == slot[Max(Holders(d))] IN
         [open |-> TRUE, held |-> TRUE, zone |-> cl.loc, elapsed |-> now - cl.start]
    ELSE IF HasRow(d) /\ ~Finalizing(d)
    THEN [open |-> TRUE, held |-> FALSE, zone |-> FirstRow(d).loc,
          elapsed |-> FirstRow(d).used]
    ELSE [open |-> FALSE, held |-> FALSE, zone |-> NoZone, elapsed |-> 0]]

\* What a device has been paid: the payments it received, then the one a
\* thread that took its CLOSE has yet to send.
Pending(s) == [elapsed |-> PayElapsed(s), fee |-> slot[s].price * PayElapsed(s)]
AbsPaid == [d \in Devices |->
    LET paying == SelectSeq([k \in Slots |-> k], LAMBDA k : dev[k] = d /\ pc[k] = "pay")
    IN receipts[d] \o [i \in DOMAIN paying |-> Pending(paying[i])]]

Store == INSTANCE SessionStore WITH clock <- now, store <- AbsStore, paid <- AbsPaid

\* The server implements the session store of spec 4.3: every step of the
\* client threads and db_update either leaves every device's session as it
\* was or is one of createOrResume (retriev_client_data, process_client_data),
\* finalize (the CLOSE case and its payment), markDisconnected (the save
\* after a lost connection) or a second passing.
ImplementsSessionStore == Store!Spec
=============================================================================
