---------------------------- MODULE SessionStore ----------------------------
(***************************************************************************)
(* What the server promises about sessions (spec 3 and 4.3), with no      *)
(* threads, no table and no lock: one record per device, changed only by  *)
(* the store's atomic operations.  A session is open from its first       *)
(* createOrResume to its finalize; it is held while a handler has it, and *)
(* it accrues a second of elapsed time for every second it is held.       *)
(* finalize hands the device its elapsed time and fee and deletes the     *)
(* record; markDisconnected keeps the record with its elapsed time.       *)
(***************************************************************************)
EXTENDS Naturals, Sequences

CONSTANTS
    Devices,    \* device identities
    Zones,      \* zones with a price
    Price,      \* zone -> fee per second
    NoZone,     \* the zone of a device with no session
    T0          \* the second the store starts

VARIABLES
    clock,      \* the current second
    store,      \* device -> its session
    paid        \* device -> what finalize has handed it, in order

vars == <<clock, store, paid>>

NoSession == [open |-> FALSE, held |-> FALSE, zone |-> NoZone, elapsed |-> 0]

Init ==
    /\ clock = T0
    /\ store = [d \in Devices |-> NoSession]
    /\ paid = [d \in Devices |-> <<>>]

\* createOrResume(d, z, Price[z]): a new session starts at zero in zone z;
\* an existing one is taken up again with its elapsed time and its zone.
CreateOrResume(d, z) ==
    /\ ~store[d].held
    /\ store' = [store EXCEPT ![d] =
                   IF @.open THEN [@ EXCEPT !.held = TRUE]
                   ELSE [open |-> TRUE, held |-> TRUE, zone |-> z, elapsed |-> 0]]
    /\ UNCHANGED <<clock, paid>>

\* finalize(d): the elapsed time and the fee, then the record is deleted.
Finalize(d) ==
    LET s == store[d] IN
    /\ s.held
    /\ paid' = [paid EXCEPT ![d] = Append(@, [elapsed |-> s.elapsed,
                                              fee |-> Price[s.zone] * s.elapsed])]
    /\ store' = [store EXCEPT ![d] = NoSession]
    /\ UNCHANGED clock

\* markDisconnected(d): the record stays, with its elapsed time.
MarkDisconnected(d) ==
    /\ store[d].held
    /\ store' = [store EXCEPT ![d].held = FALSE]
    /\ UNCHANGED <<clock, paid>>

\* The final flush of a global shutdown (spec 4.5): every held session is
\* persisted with its elapsed time and no handler holds it any more.
ShutdownFlush ==
    /\ store' = [d \in Devices |-> [store[d] EXCEPT !.held = FALSE]]
    /\ UNCHANGED <<clock, paid>>

\* A second passes; every held session accrues it.
Tick ==
    /\ clock' = clock + 1
    /\ store' = [d \in Devices |->
                   IF store[d].held THEN [store[d] EXCEPT !.elapsed = @ + 1]
                   ELSE store[d]]
    /\ UNCHANGED paid

Next ==
    \/ \E d \in Devices, z \in Zones : CreateOrResume(d, z)
    \/ \E d \in Devices : Finalize(d) \/ MarkDisconnected(d)
    \/ ShutdownFlush
    \/ Tick

Spec == Init /\ [][Next]_vars
=============================================================================
