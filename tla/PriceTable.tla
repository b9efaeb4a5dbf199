------------------------------ MODULE PriceTable ------------------------------
(***************************************************************************)
(* sql_price_db_create: the program that fills parking_prices_per_city.db, *)
(* the table retrieve_parking_price_per_city_from_database reads with      *)
(* SELECT * FROM city_parking WHERE CITY = '<location>'.  It opens the     *)
(* file, creates the table if it does not exist and inserts four rows; a   *)
(* failure of any step is only printed, the next step runs, and main()     *)
(* returns 0.  It may be run more than once, on the file a run before it   *)
(* left.  Prices are kept in thousandths of a shekel per second (%f of     *)
(* 0.006 stores 0.006).                                                    *)
(***************************************************************************)
EXTENDS Integers, Sequences

CONSTANTS
    ExecFaults,    \* TRUE: sqlite3_open and sqlite3_exec may fail
    MaxRuns        \* bound: runs of the program

Loc == INSTANCE Location WITH x <- 0, y <- 0, loc <- "", origin <- "none", RngValues <- {0}

\* The names location_func writes for a pair of coordinates in range.
ZoneNames == {Loc!LocationFunc(cx, cy) : cx, cy \in 0..127}

\* Mutant: one city name spelled differently from location_func's.
InsertsTypo ==
    << [city |-> "Ashkelon", price |-> 6], [city |-> "Jerusalem", price |-> 12],
       [city |-> "Petach-Tikva", price |-> 8], [city |-> "Herzliya", price |-> 10] >>

\* The four INSERT INTO city_parking (CITY, PRICE) VALUES ('%s', %f).
Inserts ==
    << [city |-> "Ashkelon", price |-> 6], [city |-> "Jerusalem", price |-> 12],
       [city |-> "Petah-Tikva", price |-> 8], [city |-> "Herzliya", price |-> 10] >>

Outcomes == IF ExecFaults THEN BOOLEAN ELSE {TRUE}

VARIABLES
    pc,            \* the next statement of main()
    insertNo,      \* the INSERT about to run
    opened,        \* sqlite3_open gave a usable handle
    tableExists,   \* city_parking exists in the file
    rows,          \* city_parking, in insertion (rowid) order
    runs,          \* runs started
    clean,         \* ghost: every call of this run returned SQLITE_OK
    cleanRun       \* ghost: some run returned with every call OK

vars == <<pc, insertNo, opened, tableExists, rows, runs, clean, cleanRun>>

\* No file yet: sqlite3_open creates it empty.
Init ==
    /\ pc = "idle" /\ insertNo = 1
    /\ opened = FALSE /\ tableExists = FALSE /\ rows = <<>>
    /\ runs = 0 /\ clean = FALSE /\ cleanRun = FALSE

\* A run starts: sqlite3_open("parking_prices_per_city.db"); on an error
\* it prints sqlite3_errmsg and goes on.
Sqlite3Open ==
    /\ pc = "idle" /\ runs < MaxRuns
    /\ \E ok \in Outcomes : opened' = ok /\ clean' = ok
    /\ runs' = runs + 1
    /\ pc' = "create"
    /\ UNCHANGED <<insertNo, tableExists, rows, cleanRun>>

\* CREATE TABLE IF NOT EXISTS city_parking; it fails on an unusable handle.
CreateTable ==
    /\ pc = "create"
    /\ \E ok \in Outcomes :
         LET done == ok /\ opened IN
         /\ tableExists' = (tableExists \/ done)
         /\ clean' = (clean /\ done)
    /\ pc' = "insert" /\ insertNo' = 1
    /\ UNCHANGED <<opened, rows, runs, cleanRun>>

\* The INSERT numbered insertNo; without a usable handle and the table it
\* fails.  Any error is printed and the next statement runs.
Insert ==
    /\ pc = "insert"
    /\ \E ok \in Outcomes :
         LET done == ok /\ opened /\ tableExists IN
         /\ rows' = IF done THEN Append(rows, Inserts[insertNo]) ELSE rows
         /\ clean' = (clean /\ done)
    /\ IF insertNo = Len(Inserts)
       THEN pc' = "close" /\ UNCHANGED insertNo
       ELSE insertNo' = insertNo + 1 /\ UNCHANGED pc
    /\ UNCHANGED <<opened, tableExists, runs, cleanRun>>

\* sqlite3_close(db); return 0, whatever failed before.
Close ==
    /\ pc = "close"
    /\ pc' = "idle"
    /\ opened' = FALSE
    /\ cleanRun' = (cleanRun \/ clean)
    /\ UNCHANGED <<insertNo, tableExists, rows, runs, clean>>

Next == Sqlite3Open \/ CreateTable \/ Insert \/ Close

Spec == Init /\ [][Next]_vars
-----------------------------------------------------------------------------
\* The rows SELECT * FROM city_parking WHERE CITY = z returns; the first
\* sqlite3_step gives the client its price (sqlite3_column_double(stmt, 1)).
RowsOf(z) == {n \in DOMAIN rows : rows[n].city = z}

TypeOK ==
    /\ pc \in {"idle", "create", "insert", "close"} /\ insertNo \in 1..Len(Inserts)
    /\ opened \in BOOLEAN /\ tableExists \in BOOLEAN
    /\ rows \in Seq([city : STRING, price : Nat])
    /\ runs \in 0..MaxRuns /\ clean \in BOOLEAN /\ cleanRun \in BOOLEAN

\* Once a run of sql_price_db_create has returned with every call
\* succeeding, every zone location_func can name has a row in city_parking,
\* so retrieve_parking_price_per_city_from_database finds a price for it
\* and does not leave the client's price as it was; and every row of a
\* zone, whichever run inserted it, carries the same price, so which
\* duplicate the SELECT returns first does not matter.
ZonesPriced ==
    /\ cleanRun => \A z \in ZoneNames : RowsOf(z) # {}
    /\ \A m, n \in DOMAIN rows : rows[m].city = rows[n].city => rows[m].price = rows[n].price
=============================================================================
