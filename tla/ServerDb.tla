------------------------------ MODULE ServerDb ------------------------------
(***************************************************************************)
(* The main server process of shelter_server_HPC, the REST processes it    *)
(* forks and the RocksDB database they share.                              *)
(*                                                                         *)
(* The server is one thread.  A handler reads the stock, then writes in    *)
(* "sessions": it opens the database read-write, puts a few keys one at a  *)
(* time and closes it.  RocksDB lets one process hold a database open for  *)
(* writing, and every REST request holds it for as long as it is being     *)
(* answered, so an open may be refused: the session is then skipped and    *)
(* the handler goes on.  The process may die between any two puts.         *)
(*                                                                         *)
(* A key is a record: its kind, and for a history record the id and the    *)
(* timestamp in its text.  The timestamp is the number of the run of the   *)
(* server that wrote it (a run sleeps a second before it serves, so two    *)
(* runs never share a timestamp; within a run only the id tells records    *)
(* apart).  The stock of a group is one number for all items of the group, *)
(* which the code treats alike.                                            *)
(***************************************************************************)
EXTENDS Integers, Sequences

CONSTANTS
  FoodDeltas,       \* the changes of food a client may ask for, 0 for none
  MedicineDeltas,   \* the same for medicine
  MaxStarts,        \* bound: times the server is started
  MaxJobs           \* bound: requests, alerts and notifications handled

ASSUME DeltasAssumption == FoodDeltas \subseteq Int /\ MedicineDeltas \subseteq Int
ASSUME BoundsAssumption == MaxStarts \in Nat /\ MaxJobs \in Nat

VARIABLES
  db,         \* the database: a function from the keys present to their values
  lock,       \* who has the database open for writing
  pc,         \* where the server's thread is
  step,       \* the next put of the open session
  job,        \* what it is handling: the locals of the handler
  gen,        \* the counters of the three id generators
  epoch,      \* the number of the current run, 0 before the first
  rest,       \* the runs whose REST process is alive
  stopping,   \* SERVER_RUNNING is false
  jobs,       \* how many jobs have been taken up
  torn,       \* ghost: series whose last id was behind its records at a death
  whole       \* ghost: every session of the last stock update went through

vars == <<db, lock, pc, step, job, gen, epoch, rest, stopping, jobs, torn, whole>>

-----------------------------------------------------------------------------
\* Keys and values.

RecordKinds == {"supplies", "alert", "emergencyNotification"}
FixedNames  == {"food", "medicine", "latestSupplies", "last_supplies",
                "last_alert", "lastEvent"}

Key == [kind : RecordKinds \cup FixedNames, id : Nat, at : Nat]

Fixed(name)  == [kind |-> name, id |-> 0, at |-> 0]
RecordUntimed(s, i) == [kind |-> s, id |-> i, at |-> 0]   \* mutant: no timestamp
Record(s, i) == [kind |-> s, id |-> i, at |-> epoch]

Has(name) == Fixed(name) \in DOMAIN db
Val(name) == db[Fixed(name)]

\* The series of records that have a persisted last id, and its key.
LastKey == [supplies |-> "last_supplies", alert |-> "last_alert"]
Series  == DOMAIN LastKey

RecordsOf(s) == {k \in DOMAIN db : k.kind = s}
LastId(s)    == IF Has(LastKey[s]) THEN Val(LastKey[s]) ELSE 0

Stocks == [food : Nat, medicine : Nat]
JobKinds == {"boot", "tcpUpdate", "udpUpdate", "status", "alert", "powerFailure"}
Updates  == {"tcpUpdate", "udpUpdate"}
Jobs == [kind : JobKinds, id : Nat, food : Nat, medicine : Nat]

\* Start-up handles no request; what it writes are zeros.
BootJob == [kind |-> "boot", id |-> 0, food |-> 0, medicine |-> 0]

ValuesOf(kind) ==
  CASE kind \in {"food", "medicine", "last_supplies", "last_alert"} -> Nat
    [] kind \in {"supplies", "latestSupplies"} -> Stocks
    [] OTHER -> JobKinds

-----------------------------------------------------------------------------
\* Who has the database open for writing: nobody, the server, or (a positive
\* number) the REST process of that run.
Free   == -1
Server == 0

\* The sessions a thread goes through, and after each one what follows.
Sessions ==
  {"lastSupplies", "lastAlert", "event", "init", "food", "medicine", "history"}

\* Mutant: a food update goes straight to the history.
FollowingSkipsMedicine ==
  CASE pc = "lastSupplies" -> "lastAlert"
    [] pc = "lastAlert"    -> "fork"
    [] pc = "event"        -> IF job.kind = "boot" THEN "init" ELSE "idle"
    [] pc = "food"         -> "history"
    [] OTHER               -> "idle"

Following ==
  CASE pc = "lastSupplies" -> "lastAlert"
    [] pc = "lastAlert"    -> "fork"
    [] pc = "event"        -> IF job.kind = "boot" THEN "init" ELSE "idle"
    [] pc = "food"         -> "medicine"
    [] pc = "medicine"     -> "history"
    [] OTHER               -> "idle"

\* The keys a session puts, in the order of the code.  Mutants: the latest
\* value before its record; UDP in the order of TCP; no last id for alerts.
HistoryPutsLatestFirst ==
  [ tcpUpdate    |-> <<"latestSupplies", "supplies", "last_supplies", "lastEvent">>,
    udpUpdate    |-> <<"last_supplies", "supplies", "lastEvent">>,
    alert        |-> <<"alert", "lastEvent", "last_alert">>,
    powerFailure |-> <<"emergencyNotification", "lastEvent">> ]
HistoryPutsUdpAsTcp ==
  [HistoryPutsLatestFirst EXCEPT !.udpUpdate = <<"supplies", "last_supplies", "lastEvent">>]
HistoryPutsNoLastAlert ==
  [HistoryPutsLatestFirst EXCEPT !.alert = <<"alert", "lastEvent">>]

HistoryPuts ==
  [ tcpUpdate    |-> <<"supplies", "latestSupplies", "last_supplies", "lastEvent">>,
    udpUpdate    |-> <<"last_supplies", "supplies", "lastEvent">>,
    alert        |-> <<"alert", "lastEvent", "last_alert">>,
    powerFailure |-> <<"emergencyNotification", "lastEvent">> ]

Puts ==
  CASE pc = "lastSupplies" -> <<"last_supplies">>
    [] pc = "lastAlert"    -> <<"last_alert">>
    [] pc = "event"        -> <<"lastEvent">>
    [] pc = "init"         -> <<"food", "medicine">>
    [] pc = "food"         -> <<"food">>
    [] pc = "medicine"     -> <<"medicine">>
    [] pc = "history"      -> HistoryPuts[job.kind]

\* The sessions of start-up that write a key only when it is missing.
OnlyIfMissing == pc \in {"lastSupplies", "lastAlert", "init"}

PutKey(name) == IF name \in RecordKinds THEN Record(name, job.id) ELSE Fixed(name)

PutValue(name) ==
  CASE name = "food"     -> job.food
    [] name = "medicine" -> job.medicine
    [] name \in {"last_supplies", "last_alert"} -> job.id
    [] name \in {"supplies", "latestSupplies"} ->
         [food |-> job.food, medicine |-> job.medicine]
    [] OTHER -> job.kind

Write(k, v) == [x \in DOMAIN db \cup {k} |-> IF x = k THEN v ELSE db[x]]

\* The generator a job draws its record's id from.
IdSeries == [tcpUpdate |-> "supplies", udpUpdate |-> "supplies",
             alert |-> "alert", powerFailure |-> "emergencyNotification"]

-----------------------------------------------------------------------------
\* setId.  Mutant: the last id itself comes next.
RestoredIdAsIs(s) == LastId(s)
RestoredId(s) == LastId(s) + 1

\* getNextId.  Mutant: the counter stands still.
CounterAfterStill(n) == n
CounterAfter(n) == n + 1

\* The id is drawn just before the history session is opened, whether or not
\* the open then succeeds.
DrawId ==
  IF pc = "history"
  THEN LET s == IdSeries[job.kind] IN
       /\ job' = [job EXCEPT !.id = gen[s]]
       /\ gen' = [gen EXCEPT ![s] = CounterAfter(@)]
  ELSE UNCHANGED <<job, gen>>

\* What a session leads to; l is the lock once the session is over.  After a
\* power failure's notification has been dealt with, stop() raises SIGINT: the
\* handler clears SERVER_RUNNING and terminates the run's REST process.
Advance(l) ==
  /\ pc' = Following
  /\ IF pc = "history" /\ job.kind = "powerFailure"
     THEN /\ stopping' = TRUE
          /\ rest' = rest \ {epoch}
          /\ lock' = IF l = epoch THEN Free ELSE l
     ELSE /\ lock' = l
          /\ UNCHANGED <<stopping, rest>>

\* The server process ends without finishing what it was doing; its REST
\* process stays.
Die ==
  /\ pc' = "down"
  /\ lock' = IF lock = Server THEN Free ELSE lock
  /\ job' = BootJob
  /\ step' = 1
  /\ stopping' = FALSE
  /\ torn' = torn \cup {s \in Series : \E k \in RecordsOf(s) : k.id > LastId(s)}
  /\ whole' = (whole /\ ~(job.kind \in Updates /\ pc \in Sessions))
  /\ UNCHANGED <<db, gen, epoch, rest, jobs>>

-----------------------------------------------------------------------------
\* Start-up.

Start ==
  /\ pc = "down"
  /\ epoch < MaxStarts
  /\ epoch' = epoch + 1
  /\ pc' = "lastSupplies"
  /\ gen' = [s \in RecordKinds |-> 0]
  /\ UNCHANGED <<db, lock, step, job, rest, stopping, jobs, torn, whole>>

Fork ==
  /\ pc = "fork"
  /\ pc' = "event"
  /\ rest' = rest \cup {epoch}
  /\ UNCHANGED <<db, lock, step, job, gen, epoch, stopping, jobs, torn, whole>>

\* Sessions.

Open ==
  /\ pc \in Sessions
  /\ lock = Free
  /\ lock' = Server
  /\ step' = 1
  /\ DrawId
  /\ UNCHANGED <<db, pc, epoch, rest, stopping, jobs, torn, whole>>

\* Mutant: a handler waits for the database instead of skipping the session.
RefuseWaits ==
  /\ pc \in {"lastSupplies", "lastAlert"}
  /\ lock > Server
  /\ Die

\* getLastId opens outside its try block, so there a refused open is fatal;
\* everywhere else the session is skipped.
Refuse ==
  /\ pc \in Sessions
  /\ lock > Server
  /\ IF pc \in {"lastSupplies", "lastAlert"}
     THEN Die
     ELSE /\ DrawId
          /\ Advance(lock)
          /\ whole' = (whole /\ job.kind \notin Updates)
          /\ UNCHANGED <<db, step, epoch, jobs, torn>>

Put ==
  /\ lock = Server
  /\ step \in 1..Len(Puts)
  /\ LET name == Puts[step] IN
       db' = IF OnlyIfMissing /\ Has(name)
             THEN db
             ELSE Write(PutKey(name), PutValue(name))
  /\ step' = step + 1
  /\ UNCHANGED <<lock, pc, job, gen, epoch, rest, stopping, jobs, torn, whole>>

\* Closing the sessions of getLastId is followed by setId.
Close ==
  /\ lock = Server
  /\ step > Len(Puts)
  /\ step' = 1
  /\ Advance(Free)
  /\ gen' = CASE pc = "lastSupplies" -> [gen EXCEPT !["supplies"] = RestoredId("supplies")]
              [] pc = "lastAlert"    -> [gen EXCEPT !["alert"] = RestoredId("alert")]
              [] OTHER               -> gen
  /\ UNCHANGED <<db, job, epoch, jobs, torn, whole>>

-----------------------------------------------------------------------------
\* Handlers, each up to the first session it opens.

\* A stock never goes below zero.  Mutant: it does.
AddedBelowZero(n, d) == n + d
Added(n, d) == IF n + d > 0 THEN n + d ELSE 0

HasStock == Has("food") /\ Has("medicine")

Take(kind, first, food, medicine) ==
  /\ pc = "idle"
  /\ jobs < MaxJobs
  /\ jobs' = jobs + 1
  /\ job' = [kind |-> kind, id |-> 0, food |-> food, medicine |-> medicine]
  /\ pc' = first
  /\ UNCHANGED <<db, lock, step, gen, epoch, rest, stopping, torn>>

Update(kind) ==
  /\ HasStock
  /\ \E f \in FoodDeltas, m \in MedicineDeltas :
       Take(kind, "food", Added(Val("food"), f), Added(Val("medicine"), m))
  /\ whole' = TRUE

TcpUpdate == Update("tcpUpdate")
UdpUpdate == Update("udpUpdate")

Status == HasStock /\ Take("status", "event", 0, 0) /\ UNCHANGED whole

Alert == Take("alert", "history", 0, 0) /\ UNCHANGED whole

PowerFailure == Take("powerFailure", "history", 0, 0) /\ UNCHANGED whole

\* A request that reads a stock that was never written dereferences NULL.
ReadMissingStock ==
  /\ pc = "idle"
  /\ ~HasStock
  /\ Die

\* Mutant: the server waits for the database before it ends.
StopWhenFree ==
  /\ pc = "idle"
  /\ stopping
  /\ lock = Free
  /\ Die

\* The loop test of start() after the pass in which SERVER_RUNNING was cleared.
Stop ==
  /\ pc = "idle"
  /\ stopping
  /\ Die

Crash == pc # "down" /\ Die

-----------------------------------------------------------------------------
\* REST processes: a request opens the database on arrival and closes it when
\* it has been answered.  A request that finds it open is answered 500.

RestOpen(e) ==
  /\ e \in rest
  /\ lock = Free
  /\ lock' = e
  /\ UNCHANGED <<db, pc, step, job, gen, epoch, rest, stopping, jobs, torn, whole>>

RestClose ==
  /\ lock > Server
  /\ lock' = Free
  /\ UNCHANGED <<db, pc, step, job, gen, epoch, rest, stopping, jobs, torn, whole>>

-----------------------------------------------------------------------------
Init ==
  /\ db = [k \in {} |-> 0]
  /\ lock = Free
  /\ pc = "down"
  /\ step = 1
  /\ job = BootJob
  /\ gen = [s \in RecordKinds |-> 0]
  /\ epoch = 0
  /\ rest = {}
  /\ stopping = FALSE
  /\ jobs = 0
  /\ torn = {}
  /\ whole = TRUE

ServerStep == Start \/ Fork \/ Open \/ Refuse \/ Put \/ Close \/ Stop

Handler ==
  TcpUpdate \/ UdpUpdate \/ Status \/ Alert \/ PowerFailure \/ ReadMissingStock

Next ==
  \/ ServerStep
  \/ Handler
  \/ Crash
  \/ \E e \in rest : RestOpen(e)
  \/ RestClose

Spec == Init /\ [][Next]_vars

\* No step of the server blocks: an open that is refused returns.  Nothing is
\* assumed of the REST processes and their clients.
FairSpec == Spec /\ WF_vars(ServerStep)

-----------------------------------------------------------------------------
\* Every variable has its type, every key present has a value of its kind.
DbTypeOK ==
  /\ DOMAIN db \subseteq Key
  /\ db = [k \in DOMAIN db |-> db[k]]
  /\ \A k \in DOMAIN db : db[k] \in ValuesOf(k.kind)

FlagsTypeOK == stopping \in BOOLEAN /\ whole \in BOOLEAN

ThreadTypeOK ==
  /\ lock \in {Free, Server} \cup rest
  /\ pc \in Sessions \cup {"down", "fork", "idle"}
  /\ step \in Nat \ {0}
  /\ job \in Jobs
  /\ gen \in [RecordKinds -> Nat]
  /\ epoch \in Nat
  /\ rest \subseteq 1..epoch
  /\ jobs \in Nat
  /\ torn \subseteq Series

TypeOK == DbTypeOK /\ FlagsTypeOK /\ ThreadTypeOK

\* No two records of a series carry the same id, through any number of
\* restarts, unless the process died between the put of a record and the put
\* of its series' last id (server.cpp 344-346, 941-943; IdGen, utils.hpp 162).
UniqueIds ==
  \A s \in Series \ torn :
    \A k1, k2 \in RecordsOf(s) : k1.id = k2.id => k1 = k2

\* A history record, once put, is never removed nor overwritten: not by a
\* later record with a reused id, not after any crash (server.cpp 335-344).
HistoryAppendOnly ==
  [][\A k \in DOMAIN db :
       k.kind \in RecordKinds => k \in DOMAIN db' /\ db'[k] = db[k]]_vars

\* What "latestSupplies" holds is always the value of some supplies record: no
\* crash exposes a latest value that the history lacks (server.cpp 344-345).
LatestIsRecorded ==
  Has("latestSupplies") =>
    \E k \in RecordsOf("supplies") : db[k] = Val("latestSupplies")

\* While a REST request has the database open, the last id it could read covers
\* every record it lists: no request sees half of a history session, except of
\* one a death cut short (the sessions of server.cpp 329-352 and 934-951).
ReadersSeeWholeSessions ==
  lock > Server =>
    \A s \in Series \ torn : \A k \in RecordsOf(s) : k.id <= LastId(s)

\* The UDP handler puts the last id first, so the process dying in the middle
\* of a UDP update never makes an id come back (server.cpp 511-513).
UdpUpdateSurvivesDeath ==
  [][ (pc \in Sessions /\ job.kind = "udpUpdate" /\ pc' = "down")
        => torn' = torn ]_vars

\* The newest record of a series: the last one written, by run and then by id.
Newest(k, s) ==
  /\ k \in RecordsOf(s)
  /\ \A j \in RecordsOf(s) : j.at < k.at \/ (j.at = k.at /\ j.id <= k.id)

StoredStock == [food |-> Val("food"), medicine |-> Val("medicine")]

\* Between jobs, if no session of the last stock update was refused or cut
\* short, the stored stock is what the newest supplies record says, whichever
\* protocol the updates came by and whatever crashed before (server.cpp
\* 330-347 and 495-513, supplies_module.c 199-200).
StockMatchesHistory ==
  pc = "idle" /\ whole =>
    \A k \in RecordsOf("supplies") : Newest(k, "supplies") => db[k] = StoredStock

\* The history as the log its readers are promised.
History == [k \in {r \in DOMAIN db : r.kind \in RecordKinds} |-> db[k]]
Latest  == IF Has("latestSupplies") THEN <<Val("latestSupplies")>> ELSE <<>>
Log     == INSTANCE HistoryLog WITH log <- History, latest <- Latest

\* The database implements the log: through refused sessions, deaths and
\* restarts a record is only ever appended after those of its kind, and what
\* TCP publishes as the latest is the newest record (server.cpp 335-345).
ImplementsLog == Log!Spec

\* Whatever REST clients keep asking, and however long a request holds the
\* database, a handler the server has begun comes to its end (the skipped
\* sessions of server.cpp 349-352, supplies_module.c 211-216).
HandlersFinish == pc \in Sessions ~> pc \in {"idle", "down"}

\* After the notification of a power failure the server ends, whoever has the
\* database open (server.cpp 1023, 92).
PowerFailureStops == stopping ~> pc = "down"
=============================================================================
