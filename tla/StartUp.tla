------------------------------ MODULE StartUp ------------------------------
(***************************************************************************)
(* The start of the server and the way of an alert: the processes          *)
(* Server::start forks, the FIFO and the sockets they share by name, and   *)
(* what becomes of an alert from the sensor to the summary.                *)
(*                                                                         *)
(* Names outlive processes: a former run leaves its FIFO and its socket,   *)
(* and, when a signal killed it, its alert process.  The alert process has *)
(* a second to replace the FIFO before the server opens it; nothing makes  *)
(* it, so here it takes any time.  The REST process has no exit: when it   *)
(* cannot listen it returns into start() and goes on as a second server.   *)
(* A power failure is minutes away, and so is a full buffer of alerts, so   *)
(* both come after the start.                                              *)
(*                                                                         *)
(* A FIFO holds bytes, and a read cuts an alert at the end of its buffer.  *)
(* An open resolves the name once: who waits in it, waits on that FIFO.    *)
(***************************************************************************)
EXTENDS Integers, Sequences, FiniteSets, SequencesExt

CONSTANTS
  Sensors,      \* the entries with a sensor, in the order of the array
  AlertSize,    \* bytes of an alert
  NameSize,     \* bytes of the entry's name, which it starts with
  BUFFER_SIZE,  \* bytes a read takes at most
  MaxWritten,   \* bound: no sensor is measured once so many bytes are written
  MaxFailures   \* bound: database sessions that fail

ASSUME SensorsAssumption == Sensors \in Seq(STRING)
ASSUME SizesAssumption ==
  AlertSize \in Nat \ {0} /\ NameSize \in 1..AlertSize /\ BUFFER_SIZE \in Nat \ {0}
ASSUME BoundsAssumption == MaxWritten \in Nat /\ MaxFailures \in Nat

Servers  == {"main", "rest"}
Alerters == {"child", "orphan"}   \* the alert process, and that of a former run
Former == 1                       \* the FIFO a former run left
Fresh  == 2                       \* the FIFO the alert process makes
Fifos  == {Former, Fresh}
Nothing == 0

VARIABLES
  pc,         \* where each server is in start()
  alerter,    \* where each alert process is
  to,         \* the FIFO each alert process opens or writes to
  hot,        \* the sensors each has still to send an alert of, by place in the array
  power,      \* where the power outage process is
  fell,       \* ghost: the REST process has gone on as a server
  path,       \* the FIFO that FIFO_PATH names
  held,       \* the FIFO each server has opened for good
  from,       \* the FIFO each server has opened to read
  content,    \* the bytes each FIFO holds
  sock,       \* the server whose socket SOCK_PATH names
  tcp,        \* the server bound to the TCP port
  delivered,  \* what was broadcast, a sequence of bytes each time
  records,    \* the values under infectionAlert_ keys
  lastEvent,  \* the value under lastEvent, when it is an alert
  failures,   \* database sessions that failed
  raised,     \* ghost: the bytes written to each FIFO, in order
  gone        \* ghost: the numbers of those nobody will hear

processes == <<pc, alerter, to, hot, power, fell>>
names     == <<path, sock, tcp>>
bytes     == <<content, raised, gone>>
fifo      == <<held, from, bytes>>
store     == <<delivered, records, lastEvent, failures>>
vars == <<processes, names, fifo, store>>

Running == {"loop", "checking", "reading", "closing"}

Settled == \A s \in Servers : pc[s] \in {"unborn", "serving", "exited"} \cup Running

\* How many bytes were written, to either FIFO.
Written == Len(raised[Former]) + Len(raised[Fresh])

\* How many were read out of one, or lost with it.
Taken(f) == Len(raised[f]) - Len(content[f])

Goto(s, next) == pc' = [pc EXCEPT ![s] = next]

-----------------------------------------------------------------------------
\* Server::start.

ForkAlerts(s) ==
  /\ pc[s] = "alerts"
  /\ alerter' = [alerter EXCEPT !["child"] = "cleanup"]
  /\ Goto(s, "power")
  /\ UNCHANGED <<to, hot, power, fell, names, fifo, store>>

ForkPower(s) ==
  /\ pc[s] = "power"
  /\ power' = "asleep"
  /\ Goto(s, "rest")
  /\ UNCHANGED <<alerter, to, hot, fell, names, fifo, store>>

ForkRest(s) ==
  /\ pc[s] = "rest"
  /\ pc' = [pc EXCEPT ![s] = "unlink", !["rest"] = "listen"]
  /\ UNCHANGED <<alerter, to, hot, power, fell, names, fifo, store>>

\* createRestListenerProcess, in the child: nothing ends it when listen() fails.
Listen ==
  /\ pc["rest"] = "listen"
  /\ \/ Goto("rest", "serving") /\ UNCHANGED fell
     \/ Goto("rest", "unlink") /\ fell' = TRUE
  /\ UNCHANGED <<alerter, to, hot, power, names, fifo, store>>

\* The first event, unless its session fails, and cleanUpUnixSocket.
Unlink(s) ==
  /\ pc[s] = "unlink"
  /\ sock' = "none"
  /\ lastEvent' \in {<<>>, lastEvent}
  /\ Goto(s, "tcp")
  /\ UNCHANGED <<alerter, to, hot, power, fell, path, tcp, fifo, delivered, records, failures>>

\* The TCP port is bound by a server that still runs.
PortTaken == tcp \in Servers /\ pc[tcp] # "exited"

\* setTcpSocket.
BindTcp(s) ==
  /\ pc[s] = "tcp"
  /\ \/ ~PortTaken /\ tcp' = s /\ Goto(s, "unix")
     \/ PortTaken /\ Goto(s, "exited") /\ UNCHANGED tcp
  /\ UNCHANGED <<alerter, to, hot, power, fell, path, sock, fifo, store>>

\* Mutant of BindUnix: the name is cleaned up after the bind, not before it.
BindThenUnlink(s) ==
  /\ pc[s] = "unix"
  /\ sock' = "none"
  /\ Goto(s, "open")
  /\ UNCHANGED <<alerter, to, hot, power, fell, path, tcp, fifo, store>>

\* setUnixSocket: a name that exists is not bound.
BindUnix(s) ==
  /\ pc[s] = "unix"
  /\ \/ sock = "none" /\ sock' = s /\ Goto(s, "open")
     \/ sock # "none" /\ Goto(s, "exited") /\ UNCHANGED sock
  /\ UNCHANGED <<alerter, to, hot, power, fell, path, tcp, fifo, store>>

\* Whoever waits in open() for a reader of this FIFO goes on.
WakeWriters(f) ==
  alerter' = [a \in Alerters |-> IF alerter[a] = "opening" /\ to[a] = f THEN "writing"
                                  ELSE alerter[a]]

\* Mutant of OpenFifo: a FIFO that is not there does not end the server.
OpenAnyway(s) ==
  /\ pc[s] = "open"
  /\ Goto(s, "loop")
  /\ held' = [held EXCEPT ![s] = path]
  /\ UNCHANGED <<alerter, to, hot, power, fell, names, from, bytes, store>>

\* After a second: the FIFO is whichever has the name, or none.
OpenFifo(s) ==
  /\ pc[s] = "open"
  /\ \/ path = Nothing /\ Goto(s, "exited") /\ UNCHANGED <<held, alerter>>
     \/ /\ path # Nothing /\ Goto(s, "loop")
        /\ held' = [held EXCEPT ![s] = path]
        /\ WakeWriters(path)
  /\ UNCHANGED <<to, hot, power, fell, names, from, bytes, store>>

Start(s) ==
  \/ ForkAlerts(s) \/ ForkPower(s) \/ ForkRest(s) \/ Unlink(s)
  \/ BindTcp(s) \/ BindUnix(s) \/ OpenFifo(s)

-----------------------------------------------------------------------------
\* The alert process.

CleanUp(a) ==
  /\ alerter[a] = "cleanup"
  /\ path' = Nothing
  /\ alerter' = [alerter EXCEPT ![a] = "mkfifo"]
  /\ UNCHANGED <<pc, to, hot, power, fell, sock, tcp, fifo, store>>

MakeFifo(a) ==
  /\ alerter[a] = "mkfifo"
  /\ path' = Fresh
  /\ alerter' = [alerter EXCEPT ![a] = "asleep"]
  /\ UNCHANGED <<pc, to, hot, power, fell, sock, tcp, fifo, store>>

\* Every 30 seconds: the sensors that are above the threshold, in their order.
Measure(a) ==
  /\ alerter[a] = "asleep"
  /\ Written < MaxWritten
  /\ \E high \in SUBSET DOMAIN Sensors \ {{}} : hot' = [hot EXCEPT ![a] = high]
  /\ alerter' = [alerter EXCEPT ![a] = "sending"]
  /\ UNCHANGED <<pc, to, power, fell, names, fifo, store>>

\* Mutant of HasReader: the server opens the FIFO only while it reads.
HasReaderNow(f) == \E s \in Servers : pc[s] \in {"reading", "closing"} /\ from[s] = f

\* A server has the FIFO open, or opens it.
HasReader(f) ==
  \E s \in Servers : \/ pc[s] \in Running /\ held[s] = f
                     \/ pc[s] \in {"reading", "closing"} /\ from[s] = f

\* A process has the FIFO open, or waits in open().
IsOpen(f) ==
  HasReader(f) \/ \E a \in Alerters : alerter[a] \in {"opening", "writing"} /\ to[a] = f

\* What is in a FIFO goes with the last process that has it open.
Closing ==
  /\ content' = [f \in Fifos |-> IF IsOpen(f)' THEN content[f] ELSE <<>>]
  /\ gone' = [f \in Fifos |-> IF IsOpen(f)' THEN gone[f]
                              ELSE gone[f] \cup Taken(f) + 1 .. Len(raised[f])]
  /\ UNCHANGED raised

\* The alert of a sensor, behind the bytes that were written to that FIFO.
AlertOf(f, n) ==
  [k \in 1..AlertSize |->
     [at |-> f, nr |-> Len(raised[f]) + k, entry |-> Sensors[n], part |-> k]]

\* The first sensor that is left is done with.
NextSensor(a) ==
  \E n \in hot[a] :
    /\ \A m \in hot[a] : n <= m
    /\ hot' = [hot EXCEPT ![a] = @ \ {n}]
    /\ alerter' = [alerter EXCEPT ![a] = IF hot[a] = {n} THEN "asleep" ELSE "sending"]

\* send_alert opens the FIFO by its name: without one the alert is lost, without a
\* reader open() waits, on that FIFO, until there is one.
OpenToSend(a) ==
  /\ alerter[a] = "sending"
  /\ \/ path = Nothing /\ NextSensor(a) /\ UNCHANGED to
     \/ /\ path # Nothing
        /\ to' = [to EXCEPT ![a] = path]
        /\ alerter' = [alerter EXCEPT ![a] = IF HasReader(path) THEN "writing" ELSE "opening"]
        /\ UNCHANGED hot
  /\ UNCHANGED <<pc, power, fell, names, fifo, store>>

\* The alert is written whole; without a reader SIGPIPE ends the process.
SendAlert(a) ==
  /\ alerter[a] = "writing"
  /\ to' = [to EXCEPT ![a] = Nothing]
  /\ UNCHANGED <<pc, power, fell, names, held, from, store>>
  /\ \/ /\ HasReader(to[a])
        /\ NextSensor(a)
        /\ \E n \in hot[a] \ hot'[a] :
             /\ content' = [content EXCEPT ![to[a]] = @ \o AlertOf(to[a], n)]
             /\ raised' = [raised EXCEPT ![to[a]] = @ \o AlertOf(to[a], n)]
        /\ UNCHANGED gone
     \/ /\ ~HasReader(to[a])
        /\ alerter' = [alerter EXCEPT ![a] = "ended"]
        /\ hot' = [hot EXCEPT ![a] = {}]
        /\ Closing

Alerter(a) == CleanUp(a) \/ MakeFifo(a) \/ OpenToSend(a) \/ SendAlert(a)

-----------------------------------------------------------------------------
\* The loop of a server that has started, as far as alerts go.

\* select() reports the FIFO it has open.
Wake(s) ==
  /\ pc[s] = "loop"
  /\ content[held[s]] # <<>>
  /\ Goto(s, "checking")
  /\ UNCHANGED <<alerter, to, hot, power, fell, names, fifo, store>>

\* checkAlerts opens the FIFO by its name once more.
OpenAgain(s) ==
  /\ pc[s] = "checking"
  /\ \/ path = Nothing /\ Goto(s, "loop") /\ UNCHANGED <<from, alerter>>
     \/ /\ path # Nothing /\ Goto(s, "reading")
        /\ from' = [from EXCEPT ![s] = path]
        /\ WakeWriters(path)
  /\ UNCHANGED <<to, hot, power, fell, names, held, bytes, store>>

\* The value contains the entry's name.
Has(value, entry) ==
  \E i \in 0..(Len(value) - NameSize) :
    \A k \in 1..NameSize : value[i + k].entry = entry /\ value[i + k].part = k

\* Mutant of StoreAlert: the id stays what it was, and a record takes the place of
\* the one before it.
StoreAlertOver(value) ==
  /\ records' = IF records = <<>> THEN <<value>> ELSE ReplaceAt(records, Len(records), value)
  /\ lastEvent' = value
  /\ UNCHANGED failures

\* The record and the last event, unless the session fails.
StoreAlert(value) ==
  \/ /\ records' = Append(records, value)
     /\ lastEvent' = value
     /\ UNCHANGED failures
  \/ /\ failures < MaxFailures
     /\ failures' = failures + 1
     /\ UNCHANGED <<records, lastEvent>>

\* What one read takes of a FIFO, and what it leaves.
Reads(f) == IF Len(content[f]) < BUFFER_SIZE THEN Len(content[f]) ELSE BUFFER_SIZE
FirstOf(f) == SubSeq(content[f], 1, Reads(f))
Without(f) == [content EXCEPT ![f] = SubSeq(@, Reads(f) + 1, Len(@))]

\* A read is over: it waits while a FIFO that it opened is empty.
TakeFrom(s) ==
  /\ pc[s] = "reading"
  /\ content[from[s]] # <<>>
  /\ content' = Without(from[s])
  /\ UNCHANGED <<alerter, to, hot, power, fell, names, held, from, raised>>

\* Mutant of ReadAlerts: the clients hear of an alert only once it is stored.
ReadAlertsStoring(s) ==
  /\ TakeFrom(s)
  /\ StoreAlert(FirstOf(from[s]))
  /\ delivered' = IF failures' = failures THEN Append(delivered, FirstOf(from[s]))
                  ELSE delivered
  /\ Goto(s, "closing")
  /\ UNCHANGED gone

\* What was read is broadcast, then stored.
ReadAlerts(s) ==
  /\ TakeFrom(s)
  /\ delivered' = Append(delivered, FirstOf(from[s]))
  /\ StoreAlert(FirstOf(from[s]))
  /\ Goto(s, "closing")
  /\ UNCHANGED gone

\* A full buffer has no end: the text runs into what lies behind it, and if it is
\* cut within a character, or that is no text, the JSON of it throws, which ends
\* the server and leaves its children.
Terminate(s) ==
  /\ Settled
  /\ TakeFrom(s)
  /\ Reads(from[s]) = BUFFER_SIZE
  /\ gone' = [gone EXCEPT ![from[s]] =
                @ \cup Taken(from[s]) + 1 .. Taken(from[s]) + BUFFER_SIZE]
  /\ Goto(s, "exited")
  /\ UNCHANGED store

CloseAgain(s) ==
  /\ pc[s] = "closing"
  /\ Goto(s, "loop")
  /\ from' = [from EXCEPT ![s] = Nothing]
  /\ UNCHANGED <<alerter, to, hot, power, fell, names, held, store>>
  /\ Closing

\* A request or a notification is the last event.
OtherEvent(s) ==
  /\ pc[s] = "loop"
  /\ lastEvent # <<>>
  /\ lastEvent' = <<>>
  /\ UNCHANGED <<processes, names, fifo, delivered, records, failures>>

\* A power failure ends the server it reaches, with its children; the process
\* that reaches none exits.  No server opens a FIFO after that.
Outage ==
  /\ Settled
  /\ power = "asleep"
  /\ \/ /\ sock \in Servers /\ pc[sock] = "loop"
        /\ pc' = [s \in Servers |-> IF s = sock \/ pc[s] = "serving" THEN "exited" ELSE pc[s]]
        /\ alerter' = [alerter EXCEPT !["child"] = "ended"]
        /\ power' = "ended"
        /\ lastEvent' \in {<<>>, lastEvent}
     \/ /\ ~(sock \in Servers /\ pc[sock] # "exited")
        /\ power' = "unheard"
        /\ UNCHANGED <<pc, alerter, lastEvent>>
  /\ UNCHANGED <<to, hot, fell, names, fifo, delivered, records, failures>>

Loop(s) ==
  Wake(s) \/ OpenAgain(s) \/ ReadAlerts(s) \/ Terminate(s) \/ CloseAgain(s)

-----------------------------------------------------------------------------
Init ==
  /\ pc = [s \in Servers |-> IF s = "main" THEN "alerts" ELSE "unborn"]
  /\ path \in {Nothing, Former}
  /\ alerter \in [Alerters -> {"unborn", "asleep"}]
  /\ alerter["child"] = "unborn"
  /\ alerter["orphan"] = "asleep" => path = Former
  /\ hot = [a \in Alerters |-> {}] /\ to = [a \in Alerters |-> Nothing]
  /\ power = "unborn"
  /\ fell = FALSE
  /\ held = [s \in Servers |-> Nothing] /\ from = [s \in Servers |-> Nothing]
  /\ content = [f \in Fifos |-> <<>>] /\ gone = [f \in Fifos |-> {}]
  /\ sock \in {"none", "stale"}
  /\ tcp = "none"
  /\ delivered = <<>> /\ records = <<>> /\ lastEvent = <<>>
  /\ failures = 0
  /\ raised = [f \in Fifos |-> <<>>]

Next ==
  \/ \E s \in Servers : Start(s) \/ Loop(s) \/ OtherEvent(s)
  \/ Listen
  \/ \E a \in Alerters : Alerter(a) \/ Measure(a)
  \/ Outage

Spec == Init /\ [][Next]_vars

\* The operating system runs every process that does not wait.
FairSpec ==
  /\ Spec
  /\ \A s \in Servers : WF_vars(Start(s)) /\ WF_vars(Loop(s))
  /\ \A a \in Alerters : WF_vars(Alerter(a))
  /\ WF_vars(Listen)

-----------------------------------------------------------------------------
\* The values that contain the name of an entry.
Holding(values, entry) == {i \in DOMAIN values : Has(values[i], entry)}

\* What the summary says of an entry: the values that contain its name, in any
\* part of the database (countAlertsAt, countOccurrences).
CountAt(entry) ==
  Cardinality(Holding(records, entry)) + IF Has(lastEvent, entry) THEN 1 ELSE 0

\* Every variable has its type.
TypeOK ==
  /\ pc \in [Servers -> {"unborn", "alerts", "power", "rest", "listen", "serving", "unlink",
                         "tcp", "unix", "open", "exited"} \cup Running]
  /\ alerter \in [Alerters -> {"unborn", "cleanup", "mkfifo", "asleep", "sending", "opening",
                               "writing", "ended"}]
  /\ power \in {"unborn", "asleep", "ended", "unheard"}
  /\ fell \in BOOLEAN
  /\ path \in Fifos \cup {Nothing}
  /\ \A s \in Servers : /\ pc[s] \in Running => held[s] \in Fifos
                        /\ pc[s] \in {"reading", "closing"} => from[s] \in Fifos
  /\ \A a \in Alerters : alerter[a] \in {"opening", "writing"} => to[a] \in Fifos
  /\ sock \in Servers \cup {"none", "stale"}
  /\ tcp \in Servers \cup {"none"}
  /\ failures \in 0..MaxFailures

\* The bytes that were broadcast: in which broadcast, and where in it.
Heard == UNION {{i} \X DOMAIN delivered[i] : i \in DOMAIN delivered}
At(p) == delivered[p[1]][p[2]]
Before(p, q) == p[1] < q[1] \/ (p[1] = q[1] /\ p[2] < q[2])

\* Of each FIFO, what was written is what was broadcast, once and in order, what
\* is still in it, and what is gone: nothing of the FIFO that a server in its
\* loop has open.  What did not fill the buffer ends where an alert ends
\* (alertInfection.c 25-52, server.cpp 914-932).
NothingLostOrTwice ==
  /\ \A f \in Fifos :
       /\ content[f] = SubSeq(raised[f], Taken(f) + 1, Len(raised[f]))
       /\ \A n \in 1..Taken(f) : n \in gone[f] \/ \E p \in Heard : At(p) = raised[f][n]
       /\ gone[f] # {} => \A s \in Servers : pc[s] \in Running => held[s] # f
  /\ \A p \in Heard : At(p).nr \in 1..Taken(At(p).at) /\ At(p) = raised[At(p).at][At(p).nr]
  /\ \A p, q \in Heard : At(p).at = At(q).at /\ Before(p, q) => At(p).nr < At(q).nr
  /\ \A i \in DOMAIN delivered :
       Len(delivered[i]) < BUFFER_SIZE => delivered[i][Len(delivered[i])].part = AlertSize

\* The summary counts broadcasts that contain the name of an entry, not alerts,
\* and the last event once more: it is never more than one above those
\* broadcasts, and below them by the sessions that failed (server.cpp 919-944,
\* myRocksDbWrapper.cpp 79-101).
SummaryWithinOne ==
  \A e \in ToSet(Sensors) :
    LET broadcasts == Cardinality(Holding(delivered, e))
    IN  CountAt(e) \in broadcasts - failures .. broadcasts + 1

\* "Retrieves the number of occurrences of alerts recorded in the RocksDB
\* database for the specified entry" (server.hpp 562-570).
SummaryCountsAlerts ==
  \A e \in ToSet(Sensors) :
    CountAt(e) = Cardinality({b \in UNION {ToSet(records[i]) : i \in DOMAIN records} :
                                b.entry = e /\ b.part = 1})

\* A power failure that no server hears of, while one runs, comes of a REST
\* process that could not listen and took the socket's name away
\* (server.cpp 51-66, 1026-1056, 1155-1181).
OutagesAreHeard ==
  power = "unheard" /\ (\E s \in Servers : pc[s] \in Running) => fell

\* "wait to make sure that child process created the fifo" (server.cpp 71): the
\* server in its loop has the FIFO open that its alert process made.
OpensTheNewFifo == \A s \in Servers : pc[s] \in Running => held[s] # Former

\* While a server in its loop has a FIFO open, no alert process waits for ever to
\* write to it; and what is in it is read, unless the name has gone to another,
\* as long as the server's broadcasts return (server.cpp 69-76, 914-930,
\* alertInfection.c 25-42).
AlertsGoOut ==
  LET holds(s, f) == pc[s] \in Running /\ held[s] = f
      waits(a) == alerter[a] \in {"opening", "writing"} /\ \E s \in Servers : holds(s, to[a])
      keeps(f) == content[f] # <<>> /\ path = f /\ \E s \in Servers : holds(s, f)
  IN  /\ \A a \in Alerters : []<>~waits(a)
      /\ \A f \in Fifos : []<>~keeps(f)
=============================================================================
