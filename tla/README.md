# A model of the shelter server

TLA+ modules, TLC configurations and TLAPS proofs for the server in `src/`: the
process that keeps the food and medicine stock of a refuge, answers TCP and UDP
clients, forwards infection alerts and power-outage notifications, and serves
its history over a REST API. Line numbers below are those of
`src/src/server/server.cpp` unless another file is named.

## 1. The system

| Part | State it keeps | Operations | Talks to |
| --- | --- | --- | --- |
| Main server (`server.cpp`) | select set, client lists, id generators, `SERVER_RUNNING`, child pids | `start`, `checkTcpClientsMsgs`, `checkUdpClientsMsgs`, `checkAlerts`, `handleUnixConn`, `stop`, `sigintHandler` | everything below; one thread, one `select` loop |
| RocksDB wrapper (`myRocksDbWrapper.cpp`) | one open database, held by one process at a time | open, `put`, `get`, `getJsonByKeySubstrings`, `countOccurrences`, close | server, REST process |
| Supplies module (`supplies_module.c`) | keys `food`, `medicine` | initialise, read, update | called by the server's handlers |
| REST process (forked, 1150-1326) | none; opens the database for each request | `GET /alerts`, `GET /supplies` | the database; killed by the server's SIGINT handler, otherwise an orphan when the server dies |
| Alert process (`alertInfection.c`) | sensor readings | writes alerts to a FIFO | the server reads the FIFO in the loop |
| Power-outage process (`emergNotif.c`) | a timer | one notification over a Unix socket | the server answers with `disconnect` to all clients and `stop()` |
| TCP client (`tcp_client.c`) | a parent for the menu, a child that prints what arrives; both read one socket | status, update, summary, image list, image | server |
| UDP client (`udp_client.c`) | as above, on an unconnected socket; the server keeps its address for good | status, update, summary | server |
| Image requests (360-447, `utils.cpp`) | zip files kept from one request to the next | filter, zip, send | server to TCP client |
| Canny filter (`cannyEdgeFilter.cpp`) | the matrices of one image | the filters and an OpenMP hysteresis loop | image requests |

What is hard here:

* *Sharing the database.* RocksDB lets one process open it for writing. The
  server opens it for a few puts at a time; every REST request holds it while it
  is answered. An open that is refused is an exception most handlers swallow, so
  one step of several is silently left out.
* *Dying between two puts.* A session is not a batch: `supplies_<id>_<time>`,
  `latestSupplies`, `last_supplies` and `lastEvent` are put one after the other,
  TCP, UDP and alerts each in an order of its own. The ids continue from what was
  stored, so the order decides whether an id comes back.
* *One pass of the loop.* `read_fds` is a copy made before the pass; handlers
  close and reuse descriptors, broadcast, and stop the server in the middle of it.
  Sockets are blocking: one client that does not read can hold the only thread in `send`.
* *Two processes, one socket.* A client's child prints whatever arrives; for the list
  of images the parent stops it and reads in its place. TCP merges messages, UDP loses
  and repeats them, and both readers parse only the first message of a read.
* *Names that outlive processes.* The FIFO, the Unix socket and the TCP port are taken
  by name while several processes start at once, and a former run may have left them.
  Who waits in `open` waits on the FIFO that had the name, not on the name.
* *Bytes, not alerts.* The FIFO is a stream: one read takes several alerts, and a full
  buffer cuts one in two and has no end.
* *Threads without a lock.* The hysteresis loop of the filter writes one matrix from
  several threads while others read it, and its recursion tests no bounds.
* *The end.* SIGINT, `stop()`, SIGPIPE and an uncaught exception end the server in
  four different ways and leave different children behind.

What correct means for each part:

| Part | Properties |
| --- | --- |
| History | append-only; ids unique over restarts; `latestSupplies` is some record's value; a REST reader never sees half a session |
| Stock | what is stored is what the newest record says |
| Handlers | always finish, whatever REST clients do; a power outage ends the server |
| REST answers | by id exactly the records with that id; the lists exactly the records |
| Event loop | the broadcast list stays within what is open and names nobody twice; no descriptor is read on a stale bit; everyone listed is told of the end; clients that left are reaped, if the others read |
| Start-up | an outage reaches the server that runs; no alert waits for ever at the FIFO |
| Alerts | what is written is broadcast once and in order; the summary is off by one at most from what was broadcast |
| UDP list | who was heard is told, and once |
| Image requests | what is downloaded is the whole zip of the edges of the image asked for |
| TCP session | only an administrator updates; a stopped child goes on; both processes end with the connection |
| Edge filter | the saved image does not depend on the schedule; peaks survive; the recursion stays inside |

`PROJECT.json` lists the hazards one by one, each at its line.

## 2. Modules

| Module | Models |
| --- | --- |
| `ServerDb` | the server's thread as seen by the database, its death and restart, the REST processes as holders of the lock |
| `HistoryLog` | abstract: a log of records that only grows in order, and the value published as the latest; `ServerDb` implements it |
| `RestApi` | extends `ServerDb` with what a request is answered, key search included |
| `EventLoop` | the select loop, connections, lists, broadcasts, signals |
| `StartUp` | `start()` and its forks, the names they share, and an alert from sensor to summary |
| `ImageSession` | a TCP client's two processes and the server's side of its connection, image transfer included |
| `UdpSession` | UDP clients, their addresses, the server's list and the alerts it sends |
| `EdgeDetection` | the Canny filter, pixel by pixel, with the OpenMP loop of the hysteresis |
| `MC...` | the instances TLC checks |
| `...Proofs` | the theorems: `ServerDbProofs` and `HistoryProofs` of `ServerDb` and, on top of them, `RestProofs` of `RestApi`; `EventLoopProofs`, `StartUpProofs`, `SessionProofs` (of `ImageSession`), `UdpProofs`, `EdgeProofs` |

`RestApi` is checked together with the `ServerDb` it extends. The others meet at named
steps and are checked apart, each taking what the other does as any choice: a handler's
work on the database is `ServerDb`'s, and in `EventLoop` only the time it takes; an
alert is a bit of the FIFO in `EventLoop`, a sequence of entries in `StartUp`, a record
in `ServerDb`, a message in `ImageSession` and a datagram for each place of the list in
`UdpSession`; `stop()` is `Advance` in `ServerDb` and `sigintHandler` in `EventLoop`.

### ServerDb

`pc` says which session the thread is in or about to open: `lastSupplies`,
`lastAlert` (`getLastId`, 1354), `event` (a put of `lastEvent`), `init`
(`init_rocksdb_supplies`), `food`, `medicine` (the two write sessions of
`update_supplies_from_json`), `history` (the session that puts a record), or that
it is between jobs (`idle`), about to fork the REST process (`fork`) or not there
(`down`). `Open` succeeds when nobody holds the database; `Refuse` is the open
that throws; `Put` is one put; `Close` is the destructor with what the function
does right after it; `Following` is what comes next. `Puts` lists a session's keys
in the order of the code; a put of start-up that finds its key writes nothing.

`job` holds the handler's locals. A handler reads the stock first (`Update`),
clamps each sum at zero (`Added`), writes both groups, then draws an id and puts
the history (`DrawId` belongs to the open because the code draws before it opens,
whether the open succeeds or not). `Crash` may happen at any point; `Die` frees the
server's lock and leaves the REST process; `Start` begins the next run, with fresh
generators. A run numbers itself (`epoch`) and its records carry that number as
timestamp: start-up sleeps a second before serving (70), so two runs never share
one, while within a run any number of records may.

Two ghosts keep the properties honest instead of weak. `torn` names the series
whose last id was behind its records when the server died: those, and no others,
are excused from id uniqueness. `whole` says that every session of the last stock
update went through.

### RestApi

Pure operators over the database of `ServerDb`: `Text` renders a key as tokens,
`KeysWith` is the substring search, and the two handlers return a status and the
keys found. The properties say what a request answered now would get.

### EventLoop

`pc` separates the loop test from the entry of `select` (`Test`, `EnterSelect`,
`Wake`, `EndPass`), because a signal fits in between. In a pass, `ready` is
`read_fds`; handlers take its lowest descriptor (`Turn`). Descriptors of clients are
reused lowest first (`HandleTcpSocket`), so an old number may mean a new client.
`link` follows a connection through `open`, `fin` (the client left), `reset` (it
was written to after that), `closed`. `inbox` tells one
request from several that arrive as one read. The database work of a handler is
`ServerDb`'s; the two modules meet in `stop()` (`Advance` there, `sigintHandler` here).

A handler that sends does nothing else until its sends have returned: `HandleClient`,
`HandleFifo` and `HandleUnixSocket` put the descriptors into `sends`, and the loop is
`sending`, `refusing` (the failed authentication, after which the client is dropped) or
`telling` (the `disconnect` of an outage, after which comes `stop()`). `SendNext` is the
return of one `send`, `BrokenPipe` the SIGPIPE of one to a connection that was reset, and
`Waiting` says that the next one is to a client that is still there. Nothing makes that one
return (section 5); the world, signals included, goes on in the meantime.

### StartUp

`pc` has one entry for the server and one for its REST process, because the latter runs
the rest of `start()` as well when its `listen` fails (`Listen`, `fell`). `Start` is the
fork of each child, the `unlink`, the two binds and the open of the FIFO, in the order
of the code; a name that is taken ends the server that asked for it. The alert process
replaces the FIFO at any time: the second the server sleeps orders nothing. `orphan` is
the alert process of a run that was killed. FIFOs are told apart by inode (`Former`,
`Fresh`), so `held`, what `select` watches, and `from`, what `checkAlerts` opens a
second time by the name `path`, may differ. `hot` holds the places in the array of the
sensors an alert process has still to report, lowest first (`Measure`, `NextSensor`).

`send_alert` is two steps. `OpenToSend` resolves the name, once: with no reader of that
FIFO the process is `opening`, and only a server that opens that very FIFO wakes it
(`WakeWriters`), whatever gets the name in the meantime. `SendAlert` writes, and if the
last reader has gone since, SIGPIPE ends the process. `Closing` empties a FIFO that no
process has open any more; `gone` remembers what went with it.

`content` is a sequence of bytes. `checkAlerts` is `OpenAgain`, `ReadAlerts`, which takes
`BUFFER_SIZE` of them at most (`Reads`), broadcasts them and stores them, and
`CloseAgain`; what was cut off comes with the next pass. A full buffer has no terminating
zero. What lies behind it on the stack is any text, or no text: then the JSON of it throws
outside the `try`, and the server ends (`Terminate`), as it does when a character of more
than one byte (the degree sign) is cut. A byte carries its FIFO, its number there, its
sensor and its place in the alert (`AlertOf`), which the code does not write: they tell two
alerts of one sensor apart, so that a lost, a repeated and an overtaken one are three
different things. `Has` looks for the bytes of a name; `CountAt` is the summary's count:
values that contain it, `lastEvent` among them.

### ImageSession

`down` is the stream to the client, a sequence of messages and pieces of a zip; a read
takes a first part of it (`Received`), and `receive_json` heeds the first message alone.
`parent` and `child` are where the two processes are, `size` the global each has a copy
of. `Send` has the reset and then the SIGPIPE of writing to a closed connection. A server
that closes with something unread aborts the connection (`Close`): what it had sent may be
lost, and the next `recv` fails (`Fails`), after which `receive_json` returns and the parent
goes on, the child beside it, while an end that is read ends the process that reads it
(`AtEnd`). At the
server, `Handle` is `checkTcpClientsMsgs` up to a reply or a drop, and `DetectEdges`,
`Compress`, `SendSize`, `SendReady` and `SendFile` are the image request; `canny.png` is
one file for all images, `zips` are kept by stem. The ghosts `merged`, `crossed` and
`faulted` remember a read that took several messages, a parent that read something
other than the list, and a file that was not written or a part lost in a reset: `ZipIsTheEdges` says that nothing
else spoils a download, and each of the three does.

### UdpSession

A client is a place where the program is run, and run again. `address` is the host and
port of its socket, from the first `sendto` until both processes have let it go
(`LetGo`); then another may get it. `up` holds the addresses datagrams come from, at any
later time or again, long after their sender has gone; `down` the alerts on their way.
`checkUdpClientsMsgs` lists the sender before it looks at the message. `udpClientExists`
compares ports: the host is read where an IPv4 address has it, and the server's socket
gives IPv6 ones.

### EdgeDetection

Integers stand for the floats, with the Gaussian weights to five digits and gradients
compared by their squares. The stages are steps; in the last each thread of the team
takes the pixels that `Owner` gives it, and keeps the stack of `checkContours`
in `calls`. The test of a pixel (`Check`) and the write (`Mark`) are apart, so others
write in between: that is the data race. A call is one of at most four diagonal
neighbours; that these are those the condition of the code lets through is a theorem
(`OnwardIsTheCondition`).

## 3. Runs

| Run | Question | Instance |
| --- | --- | --- |
| `database` | is the stored data consistent and are the REST answers right, whatever is refused and whenever the server dies; do handlers end | 3 runs of the server, 2 jobs of any kinds, food -1/+2, medicine +1, 8 parameter lists; 0.6 million states |
| `loop` | lists, ready bits and the last broadcast | 2 clients, a list of 1, refused authentications and image requests (three sends: the widest window for SIGPIPE), 1 UDP client, no bound on how often anything happens; 0.8 million states |
| `loop_progress` | does anything starve, and do an outage and SIGINT end the server, if clients read | the same without UDP and refusals, with fairness; 0.1 million states |
| `start_up` | who gets the names, and what becomes of alerts | 2 sensors, alerts of 3 bytes of which 2 are the name, a buffer of 4, no measurement once a byte is written, 1 failed session; 0.1 million states |
| `session` | what a download gives, who updates, who goes on | 4 files, two of one stem and one no image, 4 requests, 1 alert, reads of at most 2 messages; 0.4 million states |
| `udp` | who is on the list and hears what | 2 places to run a client, 4 addresses on 2 hosts with a port in common, a list of 2, 1 alert, 1 copy; 0.7 million states |
| `edge` | does the race show, does the recursion stay inside, what survives | 7 images of 4 by 5, 2 threads; 70 thousand states |

Why these bounds are enough to meet the cases. *Database*: reusing an id takes one job,
a death, a restart and another job, and a second restart shows that what the first one
stored still works. A stale value of the latest record takes one TCP and one UDP update;
-1 meets the clamp, +2 makes two updates differ. *Loop*: one place and two clients meet
the full list, a served client that is not listed, and a descriptor that changes hands;
the proofs cover any number. Requests that a client repeats before being heard count as
`several`, however many. *Start-up*: two sensors are two alerts, which a read of four bytes
takes as one and a part: an alert cut in two, a name that is whole in one read and one that
is cut, a full buffer, and the rest that the next read takes. The bytes are few so that
the cut is met by two alerts where the code needs 37; the proofs cover any
size. Both alert processes may have measured before the first byte is written, so up to four
alerts meet. *Session*: a zip of two pieces shows a
download cut short or run over, four requests an image list, an image, another of the
same stem and one thing between. *UDP*: three ports and two places overfill the list,
and two runs at one address change its owner. *Edge*: 4 by 5 has interior pixels next to
each other on the border between the two threads; the recursion is diagonal, so a
larger matrix adds length and no case, and the proofs cover any size.

Bounds on counters are `MaxStarts`, `MaxJobs` (`ServerDb`), `MaxWritten`, `MaxFailures`
(`StartUp`), `MaxMerged`, `MaxRequests`, `MaxAlerts` (`ImageSession`) and `MaxAlerts`
(`UdpSession`), each in the guard of the step that counts. `EventLoop` and
`EdgeDetection` have none. `StartUp` also keeps what is far away in time out of the start: an
outage (minutes after it) and a buffer without an end (hundreds of bytes of alerts) end a
server only when every server has started or ended (`Settled`).

`CHECK_DEADLOCK FALSE` everywhere: servers, clients and the filter stop, and then nothing
is left to do.

Five runs show where a text of the repository and the code part:

| Run | The text | What the run shows |
| --- | --- | --- |
| `rest_readme` | README.md:241-261, on the history and the requests for it | one state in which none of four statements holds (see below) |
| `loop_lists` | server.hpp:473 and 482, a broadcast goes to all connected TCP clients, or UDP clients | one step after which neither list, with room on both, has everyone: a TCP client that came while the list was full is never added, and a UDP client of another host with the same port counts as listed (server.hpp:443) |
| `start_fifo` | server.cpp:71, the sleep makes sure that the child has created the FIFO | the server opens the FIFO of a former run, which then loses its name, and hears no alert |
| `start_summary` | server.hpp:565, the count is that of the alerts recorded | `lastEvent` counts too, and alerts that were read together count once |
| `edge_weak` | lib/cannyEdgeFilter/README.md:146, weak edges only if connected to strong ones | the linking starts at every pixel, so every weak one is saved |

`RestAsInReadme` and `BroadcastsGoToAll` are disjunctions of what the texts say, so what
violates them violates each part. The four of `rest_readme` are

* README.md:259, an id may be passed to `/supplies`: `supplies__0_` is searched,
  `supplies_0_...` is stored, 404 for every id (`SupplyByIdIsFound`);
* README.md:261, `/alerts` with the id `latest`: `_latest_` is searched, 404 with alerts in
  the history (`AlertLatestIsFound`);
* README.md:254, `latest` is the latest update: UDP updates do not write `latestSupplies`
  (`LatestIsTheNewest`);
* README.md:241, an update is written to the history if it was successful: a REST request in
  flight makes the stock's session be skipped, the history is written
  (`HistoryOnlyOfStoredUpdates`).

## 4. Properties

Of `ServerDb`: `UniqueIds`, `HistoryAppendOnly`, `LatestIsRecorded`,
`ReadersSeeWholeSessions`, `UdpUpdateSurvivesDeath`, `StockMatchesHistory`,
`ImplementsLog`, `HandlersFinish`, `PowerFailureStops`. Of `RestApi`: `AlertByIdIsExact`,
`ListsAreExactlyTheHistory`. Of `EventLoop`: `ListIsSound`, `ReadyBitsAreCurrent`,
`OutageTellsListed`, `OutageStops`, `LeaversAreReaped`, `SigintStops`. Of `StartUp`:
`NothingLostOrTwice`, `SummaryWithinOne`, `OutagesAreHeard`, `AlertsGoOut`. Of
`ImageSession`: `ZipIsTheEdges`, `UpdatesOnlyFromAdmins`, `StoppedOnlyWhileAsking`,
`AskingEnds`, `ReaderEnds`. Of `UdpSession`: `AlertsHeardOnce`, `HeardAreListed`,
`ExitLetsGo`. Of `EdgeDetection`: `StaysInside`, `SavedAreTheWeak`, `PeaksSurvive`,
`FilterFinishes`. Each module has its `TypeOK`.
Where the code keeps less than a text of the repository says, the property of the passing
run says what does hold and names the case it leaves out: `AlertByIdIsExact` the id `latest`,
`SavedAreTheWeak` the high threshold, `SummaryWithinOne` the one too many, `HeardAreListed` the
full list and the shared port. A run of the second table shows that case, except that of a
full UDP list, which is as in TCP. `SigintStops` says that the server ends with the next event,
where server.hpp:501 has it end: a signal between the loop test and `select` waits for one,
with the children gone.

Each is stated in words above its definition, with the lines it is about. For each
there is a mutant in `PROJECT.json`: a change of one definition, of the kind a slip
in the code would be, under which the run finds the property violated.

## 5. Fairness

Everywhere weak fairness says one thing: the operating system goes on running a process
or thread that can run.

* `ServerStep`: no step of the server's sessions blocks; an open that is refused returns.
* `~Waiting /\ LoopStep`: not enabled in `select` with nothing to report, so fairness does
  not wake it, and not in a `send` to a client that is there: whether that returns is the
  client's affair. With this alone `OutageStops`, `LeaversAreReaped` and `SigintStops` do not
  hold: the server can wait in `send` (706, 1345) for ever. All three assume `ClientsRead` in
  their statement, that no client leaves a `send` waiting for ever.
* `Start`, `Loop`, `Listen`, `Alerter` in `StartUp`: not enabled in an `open` of the FIFO
  that waits for the other end. `Measure` and `Outage` are not fair.
* `Child`, `Parent`, `Server` in `ImageSession`: a child with SIGSTOP does not run, a read
  of an empty stream waits. The user may do nothing, and nobody hangs up.
* `HandleSigint` in `UdpSession`, and the return of `main` after menu 4. Nothing of the
  network is fair: what is sent may never come.
* `Filter`, `Thread` in `EdgeDetection`: every thread of the team is run.

Nothing is assumed of REST clients and of sensors, nor that a client ever leaves. That a client
reads is `ClientsRead` in `EventLoop`. `ServerDb`, `StartUp` and `ImageSession` have handlers
as steps that return, so their liveness properties (`HandlersFinish`, `PowerFailureStops`,
`AlertsGoOut`, `AskingEnds`, `ReaderEnds`) say what the database, the FIFO and one
session can hold up, and assume the same of the clients' reading.

## 6. Proofs

TLC checks small instances; the theorems below hold for every value of the constants.
They assume what the modules' `ASSUME`s say: deltas are integers and bounds numbers of any
size (`ServerDb`, `StartUp`, `ImageSession`, `UdpSession`); sensors are a sequence
of names, and an alert, a name in it and the buffer have at least a byte (`StartUp`); each file has a stem and a zip of some length (`ImageSession`); clients are
finitely many and lists have places (`EventLoop`); an address has a host and a port
(`UdpSession`); a matrix has rows and columns, an image bytes, each pixel an owner, and the
low threshold is above 0 and not above the high one (`EdgeDetection`).

| Theorem | Module | Says |
| --- | --- | --- |
| `TypeCorrect` | `ServerDbProofs` | `Spec => []TypeOK` |
| `IdsAreUnique` | `HistoryProofs` | `Spec => []UniqueIds` |
| `ReadersAreSafe` | `HistoryProofs` | `Spec => []ReadersSeeWholeSessions` |
| `LatestHasARecord` | `HistoryProofs` | `Spec => []LatestIsRecorded` |
| `HistoryOnlyGrows` | `HistoryProofs` | `Spec => HistoryAppendOnly` |
| `UdpNeverTears` | `HistoryProofs` | `Spec => UdpUpdateSurvivesDeath` |
| `DatabaseImplementsLog` | `HistoryProofs` | `Spec => ImplementsLog`, the refinement of `HistoryLog` |
| `StockIsTheNewest` | `HistoryProofs` | `Spec => []StockMatchesHistory` |
| `AlertsByIdAreExact`, `ListsAreTheHistory` | `RestProofs` | `AlertByIdIsExact`, `ListsAreExactlyTheHistory` always hold, given `NumberTexts` |
| `TypeCorrect`, `BroadcastsAreSound`, `BitsStayTrue`, `OutagesAreTold` | `EventLoopProofs` | `TypeOK`, `ListIsSound`, `ReadyBitsAreCurrent`, `OutageTellsListed` always hold |
| `TypeCorrect`, `OutagesReachTheServer`, `NothingIsLostOrTwice`, `SummaryIsWithinOne` | `StartUpProofs` | `TypeOK`, `OutagesAreHeard`, `NothingLostOrTwice`, `SummaryWithinOne` always hold |
| `TypeCorrect`, `OthersUpdateNothing`, `ChildGoesOn`, `UserGetsTheEdges` | `SessionProofs` | `TypeOK`, `UpdatesOnlyFromAdmins`, `StoppedOnlyWhileAsking`, `ZipIsTheEdges` always hold |
| `TypeCorrect`, `HeardIsListed`, `AlertsAreHeardOnce` | `UdpProofs` | `TypeOK`, `HeardAreListed`, `AlertsHeardOnce` always hold |
| `TypeCorrect`, `RecursionStaysInside`, `RacesDoNotShow`, `PeaksAreSaved` | `EdgeProofs` | `TypeOK`, `StaysInside`, `SavedAreTheWeak`, `PeaksSurvive` always hold |
| `OnwardIsTheCondition` | `EdgeProofs` | the calls of `checkContours` are those of its condition |

*Types.* `TypeOK` is not inductive: that a put has a value of its key's kind needs
to know which job the thread has where it is. `Flow` says so, and `Typed` is the
two together. `StepTyped` has one step per action.

*Ids.* `UniqueIds` is not inductive either. Why the next id is new depends on where
the thread is, and `IInv` says it case by case, for each series that is not torn:

* a generator that was set in this run is ahead of every record and of the stored
  last id (`AheadOf`);
* outside a session that is still to put the last id, the stored one covers every
  record (`Covered`), so what `setId` restores is ahead too;
* in a session that is still to put its record, the id drawn is ahead (`Ahead`),
  and the records are covered. For UDP this is why a death tears nothing: when
  the last id is pending, so is the record;
* in a session that has put its last id but not its record, the two are the same id.

`Fresh` is what keeps *keys* apart, also in torn series: records of earlier runs
carry an earlier timestamp, those of this run an id the generator has passed.
`LatestBacked` says that the record of a TCP update is stored, with its value, and
newest, when its latest value is about to be put. What the proofs use about the
order of the puts is in one lemma, `PutsAreSound`; change the order in
`HistoryPuts` and that lemma fails. A death is easy: it puts exactly the series
that are not covered into `torn`, so the others are covered for the next run.

*The log.* `HistoryLog` is the abstract specification: a step appends one record
after all of its kind, or publishes the newest supplies record. `ServerDb` implements it
with `log` the records in the database and `latest` the value of `latestSupplies`;
the put of a record is an append, the put of `latestSupplies` a publication, all
else stutters, deaths and restarts too. That UDP publishes nothing is allowed by
the log, and is a part of the divergence `rest_readme` shows.

*The stock.* `StockInv` splits on whether an update is under way. If not, stock and
newest record agree; if so, the groups whose put is done hold what the update
computed, and once its record is put it is the newest and holds the same.

*The answers.* A key is searched by substring, so `RestProofs` is about the places of a
text where two or three tokens in a row can be. A record's text is its series, `_`, the id,
`_`, the timestamp; so the prefix of a series is only found at its head, and an id between
two `_` only in its middle (`Pairs`, `Triples`, `HeadPair`, `MiddleTriple`), and no other
key has either. What is found is then the records (`PrefixSelects`) or those with the id
(`IdSelects`), and `IdsAreUnique` makes that one at most. The hypothesis `NumberTexts` says
that the text of a number is not `_`, `alert` or `supplies`, and that two numbers have two
texts: true of decimal digits, but `ToString` is a string operator the provers know nothing
of, so it is stated and not proved.

*The loop.* A client waits in the backlog or sits behind one descriptor, never both and
never twice (`ConnectedOnce`), and the list names only descriptors that are served
(`Listed`). So what a handler changes is of its own connection alone, and the bits of the
others stay true (`Current`). What a handler has still to send goes to connections that are
open, however long it takes (`SendsSound`): nothing else is dropped in between. An outage is
handled after the accepts of its pass and is in the last pass (`OutageSettled`); until the
last `send` has returned, who is listed has been told or is still to be sent to.

*The names.* `NameInv` says where each server can be, and `NobodyFell`, for as long as
the REST process does only its own work: it never comes to `unlink`, so from the bind on
the name of the socket leads to the main server, and an outage that finds nobody means
that this server is gone.

*The alerts.* `PortInv` has one server in its loop, by the port; so what goes with the last
close of a FIFO (`gone`) is of one that this server does not hold (`GoneInv`). `QueueInv` is
`NothingLostOrTwice` byte by byte: the bytes written to a FIFO are numbered, it holds the last
of them, to the end of an alert (`Numbered`), all others have been heard or are gone
(`AllHeard`), nothing else has been heard (`HeardWritten`) and in their order (`HeardInOrder`),
and a broadcast that is shorter than the buffer ends with an alert (`HeardToTheEnd`). A read
appends the first bytes of a FIFO as the last broadcast; their numbers follow those heard before
from that FIFO, whichever FIFO it is and wherever the buffer ends.
`CountInv` compares records with broadcasts entry by entry, whole alerts or cut: each broadcast
adds one to both, or one to `delivered` and one to `failures`; `lastEvent` adds the one that is
too many.

*The session.* An update needs the connection to have been kept open by the server,
which needs the first message it took to be the authentication: `AuthFirst` says that
until the server has taken it, it is the head of the stream, and afterwards that a
connection still open is an administrator's. `StreamsOK` types the messages in flight.

*The download.* `ZipIsTheEdges` speaks of a file on the client's disk, and depends on
everything on the way: the cache, `canny.png`, what the server is doing, the order of the
stream, the size the child remembers. `TransferInv` has one part for each. The core is
`Transfer(d, i)`: the messages of one transfer, of image `i`'s zip, follow each other from
place `d` of the stream on; when `d` is negative the child has taken `-d` of them, and what
it holds is the zip so far. Two transfers would spoil each other, and the code has nothing
that keeps them apart but the order of things: a select needs the user to have the list, the
list is read by the parent while the child is stopped, and it comes behind the transfer
(`AsksOK`); so at a select nothing of a transfer is in the stream or in the child's hands
(`Quiet`). The part about the server (`ServerOK`) says that the image it serves is the one
selected last, that what it zips is `canny.png` of that image, and that nothing reaches it
once the connection is closed. All of this (`Order`)
is claimed only while no read has taken two messages, the parent has read nothing but lists,
all files were written, no reset has lost a part and the child still reads (`Live`): each of
the ghosts can break it, and a child that ended saves nothing any more.

*The UDP list.* `HeardAreListed` needs that who was heard has an address (`ServedInv`).
`AlertsHeardOnce` is not inductive: `AlertInv` adds that no two places have one port,
that an alert is on its way to an address at most once and not to one that has heard it,
and that who has not sent yet has not heard, so an address that changes hands takes
nothing along.

*The filter.* The suppression clears the border (`BorderCleared`), so no pixel of it is
weak (`MarksInOrder`), so no call goes on from it, so none leaves the matrix
(`CallsAreNear`). A pixel that is not yet what it will be is one that some thread still has
to visit (`UnsettledArePending`), whatever it has read of the others' writes; at the
barrier nobody has any left (`OnlyLinking`).

Every safety property of the passing runs, invariant or action property, is a theorem.
Only model-checked are the liveness properties (`HandlersFinish`, `PowerFailureStops`,
`OutageStops`, `LeaversAreReaped`, `SigintStops`, `AlertsGoOut`, `AskingEnds`, `ReaderEnds`,
`ExitLetsGo`, `FilterFinishes`), as fairness and `ENABLED` are beyond the prover. `IInv` and `StockInv` of
`ServerDb` and `TransferInv` of `ImageSession` were checked with TLC before they were proved.

## 7. What is not modelled

* The width of `int`: ids and stock are unbounded here. A sum beyond `INT_MAX` is converted
  from `double` to `int` by `update_supplies_from_json`, which C leaves undefined.
* Opens that only read (the stock at the start of a handler, the summary's counts)
  are taken to succeed in `ServerDb`. The read of the stock can be refused too; the handler
  then crashes as it does on a missing stock, which `Crash` covers, but no property
  relies on that.
* A put that fails (a full disk) and a machine that loses power with writes not yet
  on the disk: a death here is the death of the process, which keeps what was put.
* No property says that the server has a stock. A REST request during start-up can make the
  initialisation be skipped (63), and the next request that reads the stock then ends the
  server: the read uses the NULL item of the failed parse (supplies_module.c:101), where
  supplies_module.h:37 has it return NULL. Both are modelled (`Refuse`, `ReadMissingStock`),
  and all properties hold with them.
* SIGINT in `ServerDb`: for the database it is a death with one REST process less;
  `EventLoop` has it in full. A `fork` or `socket` that fails during start-up.
* The command line and the connection of the TCP client, which are those of the UDP
  client but for a default address. Replies to UDP clients, formatting, logs, and the
  encoding of a name: nothing here depends on them. One item stands for the items of a
  group, which the code treats alike and writes as one value.
* A JSON message goes out whole or not at all, though `send` may put out a part of it and the
  code does not go on with the rest. In `EventLoop` a signal may end a `send` of an answer or
  an alert that has put out a part; that of a `disconnect`, of a few bytes, is not cut.
* What a server that was held up in `send` misses in `StartUp`, where a broadcast returns.
* What lies behind a full buffer of alerts: it is taken to hold no name of a sensor, and the
  text that is broadcast and stored ends with the buffer (`Terminate` is the case in which
  it cannot be broadcast). Nor that the FIFO itself, of 64 KiB, is full: alerts of two
  thousand sensors would have to wait in it.
* The texts of the clients' menus. (The UDP client's prints "5. Exit", while the code leaves
  at 4, which is what `Exit` of `UdpSession` does.) `Start` of `UdpSession` has the command
  line with what it does to the port and the address, though no property depends on it.
* What the sensors measure: any set may be high. (The comment at alertInfection.c:69 says
  that normal readings end at 37.9; `rand() % 40 + 350` reaches 38.9, so nine in
  forty of them are alerts as well.)
* Rounding of floats and the colours of an image in the filter, and its intermediate
  files, which nobody reads.
* `src/lib/rocksDbWrapper` and `src/lib/socketSetup` are not called by anyone;
  cJSON and httplib are third-party.
