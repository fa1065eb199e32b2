----------------------------- MODULE EventLoop -----------------------------
(***************************************************************************)
(* The select loop of Server::start with what it shares with the world:    *)
(* the connections of the TCP clients, the list alerts are broadcast to,   *)
(* the UDP clients heard from, the FIFO of the alert process, the socket   *)
(* of the power outage process, and SIGINT.                                *)
(*                                                                         *)
(* One pass of the loop handles the descriptors select() reported, lowest  *)
(* first; each handler is an action, with one more for each send() it      *)
(* makes.  What handlers do to the database is ServerDb's; here a request  *)
(* is told apart by what it sends.                                         *)
(*                                                                         *)
(* The sockets are blocking.  A send() to a client that has stopped        *)
(* reading waits, and the only thread with it, until the client reads or   *)
(* is gone.                                                                *)
(*                                                                         *)
(* A connection's end is seen late: a client that leaves ("fin") is still  *)
(* sent to once without harm; its kernel then answers with a reset, and    *)
(* writing to a reset connection raises SIGPIPE, which nobody handles.     *)
(***************************************************************************)
EXTENDS Integers, Sequences, FiniteSets, SequencesExt

CONSTANTS
  Clients,               \* the TCP clients
  Requests,              \* the requests they send
  UdpClients,            \* the UDP clients
  Port,                  \* the port a UDP client sends from
  MAX_TCP_CONNECTIONS,   \* places in tcpClientsList
  MAX_UDP_CONNECTIONS    \* places in udpClientsList

ASSUME RequestsAssumption == Requests \subseteq {"status", "update", "badAuth", "image"}
ASSUME ClientsAssumption == IsFiniteSet(Clients) /\ IsFiniteSet(UdpClients)
ASSUME LimitsAssumption ==
  MAX_TCP_CONNECTIONS \in Nat \ {0} /\ MAX_UDP_CONNECTIONS \in Nat \ {0}

VARIABLES
  pc,         \* where the loop is
  ready,      \* the bits of read_fds still to be looked at in this pass
  sends,      \* the descriptors the handler has still to send to, in order
  running,    \* SERVER_RUNNING
  children,   \* the child processes alive
  peer,       \* the client at the other end of each open client descriptor
  served,     \* the client descriptors in master_fds
  list,       \* tcpClientsList, as a sequence of descriptors
  udpList,    \* udpClientsList
  backlog,    \* connections not yet accepted, oldest first
  link,       \* the state of each client's connection
  inbox,      \* what each client has sent and the server not yet read
  datagrams,  \* UDP clients with a request not yet read
  alerts,     \* the FIFO holds at least one alert
  outage,     \* the power outage notification: none, pending or done
  told        \* ghost: clients sent "disconnect" on their current connection

network == <<peer, served, list, backlog, link, inbox, told>>
sources == <<udpList, datagrams, alerts, outage>>
vars == <<pc, ready, sends, running, children, network, sources>>

\* The descriptors, in the order start() creates them.
TcpSocket  == 1
UdpSocket  == 2
UnixSocketFirst == 0   \* mutant: the Unix socket is created first
UnixSocket == 3
Fifo       == 4
FirstClientFd == 5
ClientFds == FirstClientFd .. (FirstClientFd + Cardinality(Clients) - 1)

Children == {"alerts", "power", "rest"}

\* How many sends answer a request.
Sends == [status |-> 1, update |-> 0, badAuth |-> 1, image |-> 3]

Over == pc \in {"ended", "failed", "killed"}

\* A handler is sending: an answer or an alert, a refusal, or "disconnect".
Sending == pc \in {"sending", "refusing", "telling"}

-----------------------------------------------------------------------------
\* What select() reports.
Readable(fd) ==
  LET c == peer[fd] IN inbox[c] # "empty" \/ link[c] \in {"fin", "reset"}

ReadyFds ==
  {fd \in {TcpSocket}  : backlog # <<>>} \cup
  {fd \in {UdpSocket}  : datagrams # {}} \cup
  {fd \in {UnixSocket} : outage = "pending"} \cup
  {fd \in {Fifo}       : alerts} \cup
  {fd \in served       : Readable(fd)}

\* The loop test, the entry of select(), its return, the end of a pass.  Mutant of
\* the test: the server goes on as long as it has clients.
TestAlways ==
  /\ pc = "test"
  /\ pc' = IF running \/ served # {} THEN "enter" ELSE "ended"
  /\ UNCHANGED <<ready, sends, running, children, network, sources>>

Test ==
  /\ pc = "test"
  /\ pc' = IF running THEN "enter" ELSE "ended"
  /\ UNCHANGED <<ready, sends, running, children, network, sources>>

EnterSelect ==
  /\ pc = "enter"
  /\ pc' = "select"
  /\ UNCHANGED <<ready, sends, running, children, network, sources>>

Wake ==
  /\ pc = "select"
  /\ ReadyFds # {}
  /\ ready' = ReadyFds
  /\ pc' = "pass"
  /\ UNCHANGED <<sends, running, children, network, sources>>

EndPass ==
  /\ pc = "pass"
  /\ ready = {}
  /\ pc' = "test"
  /\ UNCHANGED <<ready, sends, running, children, network, sources>>

Lowest(fd, fds) == fd \in fds /\ \A f \in fds : fd <= f

\* Mutant of Turn: one descriptor per select().
TurnOnce(fd) == pc = "pass" /\ Lowest(fd, ready) /\ ready' = {}

\* The handler of a descriptor runs once the lower ones have run.
Turn(fd) == pc = "pass" /\ Lowest(fd, ready) /\ ready' = ready \ {fd}

-----------------------------------------------------------------------------
\* What writing to a connection does to it.
AfterSend(c) == [link EXCEPT ![c] = IF @ = "fin" THEN "reset" ELSE @]

\* The handler of SIGINT.  Mutant: only the children are stopped.
sigintKillsChildren == children' = {} /\ UNCHANGED running

sigintHandler == running' = FALSE /\ children' = {}

\* Mutant: the list is left as it is.
DropKeepsListed(fd) ==
  /\ peer' = [f \in DOMAIN peer \ {fd} |-> peer[f]]
  /\ served' = served \ {fd}
  /\ link' = [link EXCEPT ![peer[fd]] = "closed"]
  /\ inbox' = [inbox EXCEPT ![peer[fd]] = "empty"]
  /\ UNCHANGED <<list, backlog, told>>

\* remvTcpClient: the first place of the descriptor in the list, if it has one.
remvTcpClient(fd) ==
  \/ fd \notin ToSet(list) /\ UNCHANGED list
  \/ \E i \in DOMAIN list :
       /\ list[i] = fd
       /\ \A j \in 1..(i - 1) : list[j] # fd
       /\ list' = RemoveAt(list, i)

\* A client descriptor closed, cleared from master_fds and taken off the list.
Drop(fd) ==
  /\ peer' = [f \in DOMAIN peer \ {fd} |-> peer[f]]
  /\ served' = served \ {fd}
  /\ remvTcpClient(fd)
  /\ link' = [link EXCEPT ![peer[fd]] = "closed"]
  /\ inbox' = [inbox EXCEPT ![peer[fd]] = "empty"]
  /\ UNCHANGED <<backlog, told>>

-----------------------------------------------------------------------------
\* Whether addTcpClient finds room.  Mutant: off by one.
RoomForOneMore == Len(list) <= MAX_TCP_CONNECTIONS
HasRoom == Len(list) < MAX_TCP_CONNECTIONS

\* acceptTcpConn takes the oldest connection and the lowest free descriptor;
\* addTcpClient lists it if there is room.
HandleTcpSocket ==
  /\ Turn(TcpSocket)
  /\ backlog # <<>>
  /\ \E fd \in ClientFds \ DOMAIN peer :
       /\ Lowest(fd, ClientFds \ DOMAIN peer)
       /\ peer' = [f \in DOMAIN peer \cup {fd} |->
                     IF f = fd THEN Head(backlog) ELSE peer[f]]
       /\ served' = served \cup {fd}
       /\ list' = IF HasRoom THEN Append(list, fd) ELSE list
  /\ backlog' = Tail(backlog)
  /\ UNCHANGED <<pc, sends, running, children, link, inbox, told, sources>>

\* handleUdpConn: addUdpClient, which compares the ports alone.
HandleUdpSocket ==
  /\ Turn(UdpSocket)
  /\ \E u \in datagrams :
       /\ datagrams' = datagrams \ {u}
       /\ udpList' = IF \/ \E v \in udpList : Port[v] = Port[u]
                        \/ Cardinality(udpList) >= MAX_UDP_CONNECTIONS
                     THEN udpList
                     ELSE udpList \cup {u}
  /\ UNCHANGED <<pc, sends, running, children, network, alerts, outage>>

\* handleUnixConn: sendJsonToAllTcpClients "disconnect", then stop().
HandleUnixSocket ==
  /\ Turn(UnixSocket)
  /\ pc' = "telling"
  /\ sends' = list
  /\ UNCHANGED <<running, children, network, sources>>

\* checkAlerts: one read takes what the FIFO holds, for one broadcast.
HandleFifo ==
  /\ Turn(Fifo)
  /\ alerts' = FALSE
  /\ pc' = "sending"
  /\ sends' = list
  /\ UNCHANGED <<running, children, network, udpList, datagrams, outage>>

\* handleTcpConn.  A reset that has arrived fails getpeername; nothing to read
\* is the end of the connection; two requests read at once do not parse.
HandleClient(fd) ==
  /\ Turn(fd)
  /\ LET c == peer[fd]
     IN \/ /\ link[c] = "reset" \/ inbox[c] \in {"empty", "several"}
           /\ Drop(fd)
           /\ UNCHANGED <<pc, sends, running, children, sources>>
        \/ /\ inbox[c] \in Requests
           /\ inbox' = [inbox EXCEPT ![c] = "empty"]
           /\ sends' = [i \in 1..Sends[inbox[c]] |-> fd]
           /\ pc' = IF inbox[c] = "badAuth" THEN "refusing" ELSE "sending"
           /\ UNCHANGED <<running, children, peer, served, list, backlog, link, told, sources>>

Handle ==
  \/ HandleTcpSocket \/ HandleUdpSocket \/ HandleUnixSocket \/ HandleFifo
  \/ \E fd \in DOMAIN peer : HandleClient(fd)

-----------------------------------------------------------------------------
\* send() to a connection that was reset: SIGPIPE, the process dies and its
\* children live on.  It need not happen: the reset may still be under way.
BrokenPipe ==
  /\ Sending /\ sends # <<>>
  /\ link[peer[Head(sends)]] = "reset"
  /\ pc' = "killed"
  /\ UNCHANGED <<ready, sends, running, children, network, sources>>

\* Mutant: a client that cannot be written to is dropped.
SendNextDrops ==
  /\ pc \in {"sending", "telling"} /\ sends # <<>>
  /\ \/ /\ link' = AfterSend(peer[Head(sends)])
        /\ told' = IF pc = "telling" THEN told \cup {peer[Head(sends)]} ELSE told
        /\ sends' = Tail(sends)
        /\ UNCHANGED <<peer, served, list, backlog, inbox>>
     \/ /\ link[peer[Head(sends)]] = "reset"
        /\ Drop(Head(sends))
        /\ sends' = SelectSeq(sends, LAMBDA fd : fd # Head(sends))
  /\ UNCHANGED <<pc, ready, running, children, sources>>

\* A send returns.
SendNext ==
  /\ pc \in {"sending", "telling"} /\ sends # <<>>
  /\ link' = AfterSend(peer[Head(sends)])
  /\ told' = IF pc = "telling" THEN told \cup {peer[Head(sends)]} ELSE told
  /\ sends' = Tail(sends)
  /\ UNCHANGED <<pc, ready, running, children, peer, served, list, backlog, inbox, sources>>

\* The failure of an authentication is sent and the client dropped.
Refuse ==
  /\ pc = "refusing"
  /\ Drop(Head(sends))
  /\ sends' = <<>>
  /\ pc' = "pass"
  /\ UNCHANGED <<ready, running, children, sources>>

\* The handler returns; the one of an outage calls stop() first.
EndSends ==
  /\ pc \in {"sending", "telling"} /\ sends = <<>>
  /\ IF pc = "telling" THEN sigintHandler /\ outage' = "done"
                       ELSE UNCHANGED <<running, children, outage>>
  /\ pc' = "pass"
  /\ UNCHANGED <<ready, sends, network, udpList, datagrams, alerts>>

-----------------------------------------------------------------------------
\* SIGINT.  Between the loop test and select() it only clears the flag; in
\* select() it makes the call fail, and the server exits; a send() that has put
\* out a part of its data returns.
Sigint ==
  /\ ~Over
  /\ sigintHandler
  /\ pc' = IF pc = "select" THEN "failed" ELSE pc
  /\ \/ UNCHANGED sends
     \/ pc = "sending" /\ sends # <<>> /\ sends' = Tail(sends)
  /\ UNCHANGED <<ready, network, sources>>

\* The clients and the child processes.
Connect(c) ==
  /\ link[c] \in {"none", "closed"}
  /\ link' = [link EXCEPT ![c] = "open"]
  /\ backlog' = Append(backlog, c)
  /\ told' = told \ {c}
  /\ UNCHANGED <<pc, ready, sends, running, children, peer, served, list, inbox, sources>>

SendRequest(c, r) ==
  /\ link[c] = "open"
  /\ inbox' = [inbox EXCEPT ![c] = IF @ = "empty" THEN r ELSE "several"]
  /\ UNCHANGED <<pc, ready, sends, running, children, peer, served, list, backlog, link, told, sources>>

\* A client that leaves with something unread resets its connection, and what
\* it had sent is not read any more.
Leave(c) ==
  /\ link[c] = "open"
  /\ link' = [link EXCEPT ![c] = "fin"]
  /\ inbox' \in {inbox, [inbox EXCEPT ![c] = "empty"]}
  /\ UNCHANGED <<pc, ready, sends, running, children, peer, served, list, backlog, told, sources>>

SendDatagram(u) ==
  /\ datagrams' = datagrams \cup {u}
  /\ UNCHANGED <<pc, ready, sends, running, children, network, udpList, alerts, outage>>

RaiseAlert ==
  /\ "alerts" \in children
  /\ alerts' = TRUE
  /\ UNCHANGED <<pc, ready, sends, running, children, network, udpList, datagrams, outage>>

FailPower ==
  /\ "power" \in children
  /\ outage = "none"
  /\ outage' = "pending"
  /\ UNCHANGED <<pc, ready, sends, running, children, network, udpList, datagrams, alerts>>

-----------------------------------------------------------------------------
Init ==
  /\ pc = "test"
  /\ ready = {}
  /\ sends = <<>>
  /\ running = TRUE
  /\ children = Children
  /\ peer = [fd \in {} |-> 0]
  /\ served = {}
  /\ list = <<>>
  /\ udpList = {}
  /\ backlog = <<>>
  /\ link = [c \in Clients |-> "none"]
  /\ inbox = [c \in Clients |-> "empty"]
  /\ datagrams = {}
  /\ alerts = FALSE
  /\ outage = "none"
  /\ told = {}

LoopStep ==
  \/ Test \/ EnterSelect \/ Wake \/ EndPass \/ Handle
  \/ BrokenPipe \/ SendNext \/ Refuse \/ EndSends

World ==
  /\ ~Over
  /\ \/ \E c \in Clients : Connect(c) \/ Leave(c) \/ \E r \in Requests : SendRequest(c, r)
     \/ \E u \in UdpClients : SendDatagram(u)
     \/ RaiseAlert
     \/ FailPower

Next == LoopStep \/ Sigint \/ World

Spec == Init /\ [][Next]_vars

\* The server is in a send() to a client that is still there, and may read or not.
Waiting == Sending /\ sends # <<>> /\ link[peer[Head(sends)]] = "open"

\* The operating system runs the server whenever it is not blocked in select()
\* or in a send().
FairSpec == Spec /\ WF_vars(~Waiting /\ LoopStep)

\* What only the clients can see to: none leaves a send() waiting for ever.
ClientsRead == WF_vars(Waiting /\ LoopStep)
-----------------------------------------------------------------------------
\* Every variable has its type, and the lists keep to their limits.
TypeOK ==
  /\ pc \in {"test", "enter", "select", "pass", "sending", "refusing", "telling",
             "ended", "failed", "killed"}
  /\ ready \subseteq {TcpSocket, UdpSocket, UnixSocket, Fifo} \cup ClientFds
  /\ sends \in Seq(ClientFds) /\ (pc = "refusing" => Len(sends) = 1)
  /\ running \in BOOLEAN
  /\ children \subseteq Children
  /\ DOMAIN peer \subseteq ClientFds
  /\ \A fd \in DOMAIN peer : peer[fd] \in Clients
  /\ served \subseteq ClientFds
  /\ list \in Seq(ClientFds) /\ Len(list) <= MAX_TCP_CONNECTIONS
  /\ udpList \subseteq UdpClients /\ Cardinality(udpList) <= MAX_UDP_CONNECTIONS
  /\ backlog \in Seq(Clients)
  /\ link \in [Clients -> {"none", "open", "fin", "reset", "closed"}]
  /\ inbox \in [Clients -> Requests \cup {"empty", "several"}]
  /\ datagrams \subseteq UdpClients
  /\ alerts \in BOOLEAN
  /\ outage \in {"none", "pending", "done"}
  /\ told \subseteq Clients

\* Descriptors are reused, yet a broadcast only writes to open descriptors, and
\* to no client twice: the list is within master_fds, master_fds is what is
\* open, and listed descriptors lead to distinct clients (server.cpp 160-186,
\* 676-697, 809-815).
ListIsSound ==
  /\ ToSet(list) \subseteq served
  /\ served = DOMAIN peer
  /\ \A i, j \in DOMAIN list : peer[list[i]] = peer[list[j]] => i = j

\* A client descriptor still to be looked at in this pass is one that was open
\* when select() returned and has not been closed or reused since, so no
\* handler blocks in recv() on a connection that has nothing to say
\* (server.cpp 92-137).
ReadyBitsAreCurrent ==
  pc = "pass" \/ Sending =>
    \A fd \in ready \cap ClientFds : fd \in served /\ Readable(fd)

\* The clients at the other end of the list.
ListedClients == {peer[fd] : fd \in ToSet(list)}

\* A server that ended after a power outage has sent "disconnect" to every
\* client on its list, those accepted in its last pass too (server.cpp 1021-1023).
OutageTellsListed ==
  pc = "ended" /\ outage = "done" => ListedClients \subseteq told

\* A power outage ends the server: no request, alert or connection keeps it from
\* hearing of it or going after it, if every client reads what it is sent
\* (server.cpp 92, 104-137, 1021-1023, 1372-1375).  A client that does not can
\* keep the server in send() (server.cpp 706, 1345).
OutageStops == ClientsRead => ((outage = "pending") ~> Over)

\* A client that left gives its descriptor back, however busy the others and
\* the sensors keep the loop, if the others read what they are sent
\* (server.cpp 104-137, 171-181).
LeaversAreReaped ==
  ClientsRead =>
    \A c \in Clients :
      (link[c] = "fin") ~> (link[c] \notin {"fin", "reset"} \/ Over)

\* SIGINT ends the server, at the latest with the next thing it hears, if the
\* clients read what they are sent.  server.hpp 501 has it end at once; but a
\* signal between the loop test and select() waits for that next thing
\* (server.cpp 92-102, 828-845).
SigintStops == ClientsRead => ((~running /\ ReadyFds # {}) ~> Over)

-----------------------------------------------------------------------------
\* What the repository's texts say and the code does not do.

\* Who is served is on the list, as long as that has room.
TcpServedAreListed == Len(list) < MAX_TCP_CONNECTIONS => served \subseteq ToSet(list)

\* Who was just heard is on the list, as long as that has room.
UdpHeardAreListed ==
  Cardinality(udpList') < MAX_UDP_CONNECTIONS => datagrams \ datagrams' \subseteq udpList'

\* server.hpp 473 and 482: a broadcast goes to all connected TCP clients, and one
\* to all connected UDP clients.  At least one of the two lists should hold them
\* all, so what violates this shows both that miss one though they have room: a
\* TCP client that came when the list was full is never added, and a UDP client
\* is not if another sends from the same port.
BroadcastsGoToAll == [][TcpServedAreListed \/ UdpHeardAreListed]_vars
=============================================================================
