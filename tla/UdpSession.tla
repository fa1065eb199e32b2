----------------------------- MODULE UdpSession -----------------------------
(***************************************************************************)
(* The UDP clients and the list the server keeps of them: the start of a   *)
(* client, its two processes on one socket, the datagrams between it and   *)
(* the server, and the alerts the server sends to its list.                *)
(*                                                                         *)
(* A client here is a place where the program is run, and run again once   *)
(* both processes have ended.  The socket gets an address when it is first *)
(* used to send, and the address is free for others when the last process  *)
(* has let the socket go.  The server never forgets an address and tells   *)
(* addresses apart by their ports alone.                                   *)
(*                                                                         *)
(* The network is a set of datagrams: they overtake one another, and may   *)
(* never come.  To the server each may come any number of times, as a      *)
(* client may ask any number of times; of an alert the network may make    *)
(* one copy.  What a request does to the database is in ServerDb; what is  *)
(* answered goes to the address that asked and is printed, and changes     *)
(* nothing here.                                                           *)
(***************************************************************************)
EXTENDS Integers, Sequences, FiniteSets

CONSTANTS
  Clients,
  Addresses,             \* the hosts, with the ports each may give a socket
  MAX_UDP_CONNECTIONS,
  MaxAlerts              \* bound: alerts the server broadcasts

ASSUME BoundsAssumption ==
  MAX_UDP_CONNECTIONS \in Nat /\ MaxAlerts \in Nat

NoAddress == [host |-> "none", port |-> 0]

ASSUME AddressAssumption ==
  NoAddress \notin Addresses /\ \A a \in Addresses : a = [host |-> a.host, port |-> a.port]

VARIABLES
  parent,      \* where each parent is
  child,       \* where each child is
  address,     \* the address of its socket
  signalled,   \* the child has a SIGINT to handle
  heard,       \* the alerts the child printed
  up,          \* the addresses that requests were sent from
  down,        \* the alerts on their way
  twice,       \* ghost: an alert was copied
  udpClients,  \* udpClientsList
  alerts,      \* alerts broadcast
  served       \* ghost: the clients that the server has heard from

processes == <<parent, child, signalled>>
network   == <<up, down, twice>>
server    == <<udpClients, alerts>>
vars == <<processes, address, heard, network, server, served>>

-----------------------------------------------------------------------------
\* The start of a client.

\* The options on a command line, and whether there is a shared memory with the
\* ports, which no program of the repository writes.
CommandLines == [option : {"known", "unknown"}, type : {"none", "v4", "v6", "other"},
                 address : {"numeric", "other", "missing"}, port : {"given", "missing"},
                 shm : BOOLEAN]

\* parse_command_line_args ends the client at a type that is unknown, or that
\* comes after an address.
parse_command_line_args(o, typeIsLast) ==
  /\ o.option = "known"
  /\ o.type # "other"
  /\ ~(o.type # "none" /\ typeIsLast /\ o.address # "missing")

get_port(o) == o.port = "given" \/ o.shm

\* set_server_addr dereferences NULL without an address; what is not a numeric
\* one leaves zeros, which are this host, and its datagrams may be lost.
establish_connection(o) == o.address # "missing"

\* main, as far as the fork, which may fail as the socket may.
Start(c) ==
  /\ parent[c] = "ended" /\ child[c] = "ended"
  /\ \E o \in CommandLines, typeIsLast \in BOOLEAN :
       parse_command_line_args(o, typeIsLast) /\ get_port(o) /\ establish_connection(o)
  /\ parent' = [parent EXCEPT ![c] = "hostname"]
  /\ child' = [child EXCEPT ![c] = "reading"]
  /\ heard' = [heard EXCEPT ![c] = <<>>]
  /\ UNCHANGED <<signalled, address, network, server, served>>

\* get_os_id, in the parent: a pointer into a frame that is gone, so any name
\* goes with the requests; or the parent ends here, and its child does not.
GetHostname(c) ==
  /\ parent[c] = "hostname"
  /\ parent' \in {[parent EXCEPT ![c] = p] : p \in {"menu", "ended"}}
  /\ UNCHANGED <<child, signalled, address, heard, network, server, served>>

-----------------------------------------------------------------------------
\* The parent's menu.

\* One of the two processes has the socket open; menu 4 closes the parent's.
Open(c) == parent[c] \in {"hostname", "menu"} \/ child[c] = "reading"

InUse == {address[c] : c \in Clients}

\* sendto: the first one binds the socket.
Bind(c) ==
  \/ address[c] # NoAddress /\ UNCHANGED address
  \/ address[c] = NoAddress /\ \E a \in Addresses \ InUse : address' = [address EXCEPT ![c] = a]

\* Menu 1, 2 and 3; a resource that is not on the menu goes back to it.
Ask(c) ==
  /\ parent[c] = "menu"
  /\ Bind(c)
  /\ up' = up \cup {address'[c]}
  /\ UNCHANGED <<processes, heard, down, twice, server, served>>

\* The last process lets the socket go.
LetGo(c) ==
  IF Open(c)' THEN UNCHANGED <<address, served>>
  ELSE address' = [address EXCEPT ![c] = NoAddress] /\ served' = served \ {c}

\* Mutant of Exit: the child is left to itself, as it is at the end of the input.
ExitAlone(c) ==
  /\ parent[c] = "menu"
  /\ parent' = [parent EXCEPT ![c] = "left"]
  /\ UNCHANGED <<child, signalled, heard, network, server>>
  /\ LetGo(c)

\* Menu 4 signals the child and closes the parent's socket.
Exit(c) ==
  /\ parent[c] = "menu"
  /\ parent' = [parent EXCEPT ![c] = "left"]
  /\ signalled' = [signalled EXCEPT ![c] = TRUE]
  /\ UNCHANGED <<child, heard, network, server>>
  /\ LetGo(c)

\* main returns after menu 4; or at the end of the input, or at an amount that is
\* not a number, and then tells the child nothing.
Return(c) ==
  /\ parent[c] \in {"left", "menu"}
  /\ parent' = [parent EXCEPT ![c] = "ended"]
  /\ UNCHANGED <<child, signalled, heard, network, server>>
  /\ LetGo(c)

\* SIGINT from the terminal reaches both.
Interrupt(c) ==
  /\ parent[c] \in {"hostname", "menu", "left"}
  /\ parent' = [parent EXCEPT ![c] = "ended"]
  /\ signalled' = [signalled EXCEPT ![c] = child[c] = "reading"]
  /\ UNCHANGED <<child, heard, network, server>>
  /\ LetGo(c)

-----------------------------------------------------------------------------
\* The child.

\* handle_sigint.
HandleSigint(c) ==
  /\ signalled[c]
  /\ child' = [child EXCEPT ![c] = "ended"]
  /\ signalled' = [signalled EXCEPT ![c] = FALSE]
  /\ UNCHANGED <<parent, heard, network, server>>
  /\ LetGo(c)

\* receive_and_handle_json: whatever comes is printed.
Receive(c) ==
  /\ child[c] = "reading" /\ address[c] # NoAddress
  /\ \E d \in down :
       /\ d.to = address[c]
       /\ \/ down' = down \ {d} /\ UNCHANGED twice
          \/ ~twice /\ twice' = TRUE /\ UNCHANGED down
       /\ heard' = [heard EXCEPT ![c] = Append(@, d.n)]
  /\ UNCHANGED <<processes, address, up, server, served>>

-----------------------------------------------------------------------------
\* The server.

\* Mutants of udpClientExists: no address is ever found; the port is forgotten.
NeverExists(a) == FALSE
HostExists(a) == \E i \in DOMAIN udpClients : udpClients[i].host = a.host

\* The host is compared where an IPv4 address has it, which in the IPv6 one that
\* the server's socket gives is always 0.
udpClientExists(a) == \E i \in DOMAIN udpClients : udpClients[i].port = a.port

\* Mutant of HasRoom: one place too many.
HasRoomForOneMore == Len(udpClients) <= MAX_UDP_CONNECTIONS

HasRoom == Len(udpClients) < MAX_UDP_CONNECTIONS

addUdpClient(a) ==
  udpClients' = IF ~udpClientExists(a) /\ HasRoom THEN Append(udpClients, a) ELSE udpClients

\* Whoever asks is listed, whatever is asked, and before it is looked at.
checkUdpClientsMsgs ==
  \E a \in up :
    /\ addUdpClient(a)
    /\ served' = served \cup {c \in Clients : address[c] = a}
    /\ UNCHANGED <<processes, address, heard, network, alerts>>

\* One datagram for each place of the list.
sendToAllUdpClients ==
  /\ alerts < MaxAlerts
  /\ alerts' = alerts + 1
  /\ down' = down \cup {[n |-> alerts, place |-> i, to |-> udpClients[i]] : i \in DOMAIN udpClients}
  /\ UNCHANGED <<processes, address, heard, up, twice, udpClients, served>>

-----------------------------------------------------------------------------
Init ==
  /\ parent = [c \in Clients |-> "ended"]
  /\ child = [c \in Clients |-> "ended"]
  /\ address = [c \in Clients |-> NoAddress]
  /\ signalled = [c \in Clients |-> FALSE]
  /\ heard = [c \in Clients |-> <<>>]
  /\ up = {} /\ down = {} /\ twice = FALSE
  /\ udpClients = <<>> /\ alerts = 0 /\ served = {}

Next ==
  \/ \E c \in Clients : \/ Start(c) \/ GetHostname(c) \/ Ask(c) \/ Exit(c) \/ Return(c)
                        \/ Interrupt(c) \/ HandleSigint(c) \/ Receive(c)
  \/ checkUdpClientsMsgs \/ sendToAllUdpClients

Spec == Init /\ [][Next]_vars

\* A signal that is pending is handled, and main returns after menu 4.
FairSpec ==
  Spec /\ \A c \in Clients : /\ WF_vars(HandleSigint(c))
                             /\ WF_vars(parent[c] = "left" /\ Return(c))

-----------------------------------------------------------------------------
\* Every variable has its type, and the list has no more places than it may.
TypeOK ==
  /\ parent \in [Clients -> {"hostname", "menu", "left", "ended"}]
  /\ child \in [Clients -> {"reading", "ended"}]
  /\ address \in [Clients -> Addresses \cup {NoAddress}]
  /\ signalled \in [Clients -> BOOLEAN]
  /\ heard \in [Clients -> Seq(Nat)]
  /\ up \in SUBSET Addresses
  /\ down \in SUBSET [n : Nat, place : Nat, to : Addresses]
  /\ twice \in BOOLEAN
  /\ udpClients \in Seq(Addresses)
  /\ Len(udpClients) <= MAX_UDP_CONNECTIONS
  /\ alerts \in 0..MaxAlerts
  /\ served \in SUBSET Clients

\* No client hears an alert twice, unless the network copies it:
\* however often it speaks, and whoever had its port before, it has one place on
\* the list (server.cpp 750-786, 817-824).
AlertsHeardOnce ==
  ~twice => \A c \in Clients : \A i, j \in DOMAIN heard[c] :
              heard[c][i] = heard[c][j] => i = j

\* A client that the server has heard from, and whose socket is still open, is
\* sent the alerts, unless the list is full or another host was there first with
\* the same port (server.cpp 750-786).  server.hpp 443 and 482 promise it of those
\* two as well: BroadcastsGoToAll of EventLoop is about them.
HeardAreListed ==
  \A c \in served :
    \/ \E i \in DOMAIN udpClients :
         \/ udpClients[i] = address[c]
         \/ udpClients[i].port = address[c].port /\ udpClients[i].host # address[c].host
    \/ Len(udpClients) = MAX_UDP_CONNECTIONS

\* Menu 4 ends both processes and frees the address, though the child waits in
\* recvfrom on a socket of its own (udp_client.c 475-484, 275-279).
ExitLetsGo == \A c \in Clients : parent[c] = "left" ~> address[c] = NoAddress
=============================================================================
