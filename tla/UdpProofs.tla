------------------------------ MODULE UdpProofs ------------------------------
(***************************************************************************)
(* The list of UDP clients, for any number of clients, addresses, places   *)
(* and alerts.  Two invariants carry the proofs: whom the server has heard *)
(* from has an address (ServedInv), and an alert is on its way to a client *)
(* at most once and not after it was heard (AlertInv), which needs that    *)
(* no two places of the list have one port and that a socket keeps its     *)
(* address until it is let go.                                             *)
(***************************************************************************)
EXTENDS UdpSession, SequenceTheorems, TLAPS

\* A client that was heard from has the socket it spoke with.
ServedInv == \A c \in served : address[c] # NoAddress

\* No two places have the same port.
PortsDiffer ==
  \A i, j \in DOMAIN udpClients : udpClients[i].port = udpClients[j].port => i = j

\* Who has not sent yet has not heard.
SilentAreDeaf ==
  \A c \in Clients : address[c] = NoAddress /\ Open(c) => heard[c] = <<>>

\* What is heard or on its way was broadcast.
AlertsAreOld ==
  /\ \A d \in down : d.n < alerts
  /\ \A c \in Clients : \A i \in DOMAIN heard[c] : heard[c][i] < alerts

\* An alert goes to an address once, and not to one that has heard it.
OneEach ==
  ~twice =>
    /\ \A d, e \in down : d.n = e.n /\ d.to = e.to => d = e
    /\ \A d \in down, c \in Clients :
         address[c] = d.to => \A i \in DOMAIN heard[c] : heard[c][i] # d.n

ListInv == TypeOK /\ ServedInv /\ HeardAreListed
AlertInv == PortsDiffer /\ SilentAreDeaf /\ AlertsAreOld /\ OneEach /\ AlertsHeardOnce

-----------------------------------------------------------------------------
\* Types, and the room on the list.

LEMMA InitTypeOK == Init => TypeOK
<1>1. <<>> \in Seq(Nat) /\ <<>> \in Seq(Addresses) /\ Len(<<>>) = 0
  OBVIOUS
<1>2. 0 \in 0..MaxAlerts /\ 0 <= MAX_UDP_CONNECTIONS
  BY BoundsAssumption
<1>3. Init => heard \in [Clients -> Seq(Nat)]
  BY <1>1 DEF Init
<1>4. Init => udpClients \in Seq(Addresses) /\ Len(udpClients) <= MAX_UDP_CONNECTIONS
  BY <1>1, <1>2 DEF Init
<1> QED
  BY <1>2, <1>3, <1>4 DEF Init, TypeOK

\* What LetGo does, whoever called it.
LEMMA LetGoType ==
  ASSUME TypeOK, NEW c \in Clients, LetGo(c)
  PROVE  /\ address' \in [Clients -> Addresses \cup {NoAddress}]
         /\ served' \in SUBSET Clients
  BY DEF LetGo, TypeOK

\* A step of a client.
LEMMA ClientType ==
  ASSUME TypeOK, NEW c \in Clients,
         \/ Start(c) \/ GetHostname(c) \/ Ask(c) \/ Exit(c) \/ Return(c)
         \/ Interrupt(c) \/ HandleSigint(c)
  PROVE  TypeOK'
<1>1. CASE Start(c)
  <2>1. heard' \in [Clients -> Seq(Nat)]
    <3>1. <<>> \in Seq(Nat)
      OBVIOUS
    <3> QED
      BY <1>1, <3>1 DEF Start, TypeOK
  <2> QED
    BY <1>1, <2>1 DEF Start, TypeOK, network, server
<1>2. CASE GetHostname(c)
  BY <1>2 DEF GetHostname, TypeOK, network, server
<1>3. CASE Ask(c)
  <2>1. address' \in [Clients -> Addresses \cup {NoAddress}] /\ address'[c] \in Addresses
    BY <1>3 DEF Ask, Bind, TypeOK
  <2> QED
    BY <1>3, <2>1 DEF Ask, TypeOK, processes, server
<1>4. CASE Exit(c)
  BY <1>4, LetGoType DEF Exit, TypeOK, network, server
<1>5. CASE Return(c)
  BY <1>5, LetGoType DEF Return, TypeOK, network, server
<1>6. CASE Interrupt(c)
  <2>1. signalled' \in [Clients -> BOOLEAN]
    BY <1>6 DEF Interrupt, TypeOK
  <2> QED
    BY <1>6, <2>1, LetGoType DEF Interrupt, TypeOK, network, server
<1>7. CASE HandleSigint(c)
  BY <1>7, LetGoType DEF HandleSigint, TypeOK, network, server
<1> QED
  BY <1>1, <1>2, <1>3, <1>4, <1>5, <1>6, <1>7

LEMMA ReceiveType == ASSUME TypeOK, NEW c \in Clients, Receive(c) PROVE TypeOK'
<1>1. PICK d \in down :
        /\ \/ down' = down \ {d} /\ UNCHANGED twice
           \/ ~twice /\ twice' = TRUE /\ UNCHANGED down
        /\ heard' = [heard EXCEPT ![c] = Append(@, d.n)]
  BY DEF Receive
<1>2. Append(heard[c], d.n) \in Seq(Nat)
  BY <1>1 DEF TypeOK
<1>3. heard' \in [Clients -> Seq(Nat)]
  BY <1>1, <1>2 DEF TypeOK
<1>4. down' \in SUBSET [n : Nat, place : Nat, to : Addresses] /\ twice' \in BOOLEAN
  BY <1>1 DEF TypeOK
<1> QED
  BY <1>3, <1>4 DEF Receive, TypeOK, processes, server

\* What addUdpClient does to the list.
LEMMA AddIsSound ==
  ASSUME TypeOK, NEW a \in Addresses, addUdpClient(a)
  PROVE  /\ udpClients' \in Seq(Addresses)
         /\ Len(udpClients') <= MAX_UDP_CONNECTIONS
         /\ \A i \in DOMAIN udpClients : i \in DOMAIN udpClients' /\ udpClients'[i] = udpClients[i]
         /\ \/ \E i \in DOMAIN udpClients' : udpClients'[i].port = a.port
            \/ Len(udpClients') = MAX_UDP_CONNECTIONS
         /\ \/ udpClients' = udpClients
            \/ udpClients' = Append(udpClients, a) /\ ~udpClientExists(a)
<1>1. udpClients \in Seq(Addresses) /\ Len(udpClients) \in Nat
      /\ Len(udpClients) <= MAX_UDP_CONNECTIONS /\ MAX_UDP_CONNECTIONS \in Nat
  BY BoundsAssumption DEF TypeOK
<1>2. CASE ~udpClientExists(a) /\ HasRoom
  <2>1. udpClients' = Append(udpClients, a)
    BY <1>2 DEF addUdpClient
  <2>2. /\ udpClients' \in Seq(Addresses)
        /\ Len(udpClients') = Len(udpClients) + 1
        /\ DOMAIN udpClients = 1..Len(udpClients)
        /\ DOMAIN udpClients' = 1..(Len(udpClients) + 1)
        /\ \A i \in 1..Len(udpClients) : udpClients'[i] = udpClients[i]
        /\ udpClients'[Len(udpClients) + 1] = a
    BY <2>1, <1>1
  <2>3. Len(udpClients') <= MAX_UDP_CONNECTIONS
    BY <2>2, <1>2, <1>1 DEF HasRoom
  <2>4. \E i \in DOMAIN udpClients' : udpClients'[i].port = a.port
    <3>1. Len(udpClients) + 1 \in DOMAIN udpClients'
      BY <2>2, <1>1
    <3> QED
      BY <3>1, <2>2
  <2>5. \A i \in DOMAIN udpClients : i \in DOMAIN udpClients' /\ udpClients'[i] = udpClients[i]
    BY <2>2, <1>1
  <2> QED
    BY <2>1, <2>2, <2>3, <2>4, <2>5, <1>2
<1>3. CASE ~(~udpClientExists(a) /\ HasRoom)
  <2>1. udpClients' = udpClients
    BY <1>3 DEF addUdpClient
  <2>2. udpClientExists(a) \/ Len(udpClients) = MAX_UDP_CONNECTIONS
    BY <1>3, <1>1 DEF HasRoom
  <2> QED
    BY <2>1, <2>2, <1>1 DEF udpClientExists
<1> QED
  BY <1>2, <1>3

LEMMA ServerType ==
  ASSUME TypeOK, checkUdpClientsMsgs \/ sendToAllUdpClients PROVE TypeOK'
<1>1. CASE checkUdpClientsMsgs
  <2>1. PICK a \in up : addUdpClient(a) /\ served' = served \cup {c \in Clients : address[c] = a}
    BY <1>1 DEF checkUdpClientsMsgs
  <2>2. a \in Addresses
    BY DEF TypeOK
  <2>3. udpClients' \in Seq(Addresses) /\ Len(udpClients') <= MAX_UDP_CONNECTIONS
    BY <2>1, <2>2, AddIsSound
  <2>4. served' \in SUBSET Clients
    BY <2>1 DEF TypeOK
  <2> QED
    BY <1>1, <2>3, <2>4 DEF checkUdpClientsMsgs, TypeOK, processes, network
<1>2. CASE sendToAllUdpClients
  <2>1. alerts' \in 0..MaxAlerts
    BY <1>2, BoundsAssumption DEF sendToAllUdpClients, TypeOK
  <2>2. down' \in SUBSET [n : Nat, place : Nat, to : Addresses]
    <3>1. /\ DOMAIN udpClients \subseteq Nat
          /\ \A i \in DOMAIN udpClients : udpClients[i] \in Addresses
      BY DEF TypeOK
    <3>2. alerts \in Nat
      BY BoundsAssumption DEF TypeOK
    <3> QED
      BY <1>2, <3>1, <3>2 DEF sendToAllUdpClients, TypeOK
  <2> QED
    BY <1>2, <2>1, <2>2 DEF sendToAllUdpClients, TypeOK, processes
<1> QED
  BY <1>1, <1>2

LEMMA NextType == ASSUME TypeOK, [Next]_vars PROVE TypeOK'
<1>1. CASE \E c \in Clients : \/ Start(c) \/ GetHostname(c) \/ Ask(c) \/ Exit(c) \/ Return(c)
                              \/ Interrupt(c) \/ HandleSigint(c) \/ Receive(c)
  BY <1>1, ClientType, ReceiveType
<1>2. CASE checkUdpClientsMsgs \/ sendToAllUdpClients
  BY <1>2, ServerType
<1>3. CASE UNCHANGED vars
  BY <1>3 DEF vars, processes, network, server, TypeOK
<1> QED
  BY <1>1, <1>2, <1>3 DEF Next

\* Every variable keeps its type and the list of UDP clients its bound
\* (server.cpp 750-771).
THEOREM TypeCorrect == Spec => []TypeOK
  BY InitTypeOK, NextType, PTL DEF Spec

-----------------------------------------------------------------------------
\* Who was heard is listed.

LEMMA InitListed == Init => ServedInv /\ HeardAreListed
  BY DEF Init, ServedInv, HeardAreListed

\* A client that lets go is no longer owed anything; the others are where they were.
LEMMA LetGoListed ==
  ASSUME TypeOK, ServedInv, HeardAreListed, NEW c \in Clients, LetGo(c), UNCHANGED udpClients
  PROVE  ServedInv' /\ HeardAreListed'
<1>1. /\ served' \subseteq served
      /\ \A d \in served' : address'[d] = address[d]
  BY DEF LetGo, TypeOK
<1> QED
  BY <1>1 DEF ServedInv, HeardAreListed

LEMMA ClientListed ==
  ASSUME TypeOK, ServedInv, HeardAreListed, NEW c \in Clients,
         \/ Start(c) \/ GetHostname(c) \/ Ask(c) \/ Exit(c) \/ Return(c)
         \/ Interrupt(c) \/ HandleSigint(c) \/ Receive(c)
  PROVE  ServedInv' /\ HeardAreListed'
<1>1. CASE Start(c) \/ GetHostname(c) \/ Receive(c)
  <2>1. UNCHANGED <<address, served, udpClients>>
    BY <1>1 DEF Start, GetHostname, Receive, server
  <2> QED
    BY <2>1 DEF ServedInv, HeardAreListed
<1>2. CASE Ask(c)
  <2>1. UNCHANGED <<served, udpClients>> /\ \A d \in served : address'[d] = address[d]
    BY <1>2 DEF Ask, Bind, server, ServedInv, TypeOK
  <2> QED
    BY <2>1 DEF ServedInv, HeardAreListed
<1>3. CASE Exit(c) \/ Return(c) \/ Interrupt(c) \/ HandleSigint(c)
  <2>1. LetGo(c) /\ UNCHANGED udpClients
    BY <1>3 DEF Exit, Return, Interrupt, HandleSigint, server
  <2> QED
    BY <2>1, LetGoListed
<1> QED
  BY <1>1, <1>2, <1>3

LEMMA ServerListed ==
  ASSUME TypeOK, ServedInv, HeardAreListed, checkUdpClientsMsgs \/ sendToAllUdpClients
  PROVE  ServedInv' /\ HeardAreListed'
<1>1. CASE checkUdpClientsMsgs
  <2>1. PICK a \in up : addUdpClient(a) /\ served' = served \cup {c \in Clients : address[c] = a}
    BY <1>1 DEF checkUdpClientsMsgs
  <2>2. a \in Addresses /\ a # NoAddress /\ UNCHANGED address
    BY <1>1, AddressAssumption DEF TypeOK, checkUdpClientsMsgs
  <2>3. /\ \A i \in DOMAIN udpClients : i \in DOMAIN udpClients' /\ udpClients'[i] = udpClients[i]
        /\ \/ \E i \in DOMAIN udpClients' : udpClients'[i].port = a.port
           \/ Len(udpClients') = MAX_UDP_CONNECTIONS
        /\ udpClients' = udpClients \/ udpClients' = Append(udpClients, a)
        /\ udpClients' \in Seq(Addresses)
        /\ Len(udpClients') <= MAX_UDP_CONNECTIONS
    BY <2>1, <2>2, AddIsSound
  <2>4. ServedInv'
    BY <2>1, <2>2 DEF ServedInv
  <2>5. ASSUME NEW c \in served'
        PROVE  \/ \E i \in DOMAIN udpClients' :
                    \/ udpClients'[i] = address'[c]
                    \/ /\ udpClients'[i].port = address'[c].port
                       /\ udpClients'[i].host # address'[c].host
               \/ Len(udpClients') = MAX_UDP_CONNECTIONS
    <3>1. CASE address[c] = a
      <4>1. CASE \E i \in DOMAIN udpClients' : udpClients'[i].port = a.port
        <5>1. PICK i \in DOMAIN udpClients' : udpClients'[i].port = a.port
          BY <4>1
        <5>2. udpClients'[i] \in Addresses
          BY <2>3
        <5>3. udpClients'[i].host = a.host => udpClients'[i] = a
          BY <5>1, <5>2, <2>2, AddressAssumption
        <5> QED
          BY <5>1, <5>3, <3>1, <2>2
      <4> QED
        BY <4>1, <2>3
    <3>2. CASE c \in served
      <4>1. CASE Len(udpClients) = MAX_UDP_CONNECTIONS
        <5>1. Len(udpClients') = MAX_UDP_CONNECTIONS
          <6>1. CASE udpClients' = udpClients
            BY <6>1, <4>1
          <6>2. CASE udpClients' = Append(udpClients, a)
            <7>1. Len(udpClients') = Len(udpClients) + 1 /\ Len(udpClients) \in Nat
              BY <6>2, <2>2 DEF TypeOK
            <7> QED
              BY <7>1, <2>3, <4>1
          <6> QED
            BY <6>1, <6>2, <2>3
        <5> QED
          BY <5>1
      <4>2. CASE Len(udpClients) # MAX_UDP_CONNECTIONS
        BY <3>2, <4>2, <2>2, <2>3 DEF HeardAreListed
      <4> QED
        BY <4>1, <4>2
    <3> QED
      BY <3>1, <3>2, <2>1
  <2> QED
    BY <2>4, <2>5 DEF HeardAreListed
<1>2. CASE sendToAllUdpClients
  BY <1>2 DEF sendToAllUdpClients, ServedInv, HeardAreListed
<1> QED
  BY <1>1, <1>2

\* ListInv: what every step preserves.
THEOREM ListInvariant == Spec => []ListInv
<1>1. Init => ListInv
  BY InitTypeOK, InitListed DEF ListInv
<1>2. ASSUME ListInv, [Next]_vars PROVE ListInv'
  <2>1. TypeOK'
    BY <1>2, NextType DEF ListInv
  <2>2. CASE UNCHANGED vars
    BY <1>2, <2>1, <2>2 DEF vars, server, ListInv, ServedInv, HeardAreListed
  <2>3. CASE Next
    BY <1>2, <2>1, <2>3, ClientListed, ServerListed DEF Next, ListInv
  <2> QED
    BY <1>2, <2>2, <2>3
<1> QED
  BY <1>1, <1>2, PTL DEF Spec

\* Whoever the server has heard from is sent the alerts, unless the list is full
\* or its port is another host's (server.cpp 750-786).
THEOREM HeardIsListed == Spec => []HeardAreListed
<1>1. ListInv => HeardAreListed
  BY DEF ListInv
<1> QED
  BY <1>1, ListInvariant, PTL

-----------------------------------------------------------------------------
\* An alert is heard once.

LEMMA InitHeard == Init => AlertInv
  BY DEF Init, AlertInv, PortsDiffer, SilentAreDeaf, AlertsAreOld, OneEach, AlertsHeardOnce

\* A client that lets go keeps what it heard, and nobody takes its address here.
LEMMA LetGoHeard ==
  ASSUME TypeOK, AlertInv, NEW c \in Clients, LetGo(c),
         UNCHANGED <<heard, down, twice, udpClients, alerts>>,
         \A d \in Clients : d # c => parent'[d] = parent[d] /\ child'[d] = child[d],
         Open(c)' => Open(c)
  PROVE  AlertInv'
<1>1. \A d \in Clients : address'[d] = address[d] \/ (d = c /\ address'[d] = NoAddress /\ ~Open(d)')
  BY DEF LetGo, TypeOK
<1>2. \A d \in Clients : Open(d)' => Open(d)
  BY DEF Open
<1>3. SilentAreDeaf'
  BY <1>1, <1>2 DEF AlertInv, SilentAreDeaf
<1>4. \A d \in down : d.to # NoAddress
  BY AddressAssumption DEF TypeOK
<1>5. OneEach'
  BY <1>1, <1>4 DEF AlertInv, OneEach
<1> QED
  BY <1>3, <1>5 DEF AlertInv, PortsDiffer, AlertsAreOld, AlertsHeardOnce

LEMMA ClientHeard ==
  ASSUME TypeOK, AlertInv, NEW c \in Clients,
         \/ Start(c) \/ GetHostname(c) \/ Ask(c) \/ Exit(c) \/ Return(c)
         \/ Interrupt(c) \/ HandleSigint(c)
  PROVE  AlertInv'
<1>1. CASE Start(c)
  <2>1. /\ UNCHANGED <<address, down, twice, udpClients, alerts>>
        /\ \A d \in Clients : IF d = c THEN heard'[d] = <<>>
                              ELSE /\ heard'[d] = heard[d]
                                   /\ parent'[d] = parent[d] /\ child'[d] = child[d]
    BY <1>1 DEF Start, TypeOK, network, server
  <2>2. SilentAreDeaf'
    BY <2>1 DEF AlertInv, SilentAreDeaf, Open
  <2>3. AlertsAreOld'
    BY <2>1 DEF AlertInv, AlertsAreOld
  <2>4. OneEach'
    BY <2>1 DEF AlertInv, OneEach
  <2>5. AlertsHeardOnce'
    BY <2>1 DEF AlertInv, AlertsHeardOnce
  <2> QED
    BY <2>1, <2>2, <2>3, <2>4, <2>5 DEF AlertInv, PortsDiffer
<1>2. CASE GetHostname(c)
  <2>1. /\ UNCHANGED <<address, heard, down, twice, udpClients, alerts>>
        /\ \A d \in Clients : Open(d)' => Open(d)
    BY <1>2 DEF GetHostname, TypeOK, network, server, Open
  <2> QED
    BY <2>1 DEF AlertInv, PortsDiffer, SilentAreDeaf, AlertsAreOld, OneEach, AlertsHeardOnce
<1>3. CASE Ask(c)
  <2>1. /\ UNCHANGED <<heard, down, twice, udpClients, alerts, parent, child>>
        /\ Open(c)
        /\ \A d \in Clients : address'[d] = address[d] \/ (d = c /\ address[d] = NoAddress)
    BY <1>3 DEF Ask, Bind, TypeOK, processes, server, Open
  <2>2. address[c] # NoAddress \/ heard[c] = <<>>
    BY <2>1 DEF AlertInv, SilentAreDeaf
  <2>3. SilentAreDeaf'
    BY <2>1, <2>2 DEF AlertInv, SilentAreDeaf, Open
  <2>4. OneEach'
    BY <2>1, <2>2 DEF AlertInv, OneEach
  <2> QED
    BY <2>1, <2>3, <2>4 DEF AlertInv, PortsDiffer, AlertsAreOld, AlertsHeardOnce
<1>4. CASE Exit(c) \/ Return(c) \/ Interrupt(c) \/ HandleSigint(c)
  <2>1. /\ LetGo(c)
        /\ UNCHANGED <<heard, down, twice, udpClients, alerts>>
        /\ \A d \in Clients : d # c => parent'[d] = parent[d] /\ child'[d] = child[d]
        /\ Open(c)' => Open(c)
    BY <1>4 DEF Exit, Return, Interrupt, HandleSigint, TypeOK, network, server, Open
  <2> QED
    BY <2>1, LetGoHeard
<1> QED
  BY <1>1, <1>2, <1>3, <1>4

\* What is heard leaves the network, unless it was copied.
LEMMA ReceiveHeard == ASSUME TypeOK, AlertInv, NEW c \in Clients, Receive(c) PROVE AlertInv'
<1>1. PICK d \in down :
        /\ d.to = address[c]
        /\ \/ down' = down \ {d} /\ UNCHANGED twice
           \/ ~twice /\ twice' = TRUE /\ UNCHANGED down
        /\ heard' = [heard EXCEPT ![c] = Append(@, d.n)]
  BY DEF Receive
<1>2. /\ UNCHANGED <<parent, child, address, udpClients, alerts>>
      /\ address[c] # NoAddress
      /\ down' \subseteq down
  BY <1>1 DEF Receive, processes, server
<1>3. /\ heard[c] \in Seq(Nat) /\ d.n \in Nat /\ heard'[c] = Append(heard[c], d.n)
      /\ \A e \in Clients \ {c} : heard'[e] = heard[e]
  BY <1>1 DEF TypeOK
<1>4. /\ DOMAIN heard'[c] = 1..(Len(heard[c]) + 1)
      /\ DOMAIN heard[c] = 1..Len(heard[c])
      /\ Len(heard[c]) \in Nat
      /\ \A i \in 1..Len(heard[c]) : heard'[c][i] = heard[c][i]
      /\ heard'[c][Len(heard[c]) + 1] = d.n
  BY <1>3
<1>5. \A i \in DOMAIN heard'[c] : i \in DOMAIN heard[c] \/ i = Len(heard[c]) + 1
  BY <1>4
<1>6. SilentAreDeaf'
  BY <1>2, <1>3 DEF AlertInv, SilentAreDeaf, Open
<1>7. AlertsAreOld'
  BY <1>2, <1>3, <1>4, <1>5 DEF AlertInv, AlertsAreOld
<1>8. ASSUME ~twice' PROVE ~twice /\ down' = down \ {d}
  BY <1>1, <1>8
<1>9. OneEach'
  <2>1. SUFFICES ASSUME ~twice'
                 PROVE  /\ \A e, f \in down' : e.n = f.n /\ e.to = f.to => e = f
                        /\ \A e \in down', k \in Clients :
                             address'[k] = e.to => \A i \in DOMAIN heard'[k] : heard'[k][i] # e.n
    BY DEF OneEach
  <2>2. \A e, f \in down : e.n = f.n /\ e.to = f.to => e = f
    BY <1>8, <2>1 DEF AlertInv, OneEach
  <2>3. ASSUME NEW e \in down', NEW k \in Clients, address'[k] = e.to, NEW i \in DOMAIN heard'[k]
        PROVE  heard'[k][i] # e.n
    <3>1. e \in down /\ e # d /\ address[k] = e.to
      BY <1>2, <1>8, <2>1, <2>3
    <3>2. \A j \in DOMAIN heard[k] : heard[k][j] # e.n
      BY <1>8, <2>1, <3>1 DEF AlertInv, OneEach
    <3>3. CASE k # c
      BY <1>3, <2>3, <3>2, <3>3
    <3>4. CASE k = c
      <4>1. e.n # d.n
        BY <1>1, <2>2, <3>1, <3>4
      <4> QED
        BY <1>4, <1>5, <2>3, <3>2, <3>4, <4>1
    <3> QED
      BY <3>3, <3>4
  <2> QED
    BY <1>2, <2>2, <2>3
<1>10. AlertsHeardOnce'
  <2>1. SUFFICES ASSUME ~twice', NEW k \in Clients, NEW i \in DOMAIN heard'[k],
                        NEW j \in DOMAIN heard'[k], heard'[k][i] = heard'[k][j]
                 PROVE  i = j
    BY DEF AlertsHeardOnce
  <2>2. /\ \A m, n \in DOMAIN heard[k] : heard[k][m] = heard[k][n] => m = n
        /\ \A m \in DOMAIN heard[c] : heard[c][m] # d.n
    BY <1>1, <1>8, <2>1 DEF AlertInv, AlertsHeardOnce, OneEach
  <2>3. CASE k # c
    BY <1>3, <2>1, <2>2, <2>3
  <2>4. CASE k = c
    BY <1>4, <1>5, <2>1, <2>2, <2>4
  <2> QED
    BY <2>3, <2>4
<1> QED
  BY <1>2, <1>6, <1>7, <1>9, <1>10 DEF AlertInv, PortsDiffer

\* A new place has a new port, and a broadcast one datagram for each place.
LEMMA ServerHeard ==
  ASSUME TypeOK, AlertInv, checkUdpClientsMsgs \/ sendToAllUdpClients
  PROVE  AlertInv'
<1>1. CASE checkUdpClientsMsgs
  <2>1. PICK a \in up : addUdpClient(a)
    BY <1>1 DEF checkUdpClientsMsgs
  <2>2. a \in Addresses /\ UNCHANGED <<parent, child, address, heard, down, twice, alerts>>
    BY <1>1 DEF TypeOK, checkUdpClientsMsgs, processes, network
  <2>3. PortsDiffer'
    <3>1. CASE udpClients' = udpClients
      BY <3>1 DEF AlertInv, PortsDiffer
    <3>2. CASE udpClients' = Append(udpClients, a) /\ ~udpClientExists(a)
      <4>1. /\ DOMAIN udpClients' = 1..(Len(udpClients) + 1)
            /\ DOMAIN udpClients = 1..Len(udpClients)
            /\ Len(udpClients) \in Nat
            /\ \A i \in 1..Len(udpClients) : udpClients'[i] = udpClients[i]
            /\ udpClients'[Len(udpClients) + 1] = a
        BY <2>2, <3>2 DEF TypeOK
      <4>2. \A i \in DOMAIN udpClients : udpClients[i].port # a.port
        BY <3>2 DEF udpClientExists
      <4>3. \A i \in DOMAIN udpClients' : i \in DOMAIN udpClients \/ i = Len(udpClients) + 1
        BY <4>1
      <4> QED
        BY <4>1, <4>2, <4>3 DEF AlertInv, PortsDiffer
    <3> QED
      BY <2>1, <2>2, <3>1, <3>2, AddIsSound
  <2> QED
    BY <2>2, <2>3
       DEF AlertInv, SilentAreDeaf, AlertsAreOld, OneEach, AlertsHeardOnce, Open
<1>2. CASE sendToAllUdpClients
  <2>1. /\ UNCHANGED <<parent, child, address, heard, twice, udpClients>>
        /\ alerts \in Nat /\ alerts' = alerts + 1
        /\ down' = down \cup {[n |-> alerts, place |-> i, to |-> udpClients[i]] :
                               i \in DOMAIN udpClients}
    BY <1>2, BoundsAssumption DEF sendToAllUdpClients, processes, TypeOK
  <2>2. ASSUME NEW e \in down', e \notin down
        PROVE  /\ e.n = alerts
               /\ \E i \in DOMAIN udpClients :
                    e = [n |-> alerts, place |-> i, to |-> udpClients[i]]
    BY <2>1, <2>2
  <2>3. /\ \A e \in down : e.n \in Nat /\ e.n < alerts
        /\ \A k \in Clients : \A i \in DOMAIN heard[k] : heard[k][i] \in Nat /\ heard[k][i] < alerts
    BY DEF AlertInv, AlertsAreOld, TypeOK
  <2>4. AlertsAreOld'
    <3>1. \A e \in down' : e.n < alerts + 1
      BY <2>1, <2>2, <2>3
    <3>2. \A k \in Clients : \A i \in DOMAIN heard[k] : heard[k][i] < alerts + 1
      BY <2>1, <2>3
    <3> QED
      BY <2>1, <3>1, <3>2 DEF AlertsAreOld
  <2>5. OneEach'
    <3>1. SUFFICES ASSUME ~twice
                   PROVE  /\ \A e, f \in down' : e.n = f.n /\ e.to = f.to => e = f
                          /\ \A e \in down', k \in Clients :
                               address[k] = e.to => \A i \in DOMAIN heard[k] : heard[k][i] # e.n
      BY <2>1 DEF OneEach
    <3>2. ASSUME NEW e \in down', NEW f \in down', e.n = f.n, e.to = f.to PROVE e = f
      <4>1. CASE e \in down /\ f \in down
        BY <3>1, <3>2, <4>1 DEF AlertInv, OneEach
      <4>2. CASE e \in down /\ f \notin down
        BY <2>1, <2>2, <2>3, <3>2, <4>2
      <4>3. CASE e \notin down /\ f \in down
        BY <2>1, <2>2, <2>3, <3>2, <4>3
      <4>4. CASE e \notin down /\ f \notin down
        <5>1. PICK i \in DOMAIN udpClients : e = [n |-> alerts, place |-> i, to |-> udpClients[i]]
          BY <2>2, <4>4
        <5>2. PICK j \in DOMAIN udpClients : f = [n |-> alerts, place |-> j, to |-> udpClients[j]]
          BY <2>2, <4>4
        <5>3. i = j
          BY <3>2, <5>1, <5>2 DEF AlertInv, PortsDiffer
        <5> QED
          BY <5>1, <5>2, <5>3
      <4> QED
        BY <4>1, <4>2, <4>3, <4>4
    <3>3. ASSUME NEW e \in down', NEW k \in Clients, address[k] = e.to, NEW i \in DOMAIN heard[k]
          PROVE  heard[k][i] # e.n
      <4>1. CASE e \in down
        BY <3>1, <3>3, <4>1 DEF AlertInv, OneEach
      <4>2. CASE e \notin down
        BY <2>1, <2>2, <2>3, <3>3, <4>2
      <4> QED
        BY <4>1, <4>2
    <3> QED
      BY <3>2, <3>3
  <2> QED
    BY <2>1, <2>4, <2>5 DEF AlertInv, PortsDiffer, SilentAreDeaf, AlertsHeardOnce, Open
<1> QED
  BY <1>1, <1>2

\* No client hears an alert twice unless the network copies it: however often it
\* asks, and whoever had its address before (server.cpp 750-786, 817-824).
THEOREM AlertsAreHeardOnce == Spec => []AlertsHeardOnce
<1>1. ASSUME TypeOK, AlertInv, [Next]_vars PROVE AlertInv'
  <2>1. CASE \E c \in Clients : \/ Start(c) \/ GetHostname(c) \/ Ask(c) \/ Exit(c) \/ Return(c)
                                \/ Interrupt(c) \/ HandleSigint(c) \/ Receive(c)
    BY <1>1, <2>1, ClientHeard, ReceiveHeard
  <2>2. CASE checkUdpClientsMsgs \/ sendToAllUdpClients
    BY <1>1, <2>2, ServerHeard
  <2>3. CASE UNCHANGED vars
    BY <1>1, <2>3 DEF vars, processes, network, server, AlertInv, PortsDiffer, SilentAreDeaf,
                      AlertsAreOld, OneEach, AlertsHeardOnce, Open
  <2> QED
    BY <1>1, <2>1, <2>2, <2>3 DEF Next
<1>2. AlertInv => AlertsHeardOnce
  BY DEF AlertInv
<1> QED
  BY <1>1, <1>2, InitHeard, TypeCorrect, PTL DEF Spec
=============================================================================
