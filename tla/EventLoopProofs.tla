-------------------------- MODULE EventLoopProofs --------------------------
(***************************************************************************)
(* Proofs about EventLoop, for any number of clients, any limits of the    *)
(* lists and any requests.                                                 *)
(*                                                                         *)
(* The argument: a client waits in the backlog or sits behind one          *)
(* descriptor, never both and never twice, and a client that connects      *)
(* does neither.  So what a handler or a client changes is of its own      *)
(* connection alone, and the bits of the others stay true, also while a    *)
(* handler waits in a send.  A power failure is handled after the accepts  *)
(* of its pass and is the last pass, so that whoever is on the list has    *)
(* been told or is still to be sent to.                                    *)
(***************************************************************************)
EXTENDS EventLoop, FiniteSetTheorems, TLAPS

Connected == {"open", "fin", "reset"}

\* A client is connected once, and listed once.
ConnectedOnce ==
  /\ \A f, g \in DOMAIN peer : peer[f] = peer[g] => f = g
  /\ \A i, j \in DOMAIN backlog : backlog[i] = backlog[j] => i = j
  /\ \A i \in DOMAIN backlog : \A f \in DOMAIN peer : backlog[i] # peer[f]
  /\ \A i \in DOMAIN backlog : link[backlog[i]] \in Connected
  /\ \A f \in DOMAIN peer : link[peer[f]] \in Connected
  /\ \A i, j \in DOMAIN list : list[i] = list[j] => i = j

Listed == \A i \in DOMAIN list : list[i] \in served

Current == \A fd \in ready \cap ClientFds : fd \in served /\ Readable(fd)

InPass == pc = "pass" \/ Sending

\* What is still to be sent goes to open connections; a refused client has no
\* bit left; who is listed and not told yet is still to be sent "disconnect".
SendsSound ==
  Sending =>
    /\ \A i \in DOMAIN sends : sends[i] \in served
    /\ pc = "refusing" => sends[1] \notin ready
    /\ pc = "telling" =>
         /\ TcpSocket \notin ready
         /\ \A i \in DOMAIN list : \/ \E j \in DOMAIN sends : sends[j] = list[i]
                                  \/ peer[list[i]] \in told

\* After a power failure nothing is accepted, and who is listed was told.
OutageSettled ==
  outage = "done" =>
    /\ ~running
    /\ InPass \/ pc \in {"test", "ended", "killed"}
    /\ InPass => TcpSocket \notin ready
    /\ \A i \in DOMAIN list : peer[list[i]] \in told

IInv ==
  /\ TypeOK
  /\ Listed
  /\ served = DOMAIN peer
  /\ ConnectedOnce
  /\ InPass => Current
  /\ SendsSound
  /\ OutageSettled

-----------------------------------------------------------------------------
\* The descriptors of clients are numbers above those of the sockets.
LEMMA ClientFdsAreHigh ==
  /\ ClientFds \subseteq Int
  /\ \A fd \in ClientFds : fd >= 5
  /\ {TcpSocket, UdpSocket, UnixSocket, Fifo} \cap ClientFds = {}
<1>1. Cardinality(Clients) \in Nat
  BY ClientsAssumption, FS_CardinalityType
<1> QED BY <1>1 DEF ClientFds, FirstClientFd, TcpSocket, UdpSocket, UnixSocket, Fifo

\* Taking one place out of a sequence keeps the others, in order.
LEMMA RemoveAtKeeps ==
  ASSUME NEW S, NEW s \in Seq(S), NEW i \in DOMAIN s
  PROVE  /\ RemoveAt(s, i) \in Seq(S)
         /\ Len(RemoveAt(s, i)) = Len(s) - 1
         /\ \A j \in DOMAIN RemoveAt(s, i) :
              RemoveAt(s, i)[j] = IF j < i THEN s[j] ELSE s[j + 1]
<1> DEFINE before == SubSeq(s, 1, i - 1)
           after  == SubSeq(s, i + 1, Len(s))
<1>1. i \in 1..Len(s) /\ Len(s) \in Nat
  OBVIOUS
<1>2. /\ before \in Seq(S) /\ Len(before) = i - 1
      /\ \A j \in 1..(i - 1) : before[j] = s[j]
  BY <1>1
<1>3. /\ after \in Seq(S) /\ Len(after) = Len(s) - i
      /\ \A j \in 1..(Len(s) - i) : after[j] = s[i + j]
  BY <1>1
<1>4. RemoveAt(s, i) = before \o after
  BY DEF RemoveAt
<1> HIDE DEF before, after
<1>5. /\ before \o after \in Seq(S)
      /\ Len(before \o after) = Len(s) - 1
      /\ \A j \in 1..(Len(s) - 1) :
           (before \o after)[j] = IF j < i THEN before[j] ELSE after[j - (i - 1)]
  BY <1>1, <1>2, <1>3
<1>6. DOMAIN (before \o after) = 1..(Len(s) - 1)
  BY <1>5
<1>7. ASSUME NEW j \in 1..(Len(s) - 1)
      PROVE  (before \o after)[j] = IF j < i THEN s[j] ELSE s[j + 1]
  <2>1. CASE j < i
    BY <1>1, <1>2, <1>5, <2>1
  <2>2. CASE ~(j < i)
    <3>1. j - (i - 1) \in 1..(Len(s) - i)
      BY <1>1, <2>2
    <3>2. after[j - (i - 1)] = s[i + (j - (i - 1))]
      BY <1>3, <3>1
    <3>3. i + (j - (i - 1)) = j + 1
      BY <1>1
    <3> QED BY <1>5, <2>2, <3>2, <3>3
  <2> QED BY <2>1, <2>2
<1> QED BY <1>4, <1>5, <1>6, <1>7

\* A descriptor taken off the list is not on it, and all the others are.
LEMMA RemovalKeepsOthers ==
  ASSUME TypeOK, ConnectedOnce, NEW fd, remvTcpClient(fd)
  PROVE  /\ list' \in Seq(ClientFds) /\ Len(list') <= MAX_TCP_CONNECTIONS
         /\ \A i \in DOMAIN list' : list'[i] # fd /\ \E j \in DOMAIN list : list'[i] = list[j]
         /\ \A i, j \in DOMAIN list' : list'[i] = list'[j] => i = j
<1>1. /\ list \in Seq(ClientFds) /\ Len(list) <= MAX_TCP_CONNECTIONS
      /\ MAX_TCP_CONNECTIONS \in Nat
      /\ \A i, j \in DOMAIN list : list[i] = list[j] => i = j
  BY LimitsAssumption DEF TypeOK, ConnectedOnce
<1>2. CASE fd \notin ToSet(list) /\ UNCHANGED list
  BY <1>1, <1>2 DEF ToSet
<1>3. CASE \E i \in DOMAIN list : list[i] = fd /\ list' = RemoveAt(list, i)
  <2>1. PICK i \in DOMAIN list : list[i] = fd /\ list' = RemoveAt(list, i)
    BY <1>3
  <2>2. /\ list' \in Seq(ClientFds) /\ Len(list') = Len(list) - 1
        /\ \A j \in DOMAIN list' : list'[j] = IF j < i THEN list[j] ELSE list[j + 1]
    BY <1>1, <2>1, RemoveAtKeeps
  <2>3. /\ DOMAIN list = 1..Len(list) /\ DOMAIN list' = 1..(Len(list) - 1)
        /\ Len(list) \in Nat /\ i \in 1..Len(list)
    BY <1>1, <2>1, <2>2
  <2> QED BY <1>1, <2>1, <2>2, <2>3
<1> QED BY <1>2, <1>3 DEF remvTcpClient

-----------------------------------------------------------------------------
\* What a step that leaves the connections alone has to keep.
LEMMA QuietStep ==
  ASSUME IInv, UNCHANGED network, TypeOK',
         InPass' => \/ InPass /\ ready' \subseteq ready
                    \/ Current',
         SendsSound', OutageSettled'
  PROVE  IInv'
<1>1. Listed' /\ (served = DOMAIN peer)' /\ ConnectedOnce'
  BY DEF IInv, network, Listed, ConnectedOnce
<1>2. ASSUME InPass' PROVE Current'
  <2>1. CASE InPass /\ ready' \subseteq ready
    BY <2>1 DEF IInv, Current, Readable, network
  <2> QED BY <1>2, <2>1
<1> QED BY <1>1, <1>2 DEF IInv

LEMMA Start == Init => IInv
<1> SUFFICES ASSUME Init PROVE IInv
  OBVIOUS
<1>1. TypeOK
  <2>1. list \in Seq(ClientFds) /\ Len(list) = 0 /\ backlog \in Seq(Clients)
    BY DEF Init
  <2>2. 0 <= MAX_TCP_CONNECTIONS /\ 0 <= MAX_UDP_CONNECTIONS
    BY LimitsAssumption
  <2>3. Cardinality(udpList) = 0
    BY FS_EmptySet DEF Init
  <2>4. /\ link \in [Clients -> {"none", "open", "fin", "reset", "closed"}]
        /\ inbox \in [Clients -> Requests \cup {"empty", "several"}]
        /\ DOMAIN peer = {}
    BY DEF Init
  <2> QED BY <2>1, <2>2, <2>3, <2>4 DEF Init, TypeOK
<1>2. Listed /\ served = DOMAIN peer /\ ConnectedOnce
  BY DEF Init, Listed, ConnectedOnce
<1> QED BY <1>1, <1>2 DEF Init, IInv, InPass, Sending, SendsSound, OutageSettled

-----------------------------------------------------------------------------
\* The steps that leave the connections alone.
LEMMA LoopTurns == ASSUME IInv, Test \/ EnterSelect \/ Wake \/ EndPass PROVE IInv'
<1>1. UNCHANGED <<sends, running, children, network, sources>>
  BY DEF Test, EnterSelect, Wake, EndPass
<1>2. ReadyFds \subseteq {TcpSocket, UdpSocket, UnixSocket, Fifo} \cup ClientFds
  BY DEF IInv, TypeOK, ReadyFds
<1>3. TypeOK'
  BY <1>1, <1>2 DEF IInv, TypeOK, Test, EnterSelect, Wake, EndPass, network, sources
<1>4. ~Sending'
  BY DEF Test, EnterSelect, Wake, EndPass, Sending
<1>5. OutageSettled' /\ SendsSound'
  BY <1>1, <1>4 DEF IInv, InPass, SendsSound, OutageSettled, Sending,
                    Test, EnterSelect, Wake, EndPass, network, sources
<1>6. ASSUME InPass' PROVE Current'
  <2>1. Wake
    BY <1>4, <1>6 DEF Test, EnterSelect, Wake, EndPass, InPass
  <2>2. ASSUME NEW fd \in ready' \cap ClientFds PROVE fd \in served /\ Readable(fd)
    BY <2>1, <2>2, ClientFdsAreHigh DEF Wake, ReadyFds
  <2> QED BY <1>1, <2>2 DEF Current, Readable, network
<1> QED BY <1>1, <1>3, <1>5, <1>6, QuietStep

LEMMA Deaths == ASSUME IInv, BrokenPipe PROVE IInv'
<1>1. /\ TypeOK' /\ OutageSettled' /\ SendsSound' /\ ~InPass' /\ UNCHANGED network
  BY DEF IInv, TypeOK, InPass, Sending, SendsSound, OutageSettled, BrokenPipe, network, sources
<1> QED BY <1>1, QuietStep

\* The handler is through with its sends.
LEMMA Ends == ASSUME IInv, EndSends PROVE IInv'
<1>1. /\ TypeOK' /\ SendsSound' /\ UNCHANGED <<ready, network>>
  BY DEF IInv, TypeOK, Sending, SendsSound, EndSends, sigintHandler, network
<1>2. InPass
  BY DEF EndSends, InPass, Sending
<1>3. OutageSettled'
  <2>1. CASE pc = "telling"
    <3>1. TcpSocket \notin ready /\ \A i \in DOMAIN list : peer[list[i]] \in told
      BY <2>1 DEF IInv, SendsSound, Sending, EndSends
    <3> QED BY <2>1, <3>1 DEF OutageSettled, EndSends, sigintHandler, InPass, network
  <2>2. CASE pc = "sending"
    BY <1>2, <2>2 DEF IInv, OutageSettled, EndSends, InPass, network
  <2> QED BY <2>1, <2>2 DEF EndSends
<1> QED BY <1>1, <1>2, <1>3, QuietStep

LEMMA Datagrams == ASSUME IInv, HandleUdpSocket PROVE IInv'
<1>1. /\ ready' \subseteq ready /\ pc = "pass"
      /\ UNCHANGED <<pc, sends, running, children, network, alerts, outage>>
  BY DEF HandleUdpSocket, Turn
<1>2. datagrams' \subseteq UdpClients /\ udpList' \subseteq UdpClients
  BY DEF HandleUdpSocket, IInv, TypeOK
<1>3. Cardinality(udpList') <= MAX_UDP_CONNECTIONS
  <2>1. CASE udpList' = udpList
    BY <2>1 DEF IInv, TypeOK
  <2>2. CASE udpList' # udpList
    <3>1. PICK u \in datagrams : /\ ~(Cardinality(udpList) >= MAX_UDP_CONNECTIONS)
                                 /\ udpList' = udpList \cup {u}
      BY <2>2 DEF HandleUdpSocket
    <3>2. IsFiniteSet(udpList)
      BY ClientsAssumption, FS_Subset DEF IInv, TypeOK
    <3>3. Cardinality(udpList) \in Nat /\ Cardinality(udpList') <= Cardinality(udpList) + 1
      <4>1. Cardinality(udpList) \in Nat
        BY <3>2, FS_CardinalityType
      <4>2. Cardinality(udpList \cup {u}) =
              IF u \in udpList THEN Cardinality(udpList) ELSE Cardinality(udpList) + 1
        BY <3>2, FS_AddElement
      <4> QED BY <3>1, <4>1, <4>2
    <3>4. MAX_UDP_CONNECTIONS \in Nat /\ Cardinality(udpList) < MAX_UDP_CONNECTIONS
      BY <3>1, <3>3, LimitsAssumption
    <3>5. Cardinality(udpList') \in Nat
      BY <3>1, <3>2, FS_AddElement, FS_CardinalityType
    <3> QED BY <3>3, <3>4, <3>5
  <2> QED BY <2>1, <2>2
<1>4. TypeOK'
  BY <1>1, <1>2, <1>3 DEF IInv, TypeOK, network
<1>5. OutageSettled' /\ SendsSound'
  BY <1>1 DEF IInv, InPass, Sending, SendsSound, OutageSettled, network
<1> QED BY <1>1, <1>4, <1>5, QuietStep DEF InPass

\* Taking the first place out of a sequence keeps the others, in order.
LEMMA TailKeeps ==
  ASSUME NEW S, NEW s \in Seq(S), s # <<>>
  PROVE  /\ Tail(s) \in Seq(S) /\ Len(s) > 0
         /\ DOMAIN s = 1..Len(s) /\ DOMAIN Tail(s) = 1..(Len(s) - 1)
         /\ Head(s) = s[1] /\ Head(s) \in S
         /\ \A i \in DOMAIN Tail(s) : Tail(s)[i] = s[i + 1] /\ i + 1 \in DOMAIN s
         /\ \A i \in DOMAIN s : i # 1 => i - 1 \in DOMAIN Tail(s) /\ Tail(s)[i - 1] = s[i]
OBVIOUS

LEMMA Interrupts == ASSUME IInv, Sigint PROVE IInv'
<1>1. UNCHANGED <<ready, network>>
  BY DEF Sigint
<1>2. CASE UNCHANGED sends
  <2>1. TypeOK' /\ OutageSettled' /\ SendsSound'
    BY <1>2 DEF IInv, TypeOK, InPass, Sending, SendsSound, OutageSettled, Sigint, sigintHandler,
                network, sources
  <2>2. InPass' => InPass
    BY DEF Sigint, InPass, Sending
  <2> QED BY <1>1, <2>1, <2>2, QuietStep
<1>3. CASE pc = "sending" /\ sends # <<>> /\ sends' = Tail(sends)
  <2>1. pc' = "sending" /\ sends' \in Seq(ClientFds)
        /\ \A i \in DOMAIN sends' : \E j \in DOMAIN sends : sends'[i] = sends[j]
    BY <1>3, TailKeeps DEF IInv, TypeOK, Sigint
  <2>2. TypeOK' /\ OutageSettled'
    BY <1>1, <1>3, <2>1 DEF IInv, TypeOK, InPass, Sending, OutageSettled, Sigint, sigintHandler,
                            network, sources
  <2>3. SendsSound'
    BY <1>1, <1>3, <2>1 DEF IInv, Sending, SendsSound, network
  <2> QED BY <1>1, <1>3, <2>1, <2>2, <2>3, QuietStep DEF InPass, Sending
<1> QED BY <1>2, <1>3 DEF Sigint

LEMMA Arrivals ==
  ASSUME IInv, (\E u \in UdpClients : SendDatagram(u)) \/ RaiseAlert \/ FailPower
  PROVE  IInv'
<1>1. UNCHANGED <<pc, ready, sends, running, children, network, udpList>>
  BY DEF SendDatagram, RaiseAlert, FailPower
<1>2. outage' = outage \/ outage' = "pending"
  BY DEF SendDatagram, RaiseAlert, FailPower
<1>3. TypeOK'
  BY <1>1 DEF IInv, TypeOK, SendDatagram, RaiseAlert, FailPower, network
<1>4. OutageSettled' /\ SendsSound' /\ (InPass' <=> InPass)
  BY <1>1, <1>2 DEF IInv, InPass, Sending, SendsSound, OutageSettled, network
<1> QED BY <1>1, <1>3, <1>4, QuietStep

-----------------------------------------------------------------------------
\* A handler sends, or takes what one client sent: no connection is lost to the
\* lists, and what select() would report of one it still reports.
LEMMA WritingStep ==
  ASSUME IInv, ready' \subseteq ready, InPass,
         UNCHANGED <<peer, served, list, backlog>>,
         UNCHANGED link \/ \E c \in Clients : link' = AfterSend(c),
         \A fd \in ready' \cap DOMAIN peer : inbox'[peer[fd]] = inbox[peer[fd]],
         TypeOK', SendsSound', OutageSettled'
  PROVE  IInv'
<1>1. /\ \A fd \in DOMAIN peer : peer[fd] \in Clients
      /\ \A i \in DOMAIN backlog : backlog[i] \in Clients
  BY DEF IInv, TypeOK
<1>2. \A c \in Clients : /\ link[c] \in Connected => link'[c] \in Connected
                         /\ link[c] \in {"fin", "reset"} => link'[c] \in {"fin", "reset"}
  BY DEF IInv, TypeOK, AfterSend, Connected
<1>3. ConnectedOnce'
  BY <1>1, <1>2 DEF IInv, ConnectedOnce
<1>4. Listed' /\ (served = DOMAIN peer)'
  BY DEF IInv, Listed
<1>5. Current'
  <2>1. SUFFICES ASSUME NEW fd \in ready' \cap ClientFds
                 PROVE  fd \in served' /\ Readable(fd)'
    BY DEF Current
  <2>2. fd \in ready \cap ClientFds /\ fd \in DOMAIN peer /\ fd \in served /\ Readable(fd)
    BY DEF IInv, Current
  <2>3. inbox'[peer[fd]] = inbox[peer[fd]]
    BY <2>2
  <2> QED BY <1>1, <1>2, <2>2, <2>3 DEF Readable
<1> QED BY <1>3, <1>4, <1>5 DEF IInv

\* A broadcast is begun: every listed connection is to be sent to.
LEMMA Broadcasts == ASSUME IInv, HandleUnixSocket \/ HandleFifo PROVE IInv'
<1>1. /\ ready' \subseteq ready /\ pc = "pass" /\ InPass
      /\ pc' \in {"sending", "telling"} /\ sends' = list
      /\ UNCHANGED <<running, children, network, udpList, datagrams, outage>>
  BY DEF HandleUnixSocket, HandleFifo, Turn, InPass, sources
<1>2. pc' = "telling" => TcpSocket \notin ready
  BY DEF HandleUnixSocket, HandleFifo, Turn, Lowest, TcpSocket, UnixSocket
<1>3. TypeOK'
  BY <1>1 DEF IInv, TypeOK, HandleUnixSocket, HandleFifo, network, sources
<1>4. SendsSound'
  BY <1>1, <1>2 DEF IInv, Listed, SendsSound, network
<1>5. OutageSettled'
  BY <1>1 DEF IInv, OutageSettled, InPass, Sending, network
<1> QED BY <1>1, <1>3, <1>4, <1>5, QuietStep

\* A send returns.
LEMMA Sent == ASSUME IInv, SendNext PROVE IInv'
<1> DEFINE fd == Head(sends)
           c == peer[fd]
<1>1. /\ pc \in {"sending", "telling"} /\ sends # <<>> /\ Sending /\ InPass
      /\ link' = AfterSend(c)
      /\ told' = IF pc = "telling" THEN told \cup {c} ELSE told
      /\ sends' = Tail(sends)
      /\ UNCHANGED <<pc, ready, running, children, peer, served, list, backlog, inbox, sources>>
  BY DEF SendNext, Sending, InPass
<1>2. /\ sends' \in Seq(ClientFds) /\ fd = sends[1] /\ 1 \in DOMAIN sends
      /\ \A i \in DOMAIN sends' : sends'[i] = sends[i + 1] /\ i + 1 \in DOMAIN sends
      /\ \A i \in DOMAIN sends : i # 1 => i - 1 \in DOMAIN sends' /\ sends'[i - 1] = sends[i]
  BY <1>1, TailKeeps DEF IInv, TypeOK
<1>3. c \in Clients
  BY <1>1, <1>2 DEF IInv, SendsSound, TypeOK
<1> HIDE DEF fd, c
<1>4. TypeOK'
  <2>1. link' \in [Clients -> {"none", "open", "fin", "reset", "closed"}]
    BY <1>1 DEF IInv, TypeOK, AfterSend
  <2>2. told' \subseteq Clients
    BY <1>1, <1>3 DEF IInv, TypeOK
  <2> QED BY <1>1, <1>2, <2>1, <2>2 DEF IInv, TypeOK, sources
<1>5. SendsSound'
  <2>1. \A i \in DOMAIN sends' : sends'[i] \in served
    BY <1>1, <1>2 DEF IInv, SendsSound
  <2>2. ASSUME pc = "telling", NEW i \in DOMAIN list
        PROVE  \/ \E j \in DOMAIN sends' : sends'[j] = list[i]
               \/ peer[list[i]] \in told'
    <3>1. CASE peer[list[i]] \in told
      BY <1>1, <3>1
    <3>2. CASE \E j \in DOMAIN sends : sends[j] = list[i]
      <4>1. PICK j \in DOMAIN sends : sends[j] = list[i]
        BY <3>2
      <4>2. CASE j = 1
        BY <1>1, <1>2, <2>2, <4>1, <4>2 DEF c
      <4>3. CASE j # 1
        BY <1>2, <4>1, <4>3
      <4> QED BY <4>2, <4>3
    <3> QED BY <1>1, <2>2, <3>1, <3>2 DEF IInv, SendsSound
  <2> QED BY <1>1, <2>1, <2>2 DEF IInv, SendsSound
<1>6. OutageSettled'
  BY <1>1 DEF IInv, OutageSettled, InPass, Sending, sources
<1> QED BY <1>1, <1>3, <1>4, <1>5, <1>6, WritingStep

\* A descriptor is dropped: its client's connection is over, the others' are not touched.
LEMMA Drops ==
  ASSUME IInv, NEW fd \in DOMAIN peer, Drop(fd), ready' = ready \ {fd}, InPass,
         pc' = "pass", sends' \in Seq(ClientFds),
         UNCHANGED <<running, children, sources>>
  PROVE  IInv'
<1> DEFINE c == peer[fd]
<1>1. /\ c \in Clients /\ fd \in ClientFds
      /\ DOMAIN peer' = DOMAIN peer \ {fd}
      /\ \A f \in DOMAIN peer' : peer'[f] = peer[f] /\ peer[f] # c
  BY DEF IInv, TypeOK, Drop, ConnectedOnce
<1>2. /\ link' \in [Clients -> {"none", "open", "fin", "reset", "closed"}]
      /\ inbox' \in [Clients -> Requests \cup {"empty", "several"}]
      /\ \A d \in Clients : d # c => link'[d] = link[d] /\ inbox'[d] = inbox[d]
  BY DEF IInv, TypeOK, Drop
<1>3. /\ list' \in Seq(ClientFds) /\ Len(list') <= MAX_TCP_CONNECTIONS
      /\ \A i \in DOMAIN list' : list'[i] # fd /\ \E j \in DOMAIN list : list'[i] = list[j]
      /\ \A i, j \in DOMAIN list' : list'[i] = list'[j] => i = j
  BY RemovalKeepsOthers DEF IInv, Drop
<1>4. served' = served \ {fd} /\ UNCHANGED <<backlog, told>>
  BY DEF Drop
<1>5. TypeOK'
  BY <1>1, <1>2, <1>3, <1>4 DEF IInv, TypeOK, sources
<1>6. Listed' /\ (served = DOMAIN peer)'
  BY <1>1, <1>3, <1>4 DEF IInv, Listed
<1>7. ConnectedOnce'
  <2>1. \A i \in DOMAIN backlog : backlog[i] \in Clients /\ backlog[i] # c
    BY DEF IInv, TypeOK, ConnectedOnce
  <2>2. \A f \in DOMAIN peer' : peer[f] \in Clients
    BY <1>1 DEF IInv, TypeOK
  <2> QED BY <1>1, <1>2, <1>3, <1>4, <2>1, <2>2 DEF IInv, ConnectedOnce
<1>8. Current'
  <2>1. SUFFICES ASSUME NEW f \in ready' \cap ClientFds
                 PROVE  f \in served' /\ Readable(f)'
    BY DEF Current
  <2>2. f \in ready \cap ClientFds /\ f # fd /\ f \in served /\ Readable(f)
    BY DEF IInv, Current
  <2>3. f \in DOMAIN peer' /\ peer'[f] = peer[f] /\ peer[f] # c /\ peer[f] \in Clients
    BY <1>1, <2>2 DEF IInv, TypeOK
  <2> QED BY <1>2, <1>4, <2>2, <2>3 DEF Readable
<1>9. OutageSettled'
  <2>1. SUFFICES ASSUME outage' = "done", NEW i \in DOMAIN list'
                 PROVE  peer'[list'[i]] \in told'
    BY DEF IInv, OutageSettled, InPass, sources
  <2>2. PICK j \in DOMAIN list : list'[i] = list[j] /\ list[j] # fd
    BY <1>3
  <2>3. peer[list[j]] \in told /\ list[j] \in DOMAIN peer'
    BY <1>1, <2>1, <2>2 DEF IInv, OutageSettled, Listed, sources
  <2> QED BY <1>1, <1>4, <2>2, <2>3
<1>10. SendsSound'
  BY DEF SendsSound, Sending
<1> QED BY <1>5, <1>6, <1>7, <1>8, <1>9, <1>10 DEF IInv

LEMMA Refusals == ASSUME IInv, Refuse PROVE IInv'
<1>1. /\ pc = "refusing" /\ Sending /\ InPass /\ sends \in Seq(ClientFds) /\ Len(sends) = 1
      /\ Drop(Head(sends)) /\ sends' = <<>> /\ pc' = "pass"
      /\ UNCHANGED <<ready, running, children, sources>>
  BY DEF IInv, TypeOK, Refuse, Sending, InPass
<1>2. Head(sends) = sends[1] /\ 1 \in DOMAIN sends
  BY <1>1
<1>3. Head(sends) \in DOMAIN peer /\ Head(sends) \notin ready
  BY <1>1, <1>2 DEF IInv, SendsSound
<1>4. ready' = ready \ {Head(sends)} /\ sends' \in Seq(ClientFds)
  BY <1>1, <1>3
<1> QED BY <1>1, <1>3, <1>4, Drops

LEMMA Served == ASSUME IInv, NEW fd \in DOMAIN peer, HandleClient(fd) PROVE IInv'
<1> DEFINE c == peer[fd]
<1>1. /\ ready' = ready \ {fd} /\ ready' \subseteq ready /\ c \in Clients
      /\ pc = "pass" /\ InPass /\ fd \in ClientFds /\ fd \in served
  BY DEF HandleClient, Turn, IInv, TypeOK, InPass
<1>2. CASE Drop(fd) /\ UNCHANGED <<pc, sends, running, children, sources>>
  <2>1. sends' \in Seq(ClientFds)
    BY <1>2 DEF IInv, TypeOK
  <2> QED BY <1>1, <1>2, <2>1, Drops
<1>3. CASE /\ inbox[c] \in Requests
           /\ inbox' = [inbox EXCEPT ![c] = "empty"]
           /\ sends' = [i \in 1..Sends[inbox[c]] |-> fd]
           /\ pc' = IF inbox[c] = "badAuth" THEN "refusing" ELSE "sending"
           /\ UNCHANGED <<running, children, peer, served, list, backlog, link, told, sources>>
  <2> DEFINE n == Sends[inbox[c]]
  <2>1. n \in Nat /\ (inbox[c] = "badAuth" => n = 1)
    <3>1. inbox[c] \in {"status", "update", "badAuth", "image"}
      BY <1>3, RequestsAssumption
    <3>2. \A r \in {"status", "update", "badAuth", "image"} :
            Sends[r] \in Nat /\ (r = "badAuth" => Sends[r] = 1)
      BY DEF Sends
    <3> QED BY <3>1, <3>2
  <2> HIDE DEF n
  <2>2. /\ sends' \in Seq(ClientFds) /\ Len(sends') = n /\ DOMAIN sends' = 1..n
        /\ \A i \in DOMAIN sends' : sends'[i] = fd
    <3>1. sends' = [i \in 1..n |-> fd]
      BY <1>3 DEF n
    <3> QED BY <1>1, <2>1, <3>1
  <2>3. inbox' \in [Clients -> Requests \cup {"empty", "several"}]
    BY <1>3 DEF IInv, TypeOK
  <2>4. TypeOK'
    <3>1. pc' \in {"sending", "refusing"} /\ (pc' = "refusing" => Len(sends') = 1)
      BY <1>3, <2>1, <2>2
    <3>2. ready' \subseteq {TcpSocket, UdpSocket, UnixSocket, Fifo} \cup ClientFds
      BY <1>1 DEF IInv, TypeOK
    <3>3. UNCHANGED <<running, children, peer, served, list, backlog, link, told,
                      udpList, datagrams, alerts, outage>>
      BY <1>3 DEF sources
    <3> QED BY <2>2, <2>3, <3>1, <3>2, <3>3 DEF IInv, TypeOK
  <2>5. SendsSound'
    <3>1. pc' # "telling" /\ (pc' = "refusing" => 1 \in DOMAIN sends')
      <4>1. pc' # "telling" /\ (pc' = "refusing" => n = 1)
        BY <1>3, <2>1
      <4> QED BY <2>1, <2>2, <4>1
    <3>2. \A i \in DOMAIN sends' : sends'[i] \in served' /\ sends'[i] \notin ready'
      BY <1>1, <1>3, <2>2
    <3> QED BY <3>1, <3>2 DEF SendsSound
  <2>6. OutageSettled'
    BY <1>1, <1>3 DEF IInv, OutageSettled, InPass, Sending, sources
  <2>7. \A f \in ready' \cap DOMAIN peer : inbox'[peer[f]] = inbox[peer[f]]
    BY <1>1, <1>3 DEF IInv, TypeOK, ConnectedOnce
  <2> QED BY <1>1, <1>3, <2>4, <2>5, <2>6, <2>7, WritingStep
<1> QED BY <1>2, <1>3 DEF HandleClient

\* The oldest connection moves from the backlog behind a descriptor of its own.
LEMMA Accepts == ASSUME IInv, HandleTcpSocket PROVE IInv'
<1>1. PICK fd \in ClientFds \ DOMAIN peer :
        /\ peer' = [f \in DOMAIN peer \cup {fd} |-> IF f = fd THEN Head(backlog) ELSE peer[f]]
        /\ served' = served \cup {fd}
        /\ list' = IF HasRoom THEN Append(list, fd) ELSE list
  BY DEF HandleTcpSocket
<1>2. /\ ready' \subseteq ready /\ TcpSocket \in ready /\ pc = "pass" /\ backlog # <<>>
      /\ backlog' = Tail(backlog)
      /\ UNCHANGED <<pc, sends, running, children, link, inbox, told, sources>>
  BY DEF HandleTcpSocket, Turn, Lowest
<1> DEFINE c == Head(backlog)
<1>3. /\ backlog \in Seq(Clients) /\ Len(backlog) \in Nat /\ Len(backlog) > 0
      /\ c = backlog[1] /\ c \in Clients
      /\ backlog' \in Seq(Clients) /\ Len(backlog') = Len(backlog) - 1
      /\ \A i \in DOMAIN backlog' : backlog'[i] = backlog[i + 1] /\ i + 1 \in DOMAIN backlog
  BY <1>2 DEF IInv, TypeOK
<1>4. list \in Seq(ClientFds) /\ MAX_TCP_CONNECTIONS \in Nat /\ Len(list) <= MAX_TCP_CONNECTIONS
  BY LimitsAssumption DEF IInv, TypeOK
<1>5. /\ list' \in Seq(ClientFds) /\ Len(list') <= MAX_TCP_CONNECTIONS
      /\ \A i \in DOMAIN list' : \/ i \in DOMAIN list /\ list'[i] = list[i]
                                 \/ i = Len(list) + 1 /\ list'[i] = fd
  <2>1. CASE HasRoom
    <3>1. list' = Append(list, fd) /\ Len(list') = Len(list) + 1 /\ list' \in Seq(ClientFds)
      BY <1>1, <1>4, <2>1
    <3> QED BY <1>1, <1>4, <2>1, <3>1 DEF HasRoom
  <2>2. CASE ~HasRoom
    BY <1>1, <1>4, <2>2
  <2> QED BY <2>1, <2>2
<1>6. /\ DOMAIN peer' = DOMAIN peer \cup {fd} /\ peer'[fd] = c
      /\ \A f \in DOMAIN peer : f # fd /\ peer'[f] = peer[f]
  BY <1>1
<1> HIDE DEF c
<1>7. TypeOK'
  BY <1>1, <1>2, <1>3, <1>5, <1>6 DEF IInv, TypeOK, sources
<1>8. Listed' /\ (served = DOMAIN peer)'
  BY <1>1, <1>5, <1>6 DEF IInv, Listed
<1>9. ConnectedOnce'
  <2>1. \A f, g \in DOMAIN peer' : peer'[f] = peer'[g] => f = g
    BY <1>3, <1>6 DEF IInv, ConnectedOnce
  <2>2. \A i, j \in DOMAIN backlog' : backlog'[i] = backlog'[j] => i = j
    <3>1. SUFFICES ASSUME NEW i \in DOMAIN backlog', NEW j \in DOMAIN backlog',
                          backlog'[i] = backlog'[j]
                   PROVE  i = j
      OBVIOUS
    <3>2. i + 1 = j + 1
      BY <1>3, <3>1 DEF IInv, ConnectedOnce
    <3> QED BY <1>3, <3>2
  <2>3. \A i \in DOMAIN backlog' : \A f \in DOMAIN peer' : backlog'[i] # peer'[f]
    <3>1. SUFFICES ASSUME NEW i \in DOMAIN backlog', NEW f \in DOMAIN peer'
                   PROVE  backlog'[i] # peer'[f]
      OBVIOUS
    <3>2. CASE f = fd
      <4>1. i \in Nat \ {0} /\ i + 1 \in DOMAIN backlog /\ 1 \in DOMAIN backlog /\ i + 1 # 1
        BY <1>3
      <4>2. backlog[i + 1] # backlog[1]
        BY <4>1 DEF IInv, ConnectedOnce
      <4> QED BY <1>3, <1>6, <3>2, <4>2
    <3>3. CASE f # fd
      BY <1>3, <1>6, <3>3 DEF IInv, ConnectedOnce
    <3> QED BY <3>2, <3>3
  <2>4. link'[c] \in Connected /\ \A i \in DOMAIN backlog' : link'[backlog'[i]] \in Connected
    BY <1>2, <1>3 DEF IInv, ConnectedOnce
  <2>5. \A f \in DOMAIN peer' : link'[peer'[f]] \in Connected
    BY <1>2, <1>6, <2>4 DEF IInv, ConnectedOnce
  <2>6. \A i \in DOMAIN list : list[i] # fd
    BY <1>1 DEF IInv, Listed
  <2>7. \A i, j \in DOMAIN list' : list'[i] = list'[j] => i = j
    BY <1>5, <2>6 DEF IInv, ConnectedOnce
  <2> QED BY <2>1, <2>2, <2>3, <2>4, <2>5, <2>7 DEF ConnectedOnce
<1>10. Current'
  <2>1. SUFFICES ASSUME NEW f \in ready' \cap ClientFds PROVE f \in served' /\ Readable(f)'
    BY DEF Current
  <2>2. f \in DOMAIN peer /\ f \in served /\ Readable(f)
    BY <1>2 DEF IInv, InPass, Current
  <2> QED BY <1>1, <1>2, <1>6, <2>2 DEF Readable
<1>11. OutageSettled' /\ SendsSound'
  BY <1>2 DEF IInv, InPass, Sending, SendsSound, OutageSettled, sources
<1> QED BY <1>7, <1>8, <1>9, <1>10, <1>11 DEF IInv

-----------------------------------------------------------------------------
\* The clients.
LEMMA Connects == ASSUME IInv, NEW c \in Clients, Connect(c) PROVE IInv'
<1>1. /\ link[c] \notin Connected
      /\ link' = [link EXCEPT ![c] = "open"]
      /\ backlog' = Append(backlog, c)
      /\ told' = told \ {c}
      /\ UNCHANGED <<pc, ready, sends, running, children, peer, served, list, inbox, sources>>
  BY DEF Connect, Connected
<1>2. /\ backlog \in Seq(Clients) /\ backlog' \in Seq(Clients)
      /\ Len(backlog) \in Nat /\ Len(backlog') = Len(backlog) + 1
      /\ \A i \in DOMAIN backlog' : \/ i \in DOMAIN backlog /\ backlog'[i] = backlog[i]
                                    \/ i = Len(backlog) + 1 /\ backlog'[i] = c
  BY <1>1 DEF IInv, TypeOK
<1>3. /\ \A i \in DOMAIN backlog : backlog[i] # c /\ backlog[i] \in Clients
      /\ \A f \in DOMAIN peer : peer[f] # c /\ peer[f] \in Clients
  BY <1>1, <1>2 DEF IInv, TypeOK, ConnectedOnce
<1>4. /\ link' \in [Clients -> {"none", "open", "fin", "reset", "closed"}]
      /\ link'[c] = "open" /\ \A d \in Clients : d # c => link'[d] = link[d]
  BY <1>1 DEF IInv, TypeOK
<1>5. TypeOK'
  BY <1>1, <1>2, <1>4 DEF IInv, TypeOK, sources
<1>6. Listed' /\ (served = DOMAIN peer)'
  BY <1>1 DEF IInv, Listed
<1>7. ConnectedOnce'
  <2>1. \A i, j \in DOMAIN backlog' : backlog'[i] = backlog'[j] => i = j
    BY <1>2, <1>3 DEF IInv, ConnectedOnce
  <2>2. \A i \in DOMAIN backlog' : \A f \in DOMAIN peer : backlog'[i] # peer[f]
    BY <1>2, <1>3 DEF IInv, ConnectedOnce
  <2>3. \A i \in DOMAIN backlog' : link'[backlog'[i]] \in Connected
    BY <1>2, <1>3, <1>4 DEF IInv, ConnectedOnce, Connected
  <2>4. \A f \in DOMAIN peer : link'[peer[f]] \in Connected
    BY <1>3, <1>4 DEF IInv, ConnectedOnce
  <2> QED BY <1>1, <2>1, <2>2, <2>3, <2>4 DEF IInv, ConnectedOnce
<1>8. ASSUME InPass PROVE Current'
  <2>1. SUFFICES ASSUME NEW fd \in ready \cap ClientFds PROVE fd \in served /\ Readable(fd)'
    BY <1>1 DEF Current
  <2>2. fd \in DOMAIN peer /\ fd \in served /\ Readable(fd)
    BY <1>1, <1>8 DEF IInv, Current
  <2> QED BY <1>1, <1>3, <1>4, <2>2 DEF Readable
<1>9. OutageSettled' /\ SendsSound'
  <2>1. \A i \in DOMAIN list : peer[list[i]] # c
    BY <1>3 DEF IInv, Listed
  <2> QED BY <1>1, <2>1 DEF IInv, InPass, Sending, SendsSound, OutageSettled, sources
<1> QED BY <1>1, <1>5, <1>6, <1>7, <1>8, <1>9 DEF IInv, InPass, Sending

\* A client that sends or leaves makes its descriptor readable.
LEMMA ClientActs ==
  ASSUME IInv, NEW c \in Clients, Leave(c) \/ \E r \in Requests : SendRequest(c, r)
  PROVE  IInv'
<1>1. /\ UNCHANGED <<pc, ready, sends, running, children, peer, served, list, backlog, told, sources>>
      /\ link[c] = "open"
  BY DEF Leave, SendRequest
<1>2. /\ link' \in [Clients -> {"none", "open", "fin", "reset", "closed"}]
      /\ inbox' \in [Clients -> Requests \cup {"empty", "several"}]
  BY DEF IInv, TypeOK, Leave, SendRequest
<1>3. \A d \in Clients :
        /\ link[d] \in Connected => link'[d] \in Connected
        /\ inbox[d] # "empty" \/ link[d] \in {"fin", "reset"}
             => inbox'[d] # "empty" \/ link'[d] \in {"fin", "reset"}
  <2>1. CASE Leave(c)
    BY <2>1 DEF IInv, TypeOK, Leave, Connected
  <2>2. CASE \E r \in Requests : SendRequest(c, r)
    <3>1. PICK r \in Requests : SendRequest(c, r)
      BY <2>2
    <3>2. r # "empty"
      BY RequestsAssumption
    <3>3. /\ UNCHANGED link
          /\ inbox' = [inbox EXCEPT ![c] = IF inbox[c] = "empty" THEN r ELSE "several"]
      BY <3>1 DEF SendRequest
    <3> QED BY <3>2, <3>3 DEF IInv, TypeOK
  <2> QED BY <2>1, <2>2
<1>4. TypeOK'
  BY <1>1, <1>2 DEF IInv, TypeOK, sources
<1>5. Listed' /\ (served = DOMAIN peer)'
  BY <1>1 DEF IInv, Listed
<1>6. /\ \A i \in DOMAIN backlog : backlog[i] \in Clients
      /\ \A f \in DOMAIN peer : peer[f] \in Clients
  BY DEF IInv, TypeOK
<1>7. ConnectedOnce'
  BY <1>1, <1>3, <1>6 DEF IInv, ConnectedOnce
<1>8. ASSUME InPass PROVE Current'
  BY <1>1, <1>3, <1>6, <1>8 DEF IInv, Current, Readable
<1>9. OutageSettled' /\ SendsSound'
  BY <1>1 DEF IInv, InPass, Sending, SendsSound, OutageSettled, sources
<1> QED BY <1>1, <1>4, <1>5, <1>7, <1>8, <1>9 DEF IInv, InPass, Sending

-----------------------------------------------------------------------------
LEMMA Step == IInv /\ [Next]_vars => IInv'
<1> SUFFICES ASSUME IInv, [Next]_vars PROVE IInv'
  OBVIOUS
<1>1. CASE LoopStep
  BY <1>1, LoopTurns, Accepts, Datagrams, Broadcasts, Served, Deaths, Sent, Refusals, Ends
  DEF LoopStep, Handle
<1>2. CASE Sigint
  BY <1>2, Interrupts
<1>3. CASE World
  BY <1>3, Connects, ClientActs, Arrivals DEF World
<1>4. CASE UNCHANGED vars
  BY <1>4 DEF vars, network, sources, IInv, TypeOK, Listed, ConnectedOnce, Current, Readable,
              InPass, Sending, SendsSound, OutageSettled
<1> QED BY <1>1, <1>2, <1>3, <1>4 DEF Next

THEOREM Invariant == Spec => []IInv
<1> QED BY Start, Step, PTL DEF Spec

\* Every variable keeps its type and the lists their limits, for any number of
\* clients and any limits (server.cpp 676-697, 750-786).
THEOREM TypeCorrect == Spec => []TypeOK
<1>1. IInv => TypeOK
  BY DEF IInv
<1> QED BY <1>1, Invariant, PTL

\* A broadcast writes to open descriptors only, and to no client twice, however
\* descriptors are reused (server.cpp 160-186, 676-697, 809-815).
THEOREM BroadcastsAreSound == Spec => []ListIsSound
<1>1. IInv => ListIsSound
  BY DEF IInv, Listed, ConnectedOnce, ListIsSound, ToSet
<1> QED BY <1>1, Invariant, PTL

\* No handler of a pass is called for a connection that has nothing to read, or
\* that another handler of the pass has closed (server.cpp 92-137).
THEOREM BitsStayTrue == Spec => []ReadyBitsAreCurrent
<1>1. IInv => ReadyBitsAreCurrent
  BY DEF IInv, InPass, Current, ReadyBitsAreCurrent
<1> QED BY <1>1, Invariant, PTL

\* A server that a power failure ended told every client on its list
\* (server.cpp 1021-1023).
THEOREM OutagesAreTold == Spec => []OutageTellsListed
<1>1. IInv => OutageTellsListed
  BY DEF IInv, OutageSettled, OutageTellsListed, ListedClients, ToSet
<1> QED BY <1>1, Invariant, PTL

=============================================================================
