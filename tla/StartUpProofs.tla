--------------------------- MODULE StartUpProofs ---------------------------
(***************************************************************************)
(* What is proved of StartUp for any sensors and any number of alerts.     *)
(*                                                                         *)
(* Each argument has its inductive invariant.  NameInv says where the      *)
(* servers are and whose the socket's name is.  TypeInv types what the     *)
(* FIFOs and the stores hold.  PortInv has one server in its loop, GoneInv *)
(* nothing gone of the FIFO it has open.  QueueInv numbers the bytes: a    *)
(* FIFO holds the last of those written to it, the broadcasts the others   *)
(* in order, but those that are gone.  CountInv has a record for each      *)
(* broadcast but those whose session failed.                               *)
(***************************************************************************)
EXTENDS StartUp, FiniteSetTheorems, TLAPS

Places == {"unborn", "alerts", "power", "rest", "listen", "serving", "unlink",
           "tcp", "unix", "open", "exited"} \cup Running

\* Where the servers are and whom a power failure can reach, as long as the
\* REST process does only its own work.
NobodyFell ==
  /\ pc["rest"] \in {"unborn", "listen", "serving", "exited"}
  /\ pc["main"] \in {"open"} \cup Running => sock = "main"
  /\ power = "unheard" => pc["main"] = "exited"

\* The strengthening of OutagesAreHeard that every step preserves.
NameInv ==
  /\ pc \in [Servers -> Places]
  /\ fell \in BOOLEAN
  /\ pc["main"] \notin {"unborn", "listen", "serving"}
  /\ ~fell => NobodyFell

\* A start has no name bound and no REST process yet.
LEMMA InitNames == Init => NameInv
  BY DEF Init, NameInv, NobodyFell, Servers, Places, Running

\* A name that is taken is the main server's; whoever else asks has fallen.
LEMMA StartNames == ASSUME NameInv, NEW s \in Servers, Start(s) PROVE NameInv'
<1>1. s = "main" \/ s = "rest"
  BY DEF Servers
<1>2. CASE ForkAlerts(s)
  BY <1>1, <1>2 DEF ForkAlerts, Goto, NameInv, NobodyFell, Servers, Places, Running, names
<1>3. CASE ForkPower(s)
  BY <1>1, <1>3 DEF ForkPower, Goto, NameInv, NobodyFell, Servers, Places, Running, names
<1>4. CASE ForkRest(s)
  BY <1>1, <1>4 DEF ForkRest, NameInv, NobodyFell, Servers, Places, Running, names
<1>5. CASE Unlink(s)
  BY <1>1, <1>5 DEF Unlink, Goto, NameInv, NobodyFell, Servers, Places, Running
<1>6. CASE BindTcp(s)
  BY <1>1, <1>6 DEF BindTcp, Goto, NameInv, NobodyFell, Servers, Places, Running
<1>7. CASE BindUnix(s)
  BY <1>1, <1>7 DEF BindUnix, Goto, NameInv, NobodyFell, Servers, Places, Running
<1>8. CASE OpenFifo(s)
  BY <1>1, <1>8 DEF OpenFifo, Goto, NameInv, NobodyFell, Servers, Places, Running, names
<1> QED
  BY <1>2, <1>3, <1>4, <1>5, <1>6, <1>7, <1>8 DEF Start

\* The loop leaves the names alone.
LEMMA LoopNames ==
  ASSUME NameInv, NEW s \in Servers, Loop(s) \/ OtherEvent(s) PROVE NameInv'
<1>1. s = "main" \/ s = "rest"
  BY DEF Servers
<1>2. /\ UNCHANGED <<fell, power, sock>>
      /\ \/ UNCHANGED pc
         \/ /\ pc[s] \in Running
            /\ \/ \E next \in Running : Goto(s, next)
               \/ Goto(s, "exited")
  BY DEF Loop, Wake, OpenAgain, ReadAlerts, Terminate, CloseAgain, TakeFrom, OtherEvent, Running,
         processes, names
<1> QED
  BY <1>1, <1>2 DEF Goto, NameInv, NobodyFell, Servers, Places, Running

\* The alert processes touch none of this.
LEMMA AlerterNames ==
  ASSUME NameInv, NEW a \in Alerters, Alerter(a) \/ Measure(a) PROVE NameInv'
<1>1. UNCHANGED <<pc, fell, sock, power>>
  BY DEF Alerter, CleanUp, MakeFifo, OpenToSend, SendAlert, Measure, names
<1> QED
  BY <1>1 DEF NameInv, NobodyFell

\* An outage after the start finds the main server's name, or the main server
\* gone.
LEMMA OutageNames == ASSUME NameInv, Outage PROVE NameInv'
<1>1. CASE /\ sock \in Servers /\ pc[sock] = "loop"
           /\ pc' = [s \in Servers |-> IF s = sock \/ pc[s] = "serving" THEN "exited" ELSE pc[s]]
           /\ power' = "ended"
           /\ UNCHANGED <<fell, sock>>
  BY <1>1 DEF NameInv, NobodyFell, Servers, Places, Running
<1>2. CASE /\ ~(sock \in Servers /\ pc[sock] # "exited")
           /\ power' = "unheard"
           /\ UNCHANGED <<pc, fell, sock>>
  <2>1. pc["main"] \in {"unborn", "serving", "exited"} \cup Running
    BY DEF Outage, Settled, Servers
  <2>2. ~fell => pc["main"] = "exited"
    BY <1>2, <2>1 DEF NameInv, NobodyFell, Servers, Running
  <2> QED
    BY <1>2, <2>2 DEF NameInv, NobodyFell
<1> QED
  BY <1>1, <1>2 DEF Outage, names

\* NameInv holds in every reachable state.
THEOREM Invariant == Spec => []NameInv
<1>1. ASSUME NameInv, [Next]_vars PROVE NameInv'
  <2>1. CASE Next
    <3>1. CASE Listen
      BY <3>1, <1>1 DEF Listen, Goto, NameInv, NobodyFell, Servers, Places, Running, names
    <3> QED
      BY <1>1, <2>1, <3>1, StartNames, LoopNames, AlerterNames, OutageNames DEF Next
  <2>2. CASE UNCHANGED vars
    BY <1>1, <2>2 DEF NameInv, NobodyFell, vars, processes, names
  <2> QED
    BY <1>1, <2>1, <2>2
<1> QED
  BY <1>1, InitNames, PTL DEF Spec

\* A power failure that no running server hears of comes of a REST process that
\* could not listen and took the socket's name away, for any sensors and any
\* number of alerts (server.cpp 51-66, 1026-1056, 1155-1181).
THEOREM OutagesReachTheServer == Spec => []OutagesAreHeard
<1>1. NameInv => OutagesAreHeard
  BY DEF NameInv, NobodyFell, OutagesAreHeard, Servers, Running
<1> QED
  BY <1>1, Invariant, PTL

-----------------------------------------------------------------------------
\* Types.

Bytes == [at : Fifos, nr : Nat \ {0}, entry : ToSet(Sensors), part : 1..AlertSize]
Values == Seq(Bytes)

ProcessTypes ==
  /\ pc \in [Servers -> Places]
  /\ alerter \in [Alerters -> {"unborn", "cleanup", "mkfifo", "asleep", "sending", "opening",
                               "writing", "ended"}]
  /\ hot \in [Alerters -> SUBSET DOMAIN Sensors]
  /\ power \in {"unborn", "asleep", "ended", "unheard"}
  /\ fell \in BOOLEAN
  /\ path \in Fifos \cup {Nothing}
  /\ sock \in Servers \cup {"none", "stale"}
  /\ tcp \in Servers \cup {"none"}

OpenTypes ==
  /\ held \in [Servers -> Fifos \cup {Nothing}]
  /\ from \in [Servers -> Fifos \cup {Nothing}]
  /\ to \in [Alerters -> Fifos \cup {Nothing}]
  /\ \A s \in Servers : /\ pc[s] \in Running => held[s] \in Fifos
                        /\ pc[s] \in {"reading", "closing"} => from[s] \in Fifos
  /\ \A a \in Alerters : alerter[a] \in {"opening", "writing"} => to[a] \in Fifos

FifoTypes ==
  /\ content \in [Fifos -> Values]
  /\ raised \in [Fifos -> Values]
  /\ gone \in [Fifos -> SUBSET Int]

StoreTypes ==
  /\ delivered \in Seq(Values)
  /\ records \in Seq(Values)
  /\ lastEvent \in Values
  /\ failures \in 0..MaxFailures

TypeInv == ProcessTypes /\ OpenTypes /\ FifoTypes /\ StoreTypes

LEMMA InitTypes == Init => TypeInv
<1> SUFFICES ASSUME Init PROVE TypeInv
  OBVIOUS
<1>1. ProcessTypes
  BY DEF Init, ProcessTypes, Places, Servers, Alerters, Fifos
<1>2. OpenTypes
  BY DEF Init, OpenTypes, Servers, Alerters, Running
<1>3. FifoTypes /\ StoreTypes
  BY BoundsAssumption DEF Init, FifoTypes, StoreTypes, Values
<1> QED BY <1>1, <1>2, <1>3 DEF TypeInv

\* A process that wakes in open() has a FIFO to write to.
LEMMA WokenTypes ==
  ASSUME ProcessTypes, OpenTypes, NEW f, WakeWriters(f)
  PROVE  /\ alerter' \in [Alerters -> {"unborn", "cleanup", "mkfifo", "asleep", "sending",
                                       "opening", "writing", "ended"}]
         /\ \A a \in Alerters : alerter'[a] \in {"opening", "writing"} => to[a] \in Fifos
BY DEF WakeWriters, ProcessTypes, OpenTypes

LEMMA StartTypes == ASSUME TypeInv, NEW s \in Servers, Start(s) PROVE TypeInv'
<1>1. UNCHANGED <<bytes, delivered, records, failures, to, from, hot>>
  BY DEF Start, ForkAlerts, ForkPower, ForkRest, Unlink, BindTcp, BindUnix, OpenFifo, fifo, store
<1>2. lastEvent' \in {<<>>, lastEvent}
  BY DEF Start, ForkAlerts, ForkPower, ForkRest, Unlink, BindTcp, BindUnix, OpenFifo, fifo, store
<1>3. StoreTypes' /\ FifoTypes'
  <2>1. <<>> \in Values
    BY DEF Values
  <2> QED BY <1>1, <1>2, <2>1 DEF TypeInv, StoreTypes, FifoTypes, bytes
<1>4. ProcessTypes' /\ OpenTypes'
  <2> USE DEF ProcessTypes, OpenTypes, Places, Servers, Fifos, Nothing, Goto, Running
  <2>1. CASE ForkAlerts(s)
    BY <1>1, <2>1 DEF ForkAlerts, TypeInv, names, fifo, Alerters
  <2>2. CASE ForkPower(s)
    BY <1>1, <2>2 DEF ForkPower, TypeInv, names, fifo
  <2>3. CASE ForkRest(s)
    BY <1>1, <2>3 DEF ForkRest, TypeInv, names, fifo
  <2>4. CASE Unlink(s)
    BY <1>1, <2>4 DEF Unlink, TypeInv, fifo
  <2>5. CASE BindTcp(s)
    BY <1>1, <2>5 DEF BindTcp, TypeInv, fifo
  <2>6. CASE BindUnix(s)
    BY <1>1, <2>6 DEF BindUnix, TypeInv, fifo
  <2>7. CASE OpenFifo(s)
    <3>1. CASE path = Nothing
      BY <1>1, <2>7, <3>1 DEF OpenFifo, TypeInv, names
    <3>2. CASE path # Nothing
      BY <1>1, <2>7, <3>2, WokenTypes DEF OpenFifo, TypeInv, names
    <3> QED BY <3>1, <3>2
  <2> QED BY <2>1, <2>2, <2>3, <2>4, <2>5, <2>6, <2>7 DEF Start
<1> QED BY <1>3, <1>4 DEF TypeInv

LEMMA ListenTypes == ASSUME TypeInv, Listen PROVE TypeInv'
<1>1. ProcessTypes' /\ OpenTypes'
  BY DEF Listen, Goto, TypeInv, ProcessTypes, OpenTypes, Places, Servers, Running, names, fifo
<1>2. FifoTypes' /\ StoreTypes'
  BY DEF Listen, TypeInv, FifoTypes, StoreTypes, fifo, bytes, store
<1> QED BY <1>1, <1>2 DEF TypeInv

\* A part of a value is a value.
LEMMA PartTypes ==
  ASSUME NEW v \in Values, NEW m \in 1..(Len(v) + 1), NEW n \in 0..Len(v)
  PROVE  SubSeq(v, m, n) \in Values
BY DEF Values

\* What a read takes and leaves, when there is something.
LEMMA Reading ==
  ASSUME TypeInv, NEW f \in Fifos, content[f] # <<>>
  PROVE  /\ Reads(f) \in 1..Len(content[f])
         /\ FirstOf(f) \in Values
         /\ Without(f) \in [Fifos -> Values]
<1>1. content[f] \in Values /\ Len(content[f]) \in Nat \ {0}
  BY DEF TypeInv, FifoTypes, Values
<1>2. Reads(f) \in 1..Len(content[f])
  BY <1>1, SizesAssumption DEF Reads
<1>3. FirstOf(f) \in Values
  BY <1>1, <1>2, PartTypes DEF FirstOf
<1>4. SubSeq(content[f], Reads(f) + 1, Len(content[f])) \in Values
  <2>1. Reads(f) + 1 \in 1..(Len(content[f]) + 1) /\ Len(content[f]) \in 0..Len(content[f])
    BY <1>1, <1>2
  <2> QED BY <1>1, <2>1, PartTypes
<1> QED BY <1>2, <1>3, <1>4 DEF TypeInv, FifoTypes, Without

LEMMA TakenType == ASSUME FifoTypes, NEW f \in Fifos PROVE Taken(f) \in Int
BY DEF FifoTypes, Values, Taken

LEMMA ClosingTypes == ASSUME FifoTypes, Closing PROVE FifoTypes'
<1>1. <<>> \in Values
  BY DEF Values
<1>2. \A f \in Fifos : Taken(f) + 1 .. Len(raised[f]) \subseteq Int
  OBVIOUS
<1> QED BY <1>1, <1>2 DEF Closing, FifoTypes

\* What is broadcast and stored is a value.
LEMMA StoringTypes ==
  ASSUME StoreTypes, NEW v \in Values, delivered' = Append(delivered, v), StoreAlert(v)
  PROVE  StoreTypes'
<1>1. delivered' \in Seq(Values)
  BY DEF StoreTypes
<1>2. records' \in Seq(Values) /\ lastEvent' \in Values
  BY DEF StoreTypes, StoreAlert
<1>3. failures' \in 0..MaxFailures
  BY BoundsAssumption DEF StoreTypes, StoreAlert
<1> QED BY <1>1, <1>2, <1>3 DEF StoreTypes

LEMMA LoopTypes ==
  ASSUME TypeInv, NEW s \in Servers, Loop(s) \/ OtherEvent(s)
  PROVE  TypeInv'
<1> USE DEF ProcessTypes, OpenTypes, Places, Servers, Running, Nothing, Goto
<1>1. CASE Wake(s)
  <2>1. ProcessTypes' /\ OpenTypes'
    BY <1>1 DEF Wake, TypeInv, names, fifo
  <2> QED BY <1>1, <2>1 DEF Wake, TypeInv, FifoTypes, StoreTypes, fifo, bytes, store
<1>2. CASE OtherEvent(s)
  <2>1. ProcessTypes' /\ OpenTypes'
    BY <1>2 DEF OtherEvent, TypeInv, processes, names, fifo
  <2>2. <<>> \in Values
    BY DEF Values
  <2> QED BY <1>2, <2>1, <2>2 DEF OtherEvent, TypeInv, FifoTypes, StoreTypes, fifo, bytes
<1>3. CASE OpenAgain(s)
  <2>1. ProcessTypes' /\ OpenTypes'
    <3>1. CASE path = Nothing
      BY <1>3, <3>1 DEF OpenAgain, TypeInv, names
    <3>2. CASE path # Nothing
      BY <1>3, <3>2, WokenTypes DEF OpenAgain, TypeInv, names
    <3> QED BY <3>1, <3>2
  <2> QED BY <1>3, <2>1 DEF OpenAgain, TypeInv, FifoTypes, StoreTypes, bytes, store
<1>4. CASE CloseAgain(s)
  <2>1. ProcessTypes' /\ OpenTypes'
    BY <1>4 DEF CloseAgain, TypeInv, names
  <2> QED BY <1>4, <2>1, ClosingTypes DEF CloseAgain, TypeInv, StoreTypes, store
<1>5. CASE ReadAlerts(s) \/ Terminate(s)
  <2>1. TakeFrom(s) /\ from[s] \in Fifos
    BY <1>5 DEF ReadAlerts, Terminate, TakeFrom, TypeInv
  <2>2. ProcessTypes' /\ OpenTypes'
    BY <1>5, <2>1 DEF ReadAlerts, Terminate, TakeFrom, TypeInv, names
  <2> DEFINE f == from[s]
  <2>3. FirstOf(f) \in Values /\ content' \in [Fifos -> Values]
    BY <2>1, Reading DEF TakeFrom
  <2> HIDE DEF f
  <2>4. FifoTypes'
    <3>1. CASE ReadAlerts(s)
      BY <2>1, <2>3, <3>1 DEF ReadAlerts, TakeFrom, TypeInv, FifoTypes
    <3>2. CASE Terminate(s)
      <4>1. \A m, n \in Int : m .. n \subseteq Int
        OBVIOUS
      <4>2. Taken(f) + 1 \in Int /\ Taken(f) + BUFFER_SIZE \in Int
        BY <2>1, TakenType, SizesAssumption DEF TypeInv, f
      <4> QED BY <2>1, <2>3, <3>2, <4>1, <4>2 DEF Terminate, TakeFrom, TypeInv, FifoTypes, f
    <3> QED BY <1>5, <3>1, <3>2
  <2>5. StoreTypes'
    <3>1. CASE ReadAlerts(s)
      <4>1. delivered' = Append(delivered, FirstOf(f)) /\ StoreAlert(FirstOf(f))
        BY <3>1 DEF ReadAlerts, f
      <4> QED BY <2>3, <4>1, StoringTypes DEF TypeInv
    <3>2. CASE Terminate(s)
      BY <3>2 DEF Terminate, TypeInv, StoreTypes, store
    <3> QED BY <1>5, <3>1, <3>2
  <2> QED BY <2>2, <2>4, <2>5 DEF TypeInv
<1> QED BY <1>1, <1>2, <1>3, <1>4, <1>5 DEF Loop

\* An alert is a value.
LEMMA AlertTypes ==
  ASSUME FifoTypes, NEW f \in Fifos, NEW n \in DOMAIN Sensors
  PROVE  AlertOf(f, n) \in Values /\ Len(AlertOf(f, n)) = AlertSize
<1>1. Len(raised[f]) \in Nat
  BY DEF FifoTypes, Values
<1>2. \A k \in 1..AlertSize :
        [at |-> f, nr |-> Len(raised[f]) + k, entry |-> Sensors[n], part |-> k] \in Bytes
  BY <1>1, SizesAssumption DEF Bytes, ToSet
<1> QED BY <1>2, SizesAssumption DEF AlertOf, Values

LEMMA NextTypes ==
  ASSUME ProcessTypes, NEW a \in Alerters, NextSensor(a)
  PROVE  /\ hot' \in [Alerters -> SUBSET DOMAIN Sensors]
         /\ alerter' \in [Alerters -> {"unborn", "cleanup", "mkfifo", "asleep", "sending",
                                       "opening", "writing", "ended"}]
         /\ alerter'[a] \in {"asleep", "sending"}
         /\ \A b \in Alerters \ {a} : alerter'[b] = alerter[b]
BY DEF NextSensor, ProcessTypes

LEMMA SendTypes == ASSUME TypeInv, NEW a \in Alerters, SendAlert(a) PROVE TypeInv'
<1>1. to[a] \in Fifos /\ StoreTypes'
  BY DEF SendAlert, TypeInv, OpenTypes, StoreTypes, store
<1>2. CASE /\ NextSensor(a)
           /\ \E n \in hot[a] \ hot'[a] :
                /\ content' = [content EXCEPT ![to[a]] = @ \o AlertOf(to[a], n)]
                /\ raised' = [raised EXCEPT ![to[a]] = @ \o AlertOf(to[a], n)]
           /\ UNCHANGED gone
  <2>1. PICK n \in hot[a] :
          /\ content' = [content EXCEPT ![to[a]] = @ \o AlertOf(to[a], n)]
          /\ raised' = [raised EXCEPT ![to[a]] = @ \o AlertOf(to[a], n)]
    BY <1>2
  <2>2. AlertOf(to[a], n) \in Values
    BY <1>1, <2>1, AlertTypes DEF TypeInv, ProcessTypes
  <2>3. \A v, w \in Values : v \o w \in Values
    BY DEF Values
  <2>4. FifoTypes'
    BY <1>1, <1>2, <2>1, <2>2, <2>3 DEF TypeInv, FifoTypes
  <2>5. ProcessTypes' /\ OpenTypes'
    BY <1>2, NextTypes DEF SendAlert, TypeInv, ProcessTypes, OpenTypes, names
  <2> QED BY <1>1, <2>4, <2>5 DEF TypeInv
<1>3. CASE /\ alerter' = [alerter EXCEPT ![a] = "ended"]
           /\ hot' = [hot EXCEPT ![a] = {}]
           /\ Closing
  <2>1. ProcessTypes' /\ OpenTypes'
    BY <1>3 DEF SendAlert, TypeInv, ProcessTypes, OpenTypes, names
  <2> QED BY <1>1, <1>3, <2>1, ClosingTypes DEF TypeInv
<1> QED BY <1>2, <1>3 DEF SendAlert

LEMMA AlerterTypes ==
  ASSUME TypeInv, NEW a \in Alerters, Alerter(a) \/ Measure(a)
  PROVE  TypeInv'
<1>1. CASE CleanUp(a) \/ MakeFifo(a) \/ Measure(a)
  <2>1. ProcessTypes' /\ OpenTypes'
    BY <1>1 DEF CleanUp, MakeFifo, Measure, TypeInv, ProcessTypes, OpenTypes, Fifos, names, fifo
  <2>2. FifoTypes' /\ StoreTypes'
    BY <1>1 DEF CleanUp, MakeFifo, Measure, TypeInv, FifoTypes, StoreTypes, fifo, bytes, store
  <2> QED BY <2>1, <2>2 DEF TypeInv
<1>2. CASE OpenToSend(a)
  <2>1. FifoTypes' /\ StoreTypes'
    BY <1>2 DEF OpenToSend, TypeInv, FifoTypes, StoreTypes, fifo, bytes, store
  <2>2. CASE NextSensor(a) /\ UNCHANGED to
    <3>1. ProcessTypes' /\ OpenTypes'
      BY <1>2, <2>2, NextTypes DEF OpenToSend, TypeInv, ProcessTypes, OpenTypes, names, fifo
    <3> QED BY <2>1, <3>1 DEF TypeInv
  <2>3. CASE path # Nothing /\ UNCHANGED hot
    <3>1. ProcessTypes' /\ OpenTypes'
      BY <1>2, <2>3 DEF OpenToSend, NextSensor, TypeInv, ProcessTypes, OpenTypes, names, fifo
    <3> QED BY <2>1, <3>1 DEF TypeInv
  <2> QED BY <1>2, <2>2, <2>3 DEF OpenToSend
<1> QED BY <1>1, <1>2, SendTypes DEF Alerter

LEMMA OutageTypes == ASSUME TypeInv, Outage PROVE TypeInv'
<1>1. ProcessTypes' /\ OpenTypes'
  BY DEF Outage, TypeInv, ProcessTypes, OpenTypes, Places, Servers, Alerters, Running, names, fifo
<1>2. <<>> \in Values
  BY DEF Values
<1>3. FifoTypes' /\ StoreTypes'
  BY <1>2 DEF Outage, TypeInv, FifoTypes, StoreTypes, fifo, bytes
<1> QED BY <1>1, <1>3 DEF TypeInv

THEOREM TypesHold == Spec => []TypeInv
<1>1. ASSUME TypeInv, [Next]_vars PROVE TypeInv'
  <2>1. CASE Next
    BY <1>1, <2>1, StartTypes, ListenTypes, LoopTypes, AlerterTypes, OutageTypes DEF Next
  <2>2. CASE UNCHANGED vars
    BY <1>1, <2>2 DEF vars, processes, names, fifo, bytes, store, TypeInv, ProcessTypes,
                      OpenTypes, FifoTypes, StoreTypes
  <2> QED BY <1>1, <2>1, <2>2
<1> QED BY <1>1, InitTypes, PTL DEF Spec

\* Every variable keeps its type: a server in its loop has a FIFO open, and so
\* has who reads or writes (alertInfection.c 23-52, server.cpp 71-78, 906-987).
THEOREM TypeCorrect == Spec => []TypeOK
<1>1. TypeInv => TypeOK
  BY DEF TypeInv, ProcessTypes, OpenTypes, StoreTypes, TypeOK, Places
<1> QED BY <1>1, TypesHold, PTL

-----------------------------------------------------------------------------
\* One server in its loop.

Started == Settled \/ \E s \in Servers : pc[s] \in Running

\* The port is that of the server that goes on behind it; and what takes a server
\* in its loop finds one, or the start over.
PortInv ==
  /\ \A s \in Servers : pc[s] \in {"alerts", "power", "rest"} => s = "main" /\ pc["rest"] = "unborn"
  /\ \A s \in Servers : pc[s] \in {"unix", "open"} \cup Running => tcp = s
  /\ (\E f \in Fifos : gone[f] # {}) => Started
  /\ (\E a \in Alerters : alerter[a] = "writing") => Started

\* Nothing is gone of the FIFO that a server in its loop has open.
GoneInv ==
  \A f \in Fifos : gone[f] # {} => \A s \in Servers : pc[s] \in Running => held[s] # f

\* A start leaves what a FIFO holds alone.
LEMMA StartPorts ==
  ASSUME TypeInv, PortInv, GoneInv, NEW s \in Servers, Start(s)
  PROVE  PortInv' /\ GoneInv'
<1> USE DEF Goto, Running, Servers
<1>1. pc[s] \in {"alerts", "power", "rest", "unlink", "tcp", "unix", "open"} /\ gone' = gone
  BY DEF Start, ForkAlerts, ForkPower, ForkRest, Unlink, BindTcp, BindUnix, OpenFifo, fifo, bytes
<1>2. ~Settled
  BY <1>1 DEF Settled
<1>3. CASE ~OpenFifo(s)
  <2>1. \A r \in Servers : /\ pc'[r] \in Running <=> pc[r] \in Running
                           /\ held'[r] = held[r]
    BY <1>3 DEF Start, ForkAlerts, ForkPower, ForkRest, Unlink, BindTcp, BindUnix, PortInv,
                TypeInv, ProcessTypes, fifo
  <2>2. \A a \in Alerters : alerter'[a] = "writing" => alerter[a] = "writing"
    BY <1>3 DEF Start, ForkAlerts, ForkPower, ForkRest, Unlink, BindTcp, BindUnix,
                TypeInv, ProcessTypes, Alerters
  <2>3. \A r \in Servers : pc'[r] \in {"unix", "open"} \cup Running => tcp' = r
    <3>1. CASE BindTcp(s)
      BY <3>1 DEF BindTcp, PortTaken, PortInv, TypeInv, ProcessTypes
    <3>2. CASE ~BindTcp(s)
      BY <1>3, <3>2 DEF Start, ForkAlerts, ForkPower, ForkRest, Unlink, BindUnix, PortInv,
                        TypeInv, ProcessTypes, names
    <3> QED BY <3>1, <3>2
  <2>4. Started => Started'
    BY <1>2, <2>1 DEF Started
  <2>5. \A r \in Servers : pc'[r] \in {"alerts", "power", "rest"} =>
                           r = "main" /\ pc'["rest"] = "unborn"
    BY <1>3 DEF Start, ForkAlerts, ForkPower, ForkRest, Unlink, BindTcp, BindUnix, PortInv,
                TypeInv, ProcessTypes
  <2> QED BY <1>1, <2>1, <2>2, <2>3, <2>4, <2>5 DEF PortInv, GoneInv
<1>4. CASE OpenFifo(s)
  <2>1. pc[s] = "open" /\ tcp = s /\ tcp' = tcp
    BY <1>4 DEF OpenFifo, PortInv, names
  <2>2. ~Started
    BY <1>2, <2>1 DEF PortInv, Started
  <2>3. \A f \in Fifos : gone[f] = {}
    BY <2>2 DEF PortInv
  <2>4. \A r \in Servers : pc'[r] \in {"unix", "open"} \cup Running => tcp' = r
    BY <1>4, <2>1 DEF OpenFifo, PortInv, TypeInv, ProcessTypes
  <2>5. Started' \/ alerter' = alerter
    BY <1>4 DEF OpenFifo, Started, TypeInv, ProcessTypes
  <2>6. \A r \in Servers : pc'[r] \in {"alerts", "power", "rest"} =>
                           r = "main" /\ pc'["rest"] = "unborn"
    BY <1>4, <2>1 DEF OpenFifo, PortInv, TypeInv, ProcessTypes
  <2> QED BY <1>1, <2>2, <2>3, <2>4, <2>5, <2>6 DEF PortInv, GoneInv
<1> QED BY <1>3, <1>4

\* What goes with the last process that has a FIFO open is not the server's.
LEMMA ClosingGone ==
  ASSUME GoneInv, Closing, UNCHANGED held,
         \A s \in Servers : pc'[s] \in Running => pc[s] \in Running
  PROVE  GoneInv'
<1> SUFFICES ASSUME NEW f \in Fifos, gone'[f] # {}, NEW s \in Servers, pc'[s] \in Running
             PROVE  held'[s] # f
  BY DEF GoneInv
<1>1. CASE IsOpen(f)'
  BY <1>1 DEF Closing, GoneInv
<1>2. CASE ~IsOpen(f)'
  BY <1>2 DEF IsOpen, HasReader
<1> QED BY <1>1, <1>2

LEMMA LoopPorts ==
  ASSUME TypeInv, PortInv, GoneInv, NEW s \in Servers, Loop(s) \/ OtherEvent(s)
  PROVE  PortInv' /\ GoneInv'
<1>1. pc[s] \in Running /\ UNCHANGED <<held, tcp>>
  BY DEF Loop, Wake, OpenAgain, ReadAlerts, Terminate, CloseAgain, TakeFrom, OtherEvent, Running,
         names, fifo
<1>2. CASE ~Terminate(s)
  <2>1. \E next \in Running : pc' = [pc EXCEPT ![s] = next]
    BY <1>1, <1>2 DEF Loop, Wake, OpenAgain, ReadAlerts, CloseAgain, OtherEvent, Goto, Running,
                processes, TypeInv, ProcessTypes
  <2>2. \A r \in Servers : /\ pc'[r] \in Running <=> pc[r] \in Running
                           /\ pc'[r] \in {"unix", "open"} => pc[r] \in {"unix", "open"}
    BY <1>1, <2>1 DEF TypeInv, ProcessTypes, Running
  <2>3. Started'
    BY <1>1, <2>2 DEF Started
  <2>4. GoneInv'
    <3>1. CASE CloseAgain(s)
      BY <1>1, <2>2, <3>1, ClosingGone DEF CloseAgain
    <3>2. CASE ~CloseAgain(s)
      <4>1. gone' = gone
        BY <1>2, <3>2 DEF Loop, Wake, OpenAgain, ReadAlerts, OtherEvent, fifo, bytes
      <4> QED BY <1>1, <2>2, <4>1 DEF GoneInv
    <3> QED BY <3>1, <3>2
  <2>5. \A r \in Servers : pc'[r] \in {"alerts", "power", "rest"} =>
                           r = "main" /\ pc'["rest"] = "unborn"
    BY <1>1, <2>1 DEF PortInv, TypeInv, ProcessTypes, Servers, Running
  <2> QED BY <1>1, <2>2, <2>3, <2>4, <2>5 DEF PortInv
<1>3. CASE Terminate(s)
  <2>1. /\ pc' = [pc EXCEPT ![s] = "exited"] /\ Settled
        /\ \A r \in Servers : pc[r] \in Running => r = s
    BY <1>1, <1>3 DEF Terminate, Goto, PortInv
  <2>2. Settled' /\ \A r \in Servers : pc'[r] \notin {"unix", "open"} \cup Running
    BY <2>1 DEF Settled, Running, TypeInv, ProcessTypes
  <2>3. \A r \in Servers : pc'[r] \notin {"alerts", "power", "rest"}
    BY <2>2 DEF Settled, Running
  <2> QED BY <2>2, <2>3 DEF PortInv, GoneInv, Started
<1> QED BY <1>2, <1>3

LEMMA AlerterPorts ==
  ASSUME TypeInv, PortInv, GoneInv, NEW a \in Alerters, Alerter(a) \/ Measure(a)
  PROVE  PortInv' /\ GoneInv'
<1>1. UNCHANGED <<pc, held, tcp>>
  BY DEF Alerter, CleanUp, MakeFifo, OpenToSend, SendAlert, Measure, names, fifo
<1>2. Started' <=> Started
  BY <1>1 DEF Started, Settled
<1>3. CASE SendAlert(a)
  <2>1. Started
    BY <1>3 DEF SendAlert, PortInv
  <2>2. GoneInv'
    <3>1. CASE Closing
      BY <1>1, <3>1, ClosingGone
    <3>2. CASE UNCHANGED gone
      BY <1>1, <3>2 DEF GoneInv
    <3> QED BY <1>3, <3>1, <3>2 DEF SendAlert
  <2> QED BY <1>1, <1>2, <2>1, <2>2 DEF PortInv
<1>4. CASE ~SendAlert(a)
  <2>1. gone' = gone
    BY <1>4 DEF Alerter, CleanUp, MakeFifo, OpenToSend, Measure, fifo, bytes
  <2>2. Started \/ \A b \in Alerters : alerter'[b] = "writing" => alerter[b] = "writing"
    BY <1>4 DEF Alerter, CleanUp, MakeFifo, OpenToSend, NextSensor, Measure, HasReader, Running,
                Started, TypeInv, ProcessTypes
  <2> QED BY <1>1, <1>2, <2>1, <2>2 DEF PortInv, GoneInv
<1> QED BY <1>3, <1>4

LEMMA OtherPorts ==
  ASSUME TypeInv, PortInv, GoneInv, Listen \/ Outage PROVE PortInv' /\ GoneInv'
<1>1. UNCHANGED <<held, tcp, gone>>
  BY DEF Listen, Outage, names, fifo, bytes
<1>2. \A r \in Servers : pc'[r] \in {"unix", "open"} \cup Running => pc'[r] = pc[r]
  BY DEF Listen, Outage, Goto, TypeInv, ProcessTypes, Servers, Running
<1>3. \A b \in Alerters : alerter'[b] = "writing" => alerter[b] = "writing"
  BY DEF Listen, Outage, TypeInv, ProcessTypes, Alerters
<1>4. Started => Started'
  <2>1. CASE Listen
    BY <2>1 DEF Listen, Goto, Started, Settled, TypeInv, ProcessTypes, Servers, Running
  <2>2. CASE Outage
    BY <2>2 DEF Outage, Started, Settled, TypeInv, ProcessTypes, Running
  <2> QED BY <2>1, <2>2
<1>5. \A r \in Servers : pc'[r] \in {"alerts", "power", "rest"} =>
                         r = "main" /\ pc'["rest"] = "unborn"
  BY DEF Listen, Outage, Goto, PortInv, TypeInv, ProcessTypes, Servers, Running
<1> QED BY <1>1, <1>2, <1>3, <1>4, <1>5 DEF PortInv, GoneInv

THEOREM PortsHold == Spec => [](PortInv /\ GoneInv)
<1>1. Init => PortInv /\ GoneInv
  BY DEF Init, PortInv, GoneInv, Servers, Alerters, Running
<1>2. ASSUME TypeInv, PortInv, GoneInv, [Next]_vars PROVE PortInv' /\ GoneInv'
  <2>1. CASE UNCHANGED vars
    BY <1>2, <2>1 DEF vars, processes, names, fifo, bytes, PortInv, GoneInv, Started, Settled
  <2> QED BY <1>2, <2>1, StartPorts, LoopPorts, AlerterPorts, OtherPorts DEF Next
<1> QED BY <1>1, <1>2, TypesHold, PTL DEF Spec

-----------------------------------------------------------------------------
\* What becomes of an alert.

\* The bytes written to a FIFO are numbered; it holds the last of them, to the
\* end of an alert.
Numbered(f) ==
  /\ \A n \in 1..Len(raised[f]) : raised[f][n].at = f /\ raised[f][n].nr = n
  /\ Len(content[f]) <= Len(raised[f])
  /\ \A j \in 1..Len(content[f]) : content[f][j] = raised[f][Taken(f) + j]
  /\ content[f] # <<>> => content[f][Len(content[f])].part = AlertSize

\* The others have been heard, every one and in their order, or they are gone.
AllHeard(f) == \A n \in 1..Taken(f) : n \in gone[f] \/ \E p \in Heard : At(p) = raised[f][n]

HeardWritten ==
  \A p \in Heard : At(p).nr \in 1..Taken(At(p).at) /\ At(p) = raised[At(p).at][At(p).nr]

HeardInOrder ==
  \A p, q \in Heard : At(p).at = At(q).at /\ Before(p, q) => At(p).nr < At(q).nr

\* What did not fill the buffer ends with an alert.
HeardToTheEnd ==
  \A i \in DOMAIN delivered :
    Len(delivered[i]) < BUFFER_SIZE => delivered[i][Len(delivered[i])].part = AlertSize

QueueInv ==
  /\ \A f \in Fifos : Numbered(f) /\ AllHeard(f)
  /\ HeardWritten
  /\ HeardInOrder
  /\ HeardToTheEnd

\* What is left of a sequence without its first elements.
LEMMA RestOf ==
  ASSUME NEW s \in Seq(Bytes), NEW t \in Nat, t <= Len(s)
  PROVE  LET rest == SubSeq(s, t + 1, Len(s))
         IN  /\ rest \in Seq(Bytes)
             /\ Len(rest) = Len(s) - t
             /\ \A j \in 1..(Len(s) - t) : rest[j] = s[t + j]
<1> DEFINE n == Len(s)
           rest == SubSeq(s, t + 1, n)
<1>1. n \in Nat /\ \A i \in 1..n : s[i] \in Bytes
  OBVIOUS
<1>2. rest = [i \in 1..(1 + n - (t + 1)) |-> s[i + (t + 1) - 1]]
  BY <1>1
<1>3. 1 + n - (t + 1) = n - t /\ n - t \in Nat
  BY <1>1
<1>4. \A i \in 1..(n - t) : i + (t + 1) - 1 = t + i /\ t + i \in 1..n
  BY <1>1
<1>5. rest = [i \in 1..(n - t) |-> s[t + i]]
  BY <1>2, <1>3, <1>4
<1>6. \A i \in 1..(n - t) : s[t + i] \in Bytes
  BY <1>1, <1>4
<1> DEFINE k == n - t
<1>7. k \in Nat /\ rest = [i \in 1..k |-> s[t + i]] /\ \A i \in 1..k : s[t + i] \in Bytes
  BY <1>3, <1>5, <1>6
<1> HIDE DEF n, k, rest
<1>8. rest \in Seq(Bytes) /\ Len(rest) = k /\ \A j \in 1..k : rest[j] = s[t + j]
  BY <1>7
<1> QED BY <1>8 DEF n, k, rest

\* A place in the broadcasts is a broadcast and a place in it.
LEMMA HeardPlaces ==
  ASSUME StoreTypes
  PROVE  /\ \A p \in Heard : /\ p[1] \in 1..Len(delivered)
                             /\ p[2] \in 1..Len(delivered[p[1]])
                             /\ p = <<p[1], p[2]>>
                             /\ At(p) \in Bytes
         /\ \A i \in 1..Len(delivered) : \A j \in 1..Len(delivered[i]) : <<i, j>> \in Heard
<1>1. DOMAIN delivered = 1..Len(delivered)
  BY DEF StoreTypes
<1>2. \A i \in 1..Len(delivered) : delivered[i] \in Values
  BY DEF StoreTypes
<1>3. \A i \in 1..Len(delivered) : /\ DOMAIN delivered[i] = 1..Len(delivered[i])
                                   /\ \A j \in 1..Len(delivered[i]) : delivered[i][j] \in Bytes
  BY <1>2 DEF Values
<1> QED BY <1>1, <1>3 DEF Heard, At

\* What was taken of a FIFO is a part of what was written to it.
LEMMA TakenOf ==
  ASSUME TypeInv, QueueInv, NEW f \in Fifos
  PROVE  /\ Len(content[f]) \in Nat /\ Len(raised[f]) \in Nat /\ Taken(f) \in Nat
         /\ Len(raised[f]) = Taken(f) + Len(content[f])
         /\ 1..Taken(f) \subseteq 1..Len(raised[f])
<1>1. Len(content[f]) \in Nat /\ Len(raised[f]) \in Nat /\ Len(content[f]) <= Len(raised[f])
  BY DEF TypeInv, FifoTypes, Values, QueueInv, Numbered
<1> DEFINE lc == Len(content[f])
           lr == Len(raised[f])
<1>2. Taken(f) = lr - lc
  BY DEF Taken
<1> HIDE DEF lc, lr
<1>3. lc \in Nat /\ lr \in Nat /\ lc <= lr
  BY <1>1 DEF lc, lr
<1>4. lr - lc \in Nat /\ lr = (lr - lc) + lc /\ 1..(lr - lc) \subseteq 1..lr
  BY <1>3
<1> QED BY <1>2, <1>3, <1>4 DEF lc, lr

LEMMA InitQueue == Init => QueueInv
<1> SUFFICES ASSUME Init PROVE QueueInv
  OBVIOUS
<1>1. Heard = {} /\ delivered = <<>>
  BY DEF Init, Heard
<1>2. \A f \in Fifos : raised[f] = <<>> /\ content[f] = <<>>
  BY DEF Init
<1>3. ASSUME NEW f \in Fifos PROVE Numbered(f) /\ AllHeard(f)
  <2>1. Len(raised[f]) = 0 /\ Len(content[f]) = 0
    BY <1>2
  <2>2. Taken(f) = 0
    BY <2>1 DEF Taken
  <2> QED BY <1>2, <2>1, <2>2 DEF Numbered, AllHeard
<1> QED BY <1>1, <1>3 DEF QueueInv, HeardWritten, HeardInOrder, HeardToTheEnd

\* Nothing is written, read or broadcast.
LEMMA StillQueue ==
  ASSUME QueueInv, UNCHANGED <<content, raised, gone, delivered>>
  PROVE  QueueInv'
<1>1. Heard' = Heard /\ \A p : At(p)' = At(p)
  BY DEF Heard, At
<1>2. \A f : Taken(f)' = Taken(f)
  BY DEF Taken
<1>3. ASSUME NEW f \in Fifos PROVE Numbered(f)'
  BY <1>2 DEF QueueInv, Numbered
<1>4. ASSUME NEW f \in Fifos PROVE AllHeard(f)'
  BY <1>1, <1>2 DEF QueueInv, AllHeard
<1>5. HeardWritten' /\ HeardInOrder' /\ HeardToTheEnd'
  BY <1>1, <1>2 DEF QueueInv, HeardWritten, HeardInOrder, HeardToTheEnd, Before
<1> QED BY <1>3, <1>4, <1>5 DEF QueueInv

\* A FIFO without its first bytes holds the last of those written to it.
LEMMA FewerNumbered ==
  ASSUME TypeInv, QueueInv, raised' = raised, NEW f \in Fifos, NEW k \in Nat,
         k <= Len(content[f]), content'[f] = SubSeq(content[f], k + 1, Len(content[f]))
  PROVE  Numbered(f)' /\ Taken(f)' = Taken(f) + k
<1> DEFINE c == content[f]
           d == content'[f]
           lc == Len(c)
           lr == Len(raised[f])
           t == Taken(f)
<1>1. c \in Seq(Bytes)
  BY DEF TypeInv, FifoTypes, Values
<1>2. /\ d \in Seq(Bytes) /\ Len(d) = lc - k
      /\ \A j \in 1..(lc - k) : d[j] = c[k + j]
  BY <1>1, RestOf
<1>3. lc \in Nat /\ lr \in Nat /\ t \in Nat /\ lr = t + lc
  BY TakenOf
<1>4. /\ \A j \in 1..lc : c[j] = raised[f][t + j]
      /\ \A n \in 1..lr : raised[f][n].at = f /\ raised[f][n].nr = n
      /\ c # <<>> => c[lc].part = AlertSize
  BY DEF QueueInv, Numbered
<1>5. Taken(f)' = lr - Len(d)
  BY DEF Taken
<1>6. d # <<>> => Len(d) # 0
  BY <1>2
<1>7. c # <<>> \/ lc = 0
  BY <1>1
<1>7a. k <= lc
  OBVIOUS
<1> HIDE DEF c, d, lc, lr, t
<1>8. Taken(f)' = t + k /\ Len(d) <= lr /\ lc - k \in Nat
  <2>1. lc - k \in Nat /\ lr - (lc - k) = t + k /\ lc - k <= lr
    BY <1>3, <1>7a
  <2> QED BY <1>2, <1>5, <2>1
<1>9. \A j \in 1..Len(d) : d[j] = raised[f][(t + k) + j]
  <2> SUFFICES ASSUME NEW j \in 1..Len(d) PROVE d[j] = raised[f][(t + k) + j]
    OBVIOUS
  <2>1. j \in 1..(lc - k) /\ k + j \in 1..lc /\ t + (k + j) = (t + k) + j
    BY <1>2, <1>3, <1>8
  <2> QED BY <1>2, <1>4, <2>1
<1>10. d # <<>> => d[Len(d)].part = AlertSize
  <2> SUFFICES ASSUME d # <<>> PROVE d[Len(d)].part = AlertSize
    OBVIOUS
  <2>1. Len(d) \in 1..(lc - k) /\ k + Len(d) = lc /\ lc # 0
    BY <1>2, <1>3, <1>6, <1>8
  <2> QED BY <1>2, <1>4, <1>7, <2>1
<1>11. Numbered(f)' <=> /\ \A n \in 1..lr : raised[f][n].at = f /\ raised[f][n].nr = n
                        /\ Len(d) <= lr
                        /\ \A j \in 1..Len(d) : d[j] = raised[f][Taken(f)' + j]
                        /\ d # <<>> => d[Len(d)].part = AlertSize
  BY DEF Numbered, d, lr
<1> QED BY <1>4, <1>8, <1>9, <1>10, <1>11 DEF t

\* Bytes that go unheard are gone.
LEMMA LoseQueue ==
  ASSUME TypeInv, QueueInv, raised' = raised, delivered' = delivered,
         NEW k \in [Fifos -> Nat],
         \A f \in Fifos : /\ k[f] <= Len(content[f])
                          /\ content'[f] = SubSeq(content[f], k[f] + 1, Len(content[f]))
                          /\ gone[f] \subseteq gone'[f]
                          /\ Taken(f) + 1 .. Taken(f) + k[f] \subseteq gone'[f]
  PROVE  QueueInv'
<1>1. Heard' = Heard /\ \A p : At(p)' = At(p)
  BY DEF Heard, At
<1>2. \A f \in Fifos : Numbered(f)' /\ Taken(f)' = Taken(f) + k[f] /\ k[f] \in Nat
  BY FewerNumbered
<1>3. \A f \in Fifos : Taken(f) \in Nat
  BY TakenOf
<1>4. ASSUME NEW f \in Fifos PROVE AllHeard(f)'
  <2> SUFFICES ASSUME NEW n \in 1..Taken(f)'
               PROVE  n \in gone'[f] \/ \E p \in Heard : At(p) = raised[f][n]
    BY <1>1 DEF AllHeard
  <2>1. n \in 1..Taken(f) \/ n \in Taken(f) + 1 .. Taken(f) + k[f]
    BY <1>2, <1>3
  <2> QED BY <2>1 DEF QueueInv, AllHeard
<1>5. HeardWritten'
  <2> SUFFICES ASSUME NEW p \in Heard
               PROVE  /\ At(p)'.nr \in 1..Taken(At(p).at)'
                      /\ At(p)' = raised'[At(p)'.at][At(p)'.nr]
    BY <1>1 DEF HeardWritten
  <2>1. PICK f \in Fifos, n \in Nat : At(p).at = f /\ At(p).nr = n
    BY HeardPlaces DEF TypeInv, Bytes
  <2>2. n \in 1..Taken(f) /\ At(p) = raised[f][n]
    BY <2>1 DEF QueueInv, HeardWritten
  <2>3. n \in 1..Taken(f)'
    BY <1>2, <1>3, <2>2
  <2>4. At(p)'.at = f /\ At(p)'.nr = n /\ Taken(At(p).at)' = Taken(f)'
    BY <1>1, <2>1
  <2> QED BY <1>1, <2>2, <2>3, <2>4
<1>6. HeardInOrder' /\ HeardToTheEnd'
  BY <1>1 DEF QueueInv, HeardInOrder, HeardToTheEnd, Before
<1> QED BY <1>2, <1>4, <1>5, <1>6 DEF QueueInv

\* What goes with the last process that has a FIFO open is gone.
LEMMA ClosingQueue ==
  ASSUME TypeInv, QueueInv, Closing, delivered' = delivered PROVE QueueInv'
<1> DEFINE k == [f \in Fifos |-> IF IsOpen(f)' THEN 0 ELSE Len(content[f])]
<1>1. \A f \in Fifos : content[f] \in Seq(Bytes) /\ Len(content[f]) \in Nat
  BY DEF TypeInv, FifoTypes, Values
<1>2. \A c \in Seq(Bytes) : /\ SubSeq(c, 0 + 1, Len(c)) = c
                            /\ SubSeq(c, Len(c) + 1, Len(c)) = <<>>
  OBVIOUS
<1>3. \A f \in Fifos : Taken(f) + Len(content[f]) = Len(raised[f]) /\ Taken(f) \in Nat
  BY TakenOf
<1>4. ASSUME NEW f \in Fifos
      PROVE  /\ k[f] \in Nat /\ k[f] <= Len(content[f])
             /\ content'[f] = SubSeq(content[f], k[f] + 1, Len(content[f]))
             /\ gone[f] \subseteq gone'[f]
             /\ Taken(f) + 1 .. Taken(f) + k[f] \subseteq gone'[f]
  <2>1. CASE IsOpen(f)'
    <3>1. k[f] = 0 /\ content'[f] = content[f] /\ gone'[f] = gone[f]
      BY <2>1 DEF Closing
    <3>2. Taken(f) + 1 .. Taken(f) + 0 = {}
      BY <1>3
    <3>3. SubSeq(content[f], k[f] + 1, Len(content[f])) = content[f]
      BY <1>1, <1>2, <3>1
    <3> HIDE DEF k
    <3> QED BY <1>1, <3>1, <3>2, <3>3
  <2>2. CASE ~IsOpen(f)'
    <3>1. /\ k[f] = Len(content[f]) /\ content'[f] = <<>>
          /\ gone'[f] = gone[f] \cup (Taken(f) + 1 .. Len(raised[f]))
      BY <2>2 DEF Closing
    <3>2. SubSeq(content[f], k[f] + 1, Len(content[f])) = <<>>
      BY <1>1, <1>2, <3>1
    <3>3. Taken(f) + k[f] = Len(raised[f])
      BY <1>3, <3>1
    <3> HIDE DEF k
    <3>4. k[f] \in Nat /\ k[f] <= Len(content[f])
      BY <1>1, <3>1
    <3>5. gone[f] \subseteq gone'[f] /\ Taken(f) + 1 .. Taken(f) + k[f] \subseteq gone'[f]
      BY <3>1, <3>3
    <3> QED BY <3>1, <3>2, <3>4, <3>5
  <2> QED BY <2>1, <2>2
<1>5. k \in [Fifos -> Nat]
  BY <1>1
<1>6. raised' = raised
  BY DEF Closing
<1> HIDE DEF k
<1> QED BY <1>4, <1>5, <1>6, LoseQueue

\* One sequence behind another.
LEMMA Joined ==
  ASSUME NEW s \in Seq(Bytes), NEW t \in Seq(Bytes)
  PROVE  /\ Len(s \o t) = Len(s) + Len(t)
         /\ \A k \in 1..Len(s) : (s \o t)[k] = s[k]
         /\ \A k \in 1..Len(t) : (s \o t)[Len(s) + k] = t[k]
<1>1. Len(s \o t) = Len(s) + Len(t)
  OBVIOUS
<1>2. ASSUME NEW k \in 1..Len(s) PROVE (s \o t)[k] = s[k]
  OBVIOUS
<1>3. ASSUME NEW k \in 1..Len(t) PROVE (s \o t)[Len(s) + k] = t[k]
  OBVIOUS
<1> QED BY <1>1, <1>2, <1>3

\* An alert that is written gets the next numbers and is heard later.
LEMMA SendQueue ==
  ASSUME TypeInv, QueueInv, NEW a \in Alerters, SendAlert(a)
  PROVE  QueueInv'
<1>1. delivered' = delivered
  BY DEF SendAlert, store
<1>2. CASE Closing
  BY <1>1, <1>2, ClosingQueue
<1>3. CASE /\ UNCHANGED gone
           /\ \E n \in hot[a] :
                /\ content' = [content EXCEPT ![to[a]] = @ \o AlertOf(to[a], n)]
                /\ raised' = [raised EXCEPT ![to[a]] = @ \o AlertOf(to[a], n)]
  <2> PICK g \in Fifos : g = to[a]
    BY DEF SendAlert, TypeInv, OpenTypes
  <2> PICK n \in hot[a] : /\ content' = [content EXCEPT ![g] = @ \o AlertOf(g, n)]
                          /\ raised' = [raised EXCEPT ![g] = @ \o AlertOf(g, n)]
    BY <1>3
  <2> DEFINE c == content[g]
             r == raised[g]
             new == AlertOf(g, n)
             lc == Len(c)
             lr == Len(r)
             m == AlertSize
             c2 == c \o new
             r2 == r \o new
  <2>1. c \in Seq(Bytes) /\ r \in Seq(Bytes) /\ new \in Seq(Bytes) /\ Len(new) = m
    BY AlertTypes DEF TypeInv, ProcessTypes, FifoTypes, Values
  <2>2. \A k \in 1..m : new[k].at = g /\ new[k].nr = lr + k /\ new[k].part = k
    BY DEF AlertOf
  <2>3. /\ content'[g] = c2 /\ raised'[g] = r2
        /\ \A f \in Fifos \ {g} : content'[f] = content[f] /\ raised'[f] = raised[f]
    BY DEF TypeInv, FifoTypes
  <2>4. lc \in Nat /\ lr \in Nat /\ Taken(g) \in Nat /\ lr = Taken(g) + lc
    BY TakenOf
  <2>5. /\ \A k \in 1..lc : c[k] = r[Taken(g) + k]
        /\ \A k \in 1..lr : r[k].at = g /\ r[k].nr = k
    BY DEF QueueInv, Numbered
  <2>6. m \in Nat /\ m # 0
    BY SizesAssumption
  <2> HIDE DEF new
  <2>7. /\ Len(c2) = lc + m /\ Len(r2) = lr + m
        /\ \A k \in 1..lc : c2[k] = c[k]
        /\ \A k \in 1..lr : r2[k] = r[k]
        /\ \A k \in 1..m : c2[lc + k] = new[k] /\ r2[lr + k] = new[k]
    BY <2>1, Joined
  <2>8. Taken(g)' = Len(raised'[g]) - Len(content'[g])
    BY DEF Taken
  <2>9. \A f \in Fifos \ {g} : Taken(f)' = Taken(f)
    BY <2>3 DEF Taken
  <2> HIDE DEF c, r, lc, lr, m, c2, r2
  <2>10. Taken(g)' = Taken(g)
    <3>1. (lr + m) - (lc + m) = lr - lc /\ lr - lc = Taken(g)
      BY <2>4, <2>6
    <3> QED BY <2>3, <2>7, <2>8, <3>1
  <2>11. \A f \in Fifos : /\ Taken(f)' = Taken(f)
                          /\ \A k \in 1..Taken(f) : k \in 1..Len(raised[f])
    BY <2>9, <2>10, TakenOf
  <2>12. \A f \in Fifos : \A k \in 1..Len(raised[f]) : raised'[f][k] = raised[f][k]
    BY <2>3, <2>7 DEF lr, r
  <2>13. Numbered(g)'
    <3>1. Len(c2) = lc + m /\ Len(r2) = lr + m /\ lc + m <= lr + m
      BY <2>3, <2>4, <2>6, <2>7
    <3>2. \A k \in 1..(lr + m) : r2[k].at = g /\ r2[k].nr = k
      <4> SUFFICES ASSUME NEW k \in 1..(lr + m) PROVE r2[k].at = g /\ r2[k].nr = k
        OBVIOUS
      <4>1. CASE k \in 1..lr
        BY <2>3, <2>5, <2>7, <4>1
      <4>2. CASE k \notin 1..lr
        <5>1. k - lr \in 1..m /\ lr + (k - lr) = k
          BY <2>4, <2>6, <4>2
        <5>2. r2[k] = new[k - lr]
          BY <2>3, <2>7, <5>1
        <5> QED BY <2>2, <5>1, <5>2
      <4> QED BY <4>1, <4>2
    <3>3. \A k \in 1..(lc + m) : c2[k] = r2[Taken(g) + k]
      <4> SUFFICES ASSUME NEW k \in 1..(lc + m) PROVE c2[k] = r2[Taken(g) + k]
        OBVIOUS
      <4>1. CASE k \in 1..lc
        <5>1. Taken(g) + k \in 1..lr
          BY <2>4, <4>1
        <5> QED BY <2>3, <2>5, <2>7, <4>1, <5>1
      <4>2. CASE k \notin 1..lc
        <5>1. k - lc \in 1..m /\ lc + (k - lc) = k /\ lr + (k - lc) = Taken(g) + k
          BY <2>4, <2>6, <4>2
        <5> QED BY <2>3, <2>7, <5>1
      <4> QED BY <4>1, <4>2
    <3>4. c2[lc + m].part = m
      <4>1. m \in 1..m
        BY <2>6
      <4> QED BY <2>2, <2>3, <2>7, <4>1
    <3>5. Numbered(g)' <=> /\ \A k \in 1..Len(r2) : r2[k].at = g /\ r2[k].nr = k
                           /\ Len(c2) <= Len(r2)
                           /\ \A k \in 1..Len(c2) : c2[k] = r2[Taken(g)' + k]
                           /\ c2 # <<>> => c2[Len(c2)].part = m
      BY <2>3 DEF Numbered, m
    <3> QED BY <2>10, <3>1, <3>2, <3>3, <3>4, <3>5
  <2>14. ASSUME NEW f \in Fifos \ {g} PROVE Numbered(f)'
    <3>1. content'[f] = content[f] /\ raised'[f] = raised[f] /\ Taken(f)' = Taken(f)
      BY <2>3, <2>9
    <3>2. Numbered(f)
      BY DEF QueueInv
    <3> QED BY <3>1, <3>2 DEF Numbered
  <2>15. Heard' = Heard /\ \A p : At(p)' = At(p)
    BY <1>1 DEF Heard, At
  <2>16. ASSUME NEW f \in Fifos PROVE AllHeard(f)'
    <3>1. AllHeard(f) /\ gone' = gone
      BY <1>3 DEF QueueInv
    <3>2. \A k \in 1..Taken(f) : raised'[f][k] = raised[f][k]
      BY <2>11, <2>12
    <3>3. Taken(f)' = Taken(f)
      BY <2>11
    <3> QED BY <2>15, <3>1, <3>2, <3>3 DEF AllHeard
  <2>17. HeardWritten'
    <3> SUFFICES ASSUME NEW p \in Heard
                 PROVE  /\ At(p)'.nr \in 1..Taken(At(p).at)'
                        /\ At(p)' = raised'[At(p)'.at][At(p)'.nr]
      BY <2>15 DEF HeardWritten
    <3>1. PICK f \in Fifos, k \in Nat : At(p).at = f /\ At(p).nr = k
      BY HeardPlaces DEF TypeInv, Bytes
    <3>2. k \in 1..Taken(f) /\ At(p) = raised[f][k]
      BY <3>1 DEF QueueInv, HeardWritten
    <3>3. k \in 1..Taken(f)' /\ At(p) = raised'[f][k]
      BY <2>11, <2>12, <3>2
    <3>4. At(p)'.at = f /\ At(p)'.nr = k /\ Taken(At(p).at)' = Taken(f)'
      BY <2>15, <3>1
    <3> QED BY <2>15, <3>3, <3>4
  <2>18. HeardInOrder' /\ HeardToTheEnd'
    BY <1>1, <2>15 DEF QueueInv, HeardInOrder, HeardToTheEnd, Before
  <2> QED BY <2>13, <2>14, <2>16, <2>17, <2>18 DEF QueueInv
<1> QED BY <1>2, <1>3 DEF SendAlert

\* What a read takes is the first of what is in the FIFO.
LEMMA ReadFirst ==
  ASSUME TypeInv, NEW f \in Fifos, content[f] # <<>>
  PROVE  /\ Reads(f) \in Nat \ {0} /\ Reads(f) <= Len(content[f])
         /\ FirstOf(f) \in Values /\ Len(FirstOf(f)) = Reads(f)
         /\ \A j \in 1..Reads(f) : FirstOf(f)[j] = content[f][j]
         /\ Reads(f) < BUFFER_SIZE => Reads(f) = Len(content[f])
<1>1. content[f] \in Seq(Bytes) /\ Len(content[f]) \in Nat
  BY DEF TypeInv, FifoTypes, Values
<1>2. Reads(f) \in 1..Len(content[f]) /\ FirstOf(f) \in Values
  BY Reading
<1>3. Reads(f) < BUFFER_SIZE => Reads(f) = Len(content[f])
  BY <1>1, SizesAssumption DEF Reads
<1>4. \A c \in Seq(Bytes) : \A k \in 1..Len(c) :
        /\ Len(SubSeq(c, 1, k)) = k
        /\ \A j \in 1..k : SubSeq(c, 1, k)[j] = c[j]
  OBVIOUS
<1> QED BY <1>1, <1>2, <1>3, <1>4 DEF FirstOf

\* A read takes the first of a FIFO and broadcasts it behind what was heard.
LEMMA ReadQueue ==
  ASSUME TypeInv, QueueInv, NEW s \in Servers, ReadAlerts(s)
  PROVE  QueueInv'
<1> PICK g \in Fifos : g = from[s]
  BY DEF ReadAlerts, TakeFrom, TypeInv, OpenTypes
<1>1. /\ content[g] # <<>> /\ content' = Without(g)
      /\ delivered' = Append(delivered, FirstOf(g))
      /\ raised' = raised /\ gone' = gone
  BY DEF ReadAlerts, TakeFrom
<1> PICK d \in Nat : d = Len(delivered)
  BY DEF TypeInv, StoreTypes
<1> DEFINE v == FirstOf(g)
           k == Reads(g)
           t == Taken(g)
<1>2. /\ k \in Nat \ {0} /\ k <= Len(content[g])
      /\ v \in Values /\ DOMAIN v = 1..k /\ Len(v) = k
      /\ \A j \in 1..k : v[j] = content[g][j]
      /\ k < BUFFER_SIZE => k = Len(content[g])
  <2>1. v \in Values => DOMAIN v = 1..Len(v)
    BY DEF Values
  <2> QED BY <1>1, <2>1, ReadFirst
<1>3. /\ content'[g] = SubSeq(content[g], k + 1, Len(content[g]))
      /\ \A f \in Fifos \ {g} : content'[f] = content[f]
  BY <1>1 DEF Without, TypeInv, FifoTypes
<1> HIDE DEF v, k
<1>4. Numbered(g)' /\ Taken(g)' = t + k
  BY <1>1, <1>2, <1>3, FewerNumbered
<1>5. \A f \in Fifos \ {g} : Numbered(f)' /\ Taken(f)' = Taken(f)
  <2> SUFFICES ASSUME NEW f \in Fifos \ {g} PROVE Numbered(f)' /\ Taken(f)' = Taken(f)
    OBVIOUS
  <2>1. content'[f] = content[f] /\ raised' = raised
    BY <1>1, <1>3
  <2>2. Taken(f)' = Taken(f)
    BY <2>1 DEF Taken
  <2>3. Numbered(f)
    BY DEF QueueInv
  <2> QED BY <2>1, <2>2, <2>3 DEF Numbered
<1>6. /\ Len(content[g]) \in Nat /\ Len(raised[g]) \in Nat /\ t \in Nat
      /\ Len(raised[g]) = t + Len(content[g])
  BY TakenOf
<1>7. /\ \A j \in 1..Len(content[g]) : content[g][j] = raised[g][t + j]
      /\ \A n \in 1..Len(raised[g]) : raised[g][n].at = g /\ raised[g][n].nr = n
      /\ content[g][Len(content[g])].part = AlertSize
  BY <1>1 DEF QueueInv, Numbered
<1> HIDE DEF t
<1>8. \A j \in 1..k : v[j] = raised[g][t + j] /\ v[j].at = g /\ v[j].nr = t + j
  <2> SUFFICES ASSUME NEW j \in 1..k
               PROVE  v[j] = raised[g][t + j] /\ v[j].at = g /\ v[j].nr = t + j
    OBVIOUS
  <2>1. j \in 1..Len(content[g]) /\ t + j \in 1..Len(raised[g])
    BY <1>2, <1>6
  <2> QED BY <1>2, <1>7, <2>1
<1>9. /\ Len(delivered') = d + 1
      /\ delivered'[d + 1] = v
      /\ \A i \in 1..d : delivered'[i] = delivered[i]
      /\ DOMAIN delivered = 1..d /\ DOMAIN delivered' = 1..(d + 1)
  BY <1>1, <1>2 DEF TypeInv, StoreTypes, v
<1>10. /\ \A p \in Heard : p \in Heard' /\ At(p)' = At(p) /\ p[1] \in 1..d
       /\ \A p \in Heard' : \/ p \in Heard
                            \/ p[1] = d + 1 /\ p[2] \in 1..k /\ At(p)' = v[p[2]]
       /\ \A j \in 1..k : <<d + 1, j>> \in Heard' /\ At(<<d + 1, j>>)' = v[j]
  <2>1. 1..(d + 1) = (1..d) \cup {d + 1} /\ d + 1 \notin 1..d
    OBVIOUS
  <2>2. Heard = UNION {{i} \X DOMAIN delivered[i] : i \in 1..d}
    BY <1>9 DEF Heard
  <2>3. Heard' = UNION {{i} \X DOMAIN delivered'[i] : i \in 1..(d + 1)}
    BY <1>9 DEF Heard
  <2>4. ASSUME NEW p \in Heard PROVE p \in Heard' /\ At(p)' = At(p) /\ p[1] \in 1..d
    <3>1. PICK i \in 1..d : p \in {i} \X DOMAIN delivered[i]
      BY <2>2
    <3>2. delivered'[i] = delivered[i] /\ i \in 1..(d + 1) /\ p[1] = i
      BY <1>9, <2>1, <3>1
    <3> QED BY <2>3, <3>1, <3>2 DEF At
  <2>5. ASSUME NEW p \in Heard', p \notin Heard
        PROVE  p[1] = d + 1 /\ p[2] \in 1..k /\ At(p)' = v[p[2]]
    <3>1. PICK i \in 1..(d + 1) : p \in {i} \X DOMAIN delivered'[i]
      BY <2>3
    <3>2. i \notin 1..d
      BY <1>9, <2>2, <2>5, <3>1
    <3>3. i = d + 1 /\ p[1] = i /\ p[2] \in 1..k
      BY <1>2, <1>9, <2>1, <3>1, <3>2
    <3> QED BY <1>9, <3>3 DEF At
  <2>6. ASSUME NEW j \in 1..k PROVE <<d + 1, j>> \in Heard' /\ At(<<d + 1, j>>)' = v[j]
    <3>1. <<d + 1, j>> \in {d + 1} \X DOMAIN delivered'[d + 1] /\ d + 1 \in 1..(d + 1)
      BY <1>2, <1>9, <2>1
    <3> QED BY <1>9, <2>3, <3>1 DEF At
  <2> QED BY <2>4, <2>5, <2>6
<1>11. \A p \in Heard : /\ At(p).at \in Fifos
                        /\ At(p).nr \in 1..Taken(At(p).at)
                        /\ At(p) = raised[At(p).at][At(p).nr]
  BY HeardPlaces DEF TypeInv, Bytes, QueueInv, HeardWritten
<1>12. ASSUME NEW f \in Fifos PROVE AllHeard(f)'
  <2>1. CASE f # g
    BY <1>1, <1>5, <1>10, <2>1 DEF QueueInv, AllHeard
  <2>2. ASSUME NEW n \in 1..(t + k)
        PROVE  n \in gone[g] \/ \E p \in Heard' : At(p)' = raised[g][n]
    <3>1. CASE n \in 1..t
      BY <1>10, <3>1 DEF QueueInv, AllHeard, t
    <3>2. CASE n \notin 1..t
      <4>1. PICK j \in 1..k : n = t + j
        <5>1. n - t \in 1..k /\ n = t + (n - t)
          BY <1>2, <1>6, <3>2
        <5> QED BY <5>1
      <4>2. <<d + 1, j>> \in Heard' /\ At(<<d + 1, j>>)' = raised[g][n]
        BY <1>8, <1>10, <4>1
      <4> QED BY <4>2
    <3> QED BY <3>1, <3>2
  <2>3. CASE f = g
    BY <1>1, <1>4, <2>2, <2>3 DEF AllHeard
  <2> QED BY <2>1, <2>3
<1>13. HeardWritten'
  <2> SUFFICES ASSUME NEW p \in Heard'
               PROVE  /\ At(p)'.nr \in 1..Taken(At(p).at)'
                      /\ At(p)' = raised[At(p)'.at][At(p)'.nr]
    BY <1>1 DEF HeardWritten
  <2>1. CASE p \in Heard
    <3>1. PICK f \in Fifos, n \in Int :
            At(p).at = f /\ At(p).nr = n /\ n \in 1..Taken(f) /\ At(p) = raised[f][n]
      BY <1>11, <2>1
    <3>2. n \in 1..Taken(f)'
      <4>1. CASE f = g
        BY <1>2, <1>4, <1>6, <3>1, <4>1 DEF t
      <4>2. CASE f # g
        BY <1>5, <3>1, <4>2
      <4> QED BY <4>1, <4>2
    <3>3. At(p)' = At(p) /\ Taken(At(p).at)' = Taken(f)'
      BY <1>10, <2>1, <3>1
    <3> QED BY <3>1, <3>2, <3>3
  <2>2. CASE p[1] = d + 1 /\ p[2] \in 1..k /\ At(p)' = v[p[2]]
    <3>1. At(p)'.at = g /\ At(p)'.nr = t + p[2] /\ At(p)' = raised[g][t + p[2]]
      BY <1>8, <2>2
    <3>2. t + p[2] \in 1..(t + k)
      BY <1>2, <1>6, <2>2
    <3>3. Taken(At(p).at)' = Taken(g)'
      BY <3>1
    <3> QED BY <1>4, <3>1, <3>2, <3>3
  <2> QED BY <1>10, <2>1, <2>2
<1>14. HeardInOrder'
  <2> SUFFICES ASSUME NEW p \in Heard', NEW q \in Heard',
                      At(p)'.at = At(q)'.at, Before(p, q)
               PROVE  At(p)'.nr < At(q)'.nr
    BY DEF HeardInOrder, Before
  <2>1. CASE p \in Heard /\ q \in Heard
    BY <1>10, <2>1 DEF QueueInv, HeardInOrder
  <2>2. CASE p \in Heard /\ q[1] = d + 1 /\ q[2] \in 1..k /\ At(q)' = v[q[2]]
    <3>1. At(p)' = At(p) /\ At(q)'.at = g /\ At(q)'.nr = t + q[2]
      BY <1>8, <1>10, <2>2
    <3>2. At(p).nr \in 1..t
      BY <1>11, <2>2, <3>1 DEF t
    <3> QED BY <1>6, <2>2, <3>1, <3>2
  <2>3. CASE /\ p[1] = d + 1 /\ p[2] \in 1..k /\ At(p)' = v[p[2]]
             /\ q[1] = d + 1 /\ q[2] \in 1..k /\ At(q)' = v[q[2]]
    <3>1. At(p)'.nr = t + p[2] /\ At(q)'.nr = t + q[2] /\ p[2] < q[2]
      BY <1>8, <2>3 DEF Before
    <3> QED BY <1>2, <1>6, <2>3, <3>1
  <2>4. CASE p[1] = d + 1 /\ q \in Heard
    <3>1. q[1] \in 1..d
      BY <1>10, <2>4
    <3>2. ~(p[1] < q[1] \/ p[1] = q[1])
      BY <2>4, <3>1
    <3> QED BY <3>2 DEF Before
  <2> QED BY <1>10, <2>1, <2>2, <2>3, <2>4
<1>15. HeardToTheEnd'
  <2>1. k < BUFFER_SIZE => v[k].part = AlertSize
    <3>1. k \in 1..k
      BY <1>2
    <3> QED BY <1>2, <1>7, <3>1
  <2>2. \A i \in 1..d :
          Len(delivered[i]) < BUFFER_SIZE => delivered[i][Len(delivered[i])].part = AlertSize
    BY <1>9 DEF QueueInv, HeardToTheEnd
  <2>3. \A i \in 1..(d + 1) : i \in 1..d \/ i = d + 1
    OBVIOUS
  <2> QED BY <1>2, <1>9, <2>1, <2>2, <2>3 DEF HeardToTheEnd
<1> QED BY <1>4, <1>5, <1>12, <1>13, <1>14, <1>15 DEF QueueInv

\* What a server took when it terminated is gone.
LEMMA TerminateQueue ==
  ASSUME TypeInv, QueueInv, NEW s \in Servers, Terminate(s)
  PROVE  QueueInv'
<1> PICK g \in Fifos : g = from[s]
  BY DEF Terminate, TakeFrom, TypeInv, OpenTypes
<1>1. /\ content[g] # <<>> /\ content' = Without(g) /\ Reads(g) = BUFFER_SIZE
      /\ gone' = [gone EXCEPT ![g] = @ \cup Taken(g) + 1 .. Taken(g) + BUFFER_SIZE]
      /\ raised' = raised /\ delivered' = delivered
  BY DEF Terminate, TakeFrom, store
<1> DEFINE k == [f \in Fifos |-> IF f = g THEN Reads(g) ELSE 0]
<1>2. Reads(g) \in Nat /\ Reads(g) <= Len(content[g])
  BY <1>1, ReadFirst
<1>3. \A c \in Seq(Bytes) : SubSeq(c, 0 + 1, Len(c)) = c
  OBVIOUS
<1>4. ASSUME NEW f \in Fifos
      PROVE  /\ k[f] \in Nat /\ k[f] <= Len(content[f])
             /\ content'[f] = SubSeq(content[f], k[f] + 1, Len(content[f]))
             /\ gone[f] \subseteq gone'[f]
             /\ Taken(f) + 1 .. Taken(f) + k[f] \subseteq gone'[f]
  <2>1. CASE f = g
    BY <1>1, <1>2, <2>1 DEF Without, TypeInv, FifoTypes
  <2>2. CASE f # g
    <3>1. k[f] = 0 /\ content'[f] = content[f] /\ gone'[f] = gone[f]
      BY <1>1, <2>2 DEF Without, TypeInv, FifoTypes
    <3>2. Taken(f) + 1 .. Taken(f) + 0 = {} /\ Len(content[f]) \in Nat
      BY TakenOf
    <3>3. content[f] \in Seq(Bytes)
      BY DEF TypeInv, FifoTypes, Values
    <3>4. SubSeq(content[f], k[f] + 1, Len(content[f])) = content[f]
      BY <1>3, <3>1, <3>3
    <3> HIDE DEF k
    <3> QED BY <3>1, <3>2, <3>4
  <2> QED BY <2>1, <2>2
<1>5. k \in [Fifos -> Nat]
  BY <1>2
<1> HIDE DEF k
<1> QED BY <1>1, <1>4, <1>5, LoseQueue

THEOREM QueueHolds == Spec => []QueueInv
<1>1. ASSUME TypeInv, QueueInv, [Next]_vars PROVE QueueInv'
  <2>1. CASE UNCHANGED <<content, raised, gone, delivered>>
    BY <1>1, <2>1, StillQueue
  <2>2. \/ UNCHANGED <<content, raised, gone, delivered>>
        \/ \E a \in Alerters : SendAlert(a)
        \/ \E s \in Servers : ReadAlerts(s) \/ Terminate(s) \/ CloseAgain(s)
    BY <1>1 DEF Next, vars, names, fifo, bytes, store, processes, Start, ForkAlerts, ForkPower,
                ForkRest, Unlink, BindTcp, BindUnix, OpenFifo, Listen, Loop, Wake, OpenAgain,
                OtherEvent, Alerter, CleanUp, MakeFifo, OpenToSend, Measure, Outage
  <2>3. ASSUME NEW s \in Servers, CloseAgain(s) PROVE QueueInv'
    BY <1>1, <2>3, ClosingQueue DEF CloseAgain, store
  <2> QED BY <1>1, <2>1, <2>2, <2>3, SendQueue, ReadQueue, TerminateQueue
<1> QED BY <1>1, InitQueue, TypesHold, PTL DEF Spec

\* Whatever the FIFO's name stands for when the server opens it again, whichever
\* of two servers and two alert processes run, and wherever a read is cut: of the
\* alerts written to the FIFO that a server in its loop has open no byte is lost,
\* repeated or put before another (alertInfection.c 23-52, server.cpp 906-987).
THEOREM NothingIsLostOrTwice == Spec => []NothingLostOrTwice
<1>1. ASSUME TypeInv, QueueInv, GoneInv PROVE NothingLostOrTwice
  <2>1. ASSUME NEW f \in Fifos
        PROVE  content[f] = SubSeq(raised[f], Taken(f) + 1, Len(raised[f]))
    <3> DEFINE c == content[f]
               r == raised[f]
               t == Taken(f)
               rest == SubSeq(r, t + 1, Len(r))
    <3>1. c \in Seq(Bytes) /\ r \in Seq(Bytes)
      BY <1>1 DEF TypeInv, FifoTypes, Values
    <3>2. Len(c) \in Nat /\ Len(r) \in Nat /\ t \in Nat /\ Len(r) = t + Len(c)
      BY <1>1, TakenOf
    <3>3. \A j \in 1..Len(c) : c[j] = r[t + j]
      BY <1>1 DEF QueueInv, Numbered
    <3> HIDE DEF c, r, t
    <3>4. t <= Len(r) /\ Len(r) - t = Len(c)
      BY <3>2
    <3>5. /\ rest \in Seq(Bytes)
          /\ Len(rest) = Len(r) - t
          /\ \A j \in 1..(Len(r) - t) : rest[j] = r[t + j]
      BY <3>1, <3>2, <3>4, RestOf
    <3> HIDE DEF rest
    <3>6. c = rest
      BY <3>1, <3>3, <3>4, <3>5
    <3> QED BY <3>6 DEF c, r, t, rest
  <2> QED BY <1>1, <2>1 DEF QueueInv, GoneInv, AllHeard, HeardWritten, HeardInOrder,
                            HeardToTheEnd, NothingLostOrTwice
<1> QED BY <1>1, TypesHold, PortsHold, QueueHolds, PTL

-----------------------------------------------------------------------------
\* What the summary counts.

\* A record for each broadcast of an entry, but those whose session failed.
CountInv ==
  \A e \in ToSet(Sensors) :
    /\ Cardinality(Holding(records, e)) <= Cardinality(Holding(delivered, e))
    /\ Cardinality(Holding(delivered, e)) <= Cardinality(Holding(records, e)) + failures

\* One value more is counted once, if it contains the entry.
LEMMA Counting ==
  ASSUME NEW values \in Seq(Values), NEW v \in Values, NEW e
  PROVE  /\ Cardinality(Holding(values, e)) \in Nat
         /\ Cardinality(Holding(Append(values, v), e))
              = Cardinality(Holding(values, e)) + (IF Has(v, e) THEN 1 ELSE 0)
<1> DEFINE n == Len(values)
<1>1. n \in Nat /\ DOMAIN values = 1..n
  OBVIOUS
<1>2. IsFiniteSet(Holding(values, e)) /\ n + 1 \notin Holding(values, e)
  <2>1. IsFiniteSet(1..n)
    BY <1>1, FS_Interval
  <2>2. Holding(values, e) \subseteq 1..n
    BY <1>1 DEF Holding
  <2> QED BY <1>1, <2>1, <2>2, FS_Subset
<1>3. Holding(Append(values, v), e)
        = Holding(values, e) \cup (IF Has(v, e) THEN {n + 1} ELSE {})
  <2>1. /\ DOMAIN Append(values, v) = 1..(n + 1)
        /\ \A i \in 1..n : Append(values, v)[i] = values[i]
        /\ Append(values, v)[n + 1] = v
    OBVIOUS
  <2>2. 1..(n + 1) = (1..n) \cup {n + 1}
    BY <1>1
  <2> QED BY <1>1, <2>1, <2>2 DEF Holding
<1>4. Cardinality(Holding(values, e)) \in Nat
  BY <1>2, FS_CardinalityType
<1>5. CASE Has(v, e)
  BY <1>2, <1>3, <1>4, <1>5, FS_AddElement
<1>6. CASE ~Has(v, e)
  BY <1>3, <1>4, <1>6
<1> QED BY <1>4, <1>5, <1>6

LEMMA ReadCounts ==
  ASSUME TypeInv, CountInv, NEW s \in Servers, ReadAlerts(s)
  PROVE  CountInv'
<1> DEFINE v == FirstOf(from[s])
<1>1. v \in Values /\ records \in Seq(Values) /\ delivered \in Seq(Values) /\ failures \in Nat
  BY Reading, BoundsAssumption DEF ReadAlerts, TakeFrom, TypeInv, OpenTypes, StoreTypes
<1> SUFFICES ASSUME NEW e \in ToSet(Sensors)
             PROVE  /\ Cardinality(Holding(records', e)) <= Cardinality(Holding(delivered', e))
                    /\ Cardinality(Holding(delivered', e))
                         <= Cardinality(Holding(records', e)) + failures'
  BY DEF CountInv, Holding
<1>2. /\ delivered' = Append(delivered, v)
      /\ \/ records' = Append(records, v) /\ failures' = failures
         \/ records' = records /\ failures' = failures + 1
  BY DEF ReadAlerts, StoreAlert
<1> HIDE DEF v
<1>3. /\ Cardinality(Holding(records, e)) \in Nat
      /\ Cardinality(Holding(Append(records, v), e))
           = Cardinality(Holding(records, e)) + (IF Has(v, e) THEN 1 ELSE 0)
      /\ Cardinality(Holding(delivered, e)) \in Nat
      /\ Cardinality(Holding(Append(delivered, v), e))
           = Cardinality(Holding(delivered, e)) + (IF Has(v, e) THEN 1 ELSE 0)
  BY <1>1, Counting
<1>4. /\ Cardinality(Holding(records, e)) <= Cardinality(Holding(delivered, e))
      /\ Cardinality(Holding(delivered, e)) <= Cardinality(Holding(records, e)) + failures
  BY DEF CountInv
<1>5. CASE records' = Append(records, v) /\ failures' = failures
  BY <1>1, <1>2, <1>3, <1>4, <1>5
<1>6. CASE records' = records /\ failures' = failures + 1
  BY <1>1, <1>2, <1>3, <1>4, <1>6
<1> QED BY <1>2, <1>5, <1>6

THEOREM CountsHold == Spec => []CountInv
<1>1. Init => CountInv
  <2>1. Cardinality({}) = 0
    BY FS_EmptySet
  <2>2. Init => failures = 0 /\ \A e : Holding(records, e) = {} /\ Holding(delivered, e) = {}
    BY DEF Init, Holding
  <2> QED BY <2>1, <2>2 DEF CountInv
<1>2. ASSUME TypeInv, CountInv, [Next]_vars PROVE CountInv'
  <2>1. CASE UNCHANGED <<records, delivered, failures>>
    BY <1>2, <2>1 DEF CountInv, Holding
  <2>2. \/ UNCHANGED <<records, delivered, failures>>
        \/ \E s \in Servers : ReadAlerts(s)
    BY <1>2 DEF Next, vars, names, fifo, store, processes, Start, ForkAlerts, ForkPower,
                ForkRest, Unlink, BindTcp, BindUnix, OpenFifo, Listen, Loop, Wake, OpenAgain,
                Terminate, CloseAgain, OtherEvent, Alerter, CleanUp, MakeFifo, OpenToSend,
                SendAlert, Measure, Outage
  <2> QED BY <1>2, <2>1, <2>2, ReadCounts
<1> QED BY <1>1, <1>2, TypesHold, PTL DEF Spec

\* The summary's count of an entry is at most one above the broadcasts that
\* contain its name, for the last event, and below them by the sessions that
\* failed at most, however alerts were read together or cut
\* (server.cpp 919-944, 1117-1130, myRocksDbWrapper.cpp 79-101).
THEOREM SummaryIsWithinOne == Spec => []SummaryWithinOne
<1>1. ASSUME TypeInv, CountInv PROVE SummaryWithinOne
  <2> SUFFICES ASSUME NEW e \in ToSet(Sensors)
               PROVE  CountAt(e) \in Cardinality(Holding(delivered, e)) - failures
                                     .. Cardinality(Holding(delivered, e)) + 1
    BY DEF SummaryWithinOne
  <2>1. /\ Cardinality(Holding(records, e)) \in Nat
        /\ Cardinality(Holding(delivered, e)) \in Nat
        /\ failures \in Nat
    BY <1>1, Counting, BoundsAssumption DEF TypeInv, StoreTypes
  <2>2. /\ Cardinality(Holding(records, e)) <= Cardinality(Holding(delivered, e))
        /\ Cardinality(Holding(delivered, e)) <= Cardinality(Holding(records, e)) + failures
    BY <1>1 DEF CountInv
  <2>3. CountAt(e) \in {Cardinality(Holding(records, e)), Cardinality(Holding(records, e)) + 1}
    BY <2>1 DEF CountAt
  <2> QED BY <2>1, <2>2, <2>3
<1> QED BY <1>1, TypesHold, CountsHold, PTL
=============================================================================
