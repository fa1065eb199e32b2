--------------------------- MODULE ServerDbProofs ---------------------------
(***************************************************************************)
(* Theorems of ServerDb, for every set of deltas and every bound.          *)
(***************************************************************************)
EXTENDS ServerDb, TLAPS

\* Where the thread may be with which job, and what start-up's job holds.
Flow ==
  /\ lock = Server => pc \in Sessions
  /\ pc = "history" => job.kind \in DOMAIN IdSeries
  /\ pc \in {"food", "medicine"} => job.kind \in Updates
  /\ pc \in {"lastSupplies", "lastAlert", "fork", "init", "down"} => job = BootJob
  /\ pc = "event" => job = BootJob \/ job.kind = "status"
  /\ pc # "down" => epoch > 0

Typed == TypeOK /\ Flow

-----------------------------------------------------------------------------
\* What one put may write, by session.
LEMMA PutNames ==
  ASSUME Typed, lock = Server, step \in 1..Len(Puts)
  PROVE  /\ Puts[step] \in RecordKinds \cup FixedNames
         /\ Puts[step] \in RecordKinds => pc = "history" /\ Puts[step] = IdSeries[job.kind]
         /\ Puts[step] = "last_supplies" /\ pc # "lastSupplies"
              => pc = "history" /\ job.kind \in Updates
         /\ Puts[step] = "last_alert" /\ pc # "lastAlert"
              => pc = "history" /\ job.kind = "alert"
<1>1. pc \in Sessions
  BY DEF Typed, Flow
<1>2. CASE pc # "history"
  BY <1>1, <1>2 DEF Puts, Sessions, RecordKinds, FixedNames
<1>3. CASE pc = "history"
  <2>1. Puts = HistoryPuts[job.kind] /\ job.kind \in DOMAIN IdSeries
    BY <1>3 DEF Puts, Typed, Flow
  <2>2. CASE job.kind = "tcpUpdate"
    <3>1. Puts = <<"supplies", "latestSupplies", "last_supplies", "lastEvent">>
      BY <2>1, <2>2 DEF HistoryPuts
    <3> QED BY <1>3, <2>2, <3>1 DEF IdSeries, RecordKinds, FixedNames, Updates
  <2>3. CASE job.kind = "udpUpdate"
    <3>1. Puts = <<"last_supplies", "supplies", "lastEvent">>
      BY <2>1, <2>3 DEF HistoryPuts
    <3> QED BY <1>3, <2>3, <3>1 DEF IdSeries, RecordKinds, FixedNames, Updates
  <2>4. CASE job.kind = "alert"
    <3>1. Puts = <<"alert", "lastEvent", "last_alert">>
      BY <2>1, <2>4 DEF HistoryPuts
    <3> QED BY <1>3, <2>4, <3>1 DEF IdSeries, RecordKinds, FixedNames, Updates
  <2>5. CASE job.kind = "powerFailure"
    <3>1. Puts = <<"emergencyNotification", "lastEvent">>
      BY <2>1, <2>5 DEF HistoryPuts
    <3> QED BY <1>3, <2>5, <3>1 DEF IdSeries, RecordKinds, FixedNames, Updates
  <2> QED BY <2>1, <2>2, <2>3, <2>4, <2>5 DEF IdSeries
<1> QED BY <1>2, <1>3

\* Writing adds the key and leaves the others as they were.
LEMMA WriteEffect ==
  ASSUME NEW k, NEW v
  PROVE  /\ DOMAIN Write(k, v) = DOMAIN db \cup {k}
         /\ Write(k, v)[k] = v
         /\ \A x \in DOMAIN db : x # k => Write(k, v)[x] = db[x]
         /\ Write(k, v) = [x \in DOMAIN Write(k, v) |-> Write(k, v)[x]]
  BY DEF Write

\* The first state has its types.
LEMMA InitTyped == Init => Typed
<1> SUFFICES ASSUME Init PROVE Typed
  OBVIOUS
<1>1. DOMAIN db = {} /\ db = [k \in DOMAIN db |-> db[k]]
  BY DEF Init
<1>2. DbTypeOK
  BY <1>1 DEF DbTypeOK
<1>4. FlagsTypeOK
  BY DEF Init, FlagsTypeOK
<1>5. ThreadTypeOK
  BY DEF Init, ThreadTypeOK, Free, Server, Sessions, Jobs, JobKinds, RecordKinds, BootJob
<1>3. Flow
  BY DEF Init, Flow, Free, Server, Updates, BootJob
<1> QED BY <1>2, <1>3, <1>4, <1>5 DEF Typed, TypeOK

-----------------------------------------------------------------------------
\* So has the state a death leaves.
LEMMA DieTyped == Typed /\ Die => Typed'
<1> SUFFICES ASSUME Typed, Die PROVE Typed'
  OBVIOUS
<1>1. DbTypeOK'
  BY DEF Typed, TypeOK, DbTypeOK, Die
<1>2. FlagsTypeOK'
  BY DEF Die, FlagsTypeOK
<1>3. ThreadTypeOK'
  BY DEF Typed, TypeOK, ThreadTypeOK, Die, Free, Server, Sessions, Jobs, JobKinds, BootJob
<1>4. Flow'
  BY DEF Typed, TypeOK, ThreadTypeOK, Flow, Die, Free, Server, Sessions, Updates
<1> QED BY <1>1, <1>2, <1>3, <1>4 DEF Typed, TypeOK

\* Drawing an id changes the job's id alone.
LEMMA DrawIdEffect ==
  ASSUME Typed, DrawId
  PROVE  /\ job' \in Jobs
         /\ gen' \in [RecordKinds -> Nat]
         /\ job'.kind = job.kind
         /\ pc # "history" => UNCHANGED <<job, gen>>
<1>1. CASE pc = "history"
  <2> DEFINE s == IdSeries[job.kind]
  <2>1. s \in RecordKinds
    BY <1>1 DEF Typed, Flow, IdSeries, RecordKinds
  <2>2. job' = [job EXCEPT !.id = gen[s]] /\ gen' = [gen EXCEPT ![s] = gen[s] + 1]
    BY <1>1 DEF DrawId, CounterAfter
  <2> QED BY <1>1, <2>1, <2>2 DEF Typed, TypeOK, ThreadTypeOK, Jobs
<1>2. CASE pc # "history"
  BY <1>2 DEF DrawId, Typed, TypeOK, ThreadTypeOK
<1> QED BY <1>1, <1>2

\* The end of a session that l leaves the lock to.
LEMMA AdvanceTyped ==
  ASSUME Typed, NEW l \in {Free} \cup rest, Advance(l), pc \in Sessions,
         job' \in Jobs, job'.kind = job.kind,
         pc # "history" => UNCHANGED job,
         gen' \in [RecordKinds -> Nat], step' \in Nat \ {0},
         UNCHANGED <<epoch, jobs, torn>>
  PROVE  ThreadTypeOK' /\ Flow' /\ stopping' \in BOOLEAN
<1>1. rest' \subseteq rest /\ lock' \in {Free} \cup rest'
  BY DEF Advance
<1>2. pc' = Following
  BY DEF Advance
<1>3. pc' \in Sessions \cup {"fork", "idle"}
  BY <1>2 DEF Following, Sessions
<1>4. ThreadTypeOK'
  BY <1>1, <1>3 DEF Typed, TypeOK, ThreadTypeOK
<1>5. lock' # Server
  BY <1>1 DEF Typed, TypeOK, ThreadTypeOK, Free, Server
<1>6. Flow'
  BY <1>2, <1>3, <1>5 DEF Typed, Flow, Following, Sessions, Updates, IdSeries, BootJob
<1>7. stopping' \in BOOLEAN
  BY DEF Advance, Typed, TypeOK, FlagsTypeOK
<1> QED BY <1>4, <1>6, <1>7

\* Writing a value of its key's kind keeps the database typed.
LEMMA WriteTyped ==
  ASSUME DbTypeOK, NEW k \in Key, NEW v \in ValuesOf(k.kind), db' = Write(k, v)
  PROVE  DbTypeOK'
<1>1. /\ DOMAIN db' = DOMAIN db \cup {k}
      /\ db'[k] = v
      /\ \A x \in DOMAIN db : x # k => db'[x] = db[x]
      /\ db' = [x \in DOMAIN db' |-> db'[x]]
  BY DEF Write
<1>2. \A x \in DOMAIN db' : db'[x] \in ValuesOf(x.kind)
  BY <1>1 DEF DbTypeOK
<1> QED BY <1>1, <1>2 DEF DbTypeOK

\* What is put has the type of its key.
LEMMA PutTyped ==
  ASSUME Typed, NEW name \in RecordKinds \cup FixedNames
  PROVE  PutKey(name) \in Key /\ PutValue(name) \in ValuesOf(PutKey(name).kind)
<1>1. job.kind \in JobKinds /\ job.id \in Nat /\ job.food \in Nat /\ job.medicine \in Nat
  BY DEF Typed, TypeOK, ThreadTypeOK, Jobs
<1>2. epoch \in Nat
  BY DEF Typed, TypeOK, ThreadTypeOK
<1>3. PutKey(name) \in Key /\ PutKey(name).kind = name
  BY <1>1, <1>2 DEF PutKey, Record, Fixed, Key
<1>4. PutValue(name) \in ValuesOf(name)
  BY <1>1 DEF PutValue, ValuesOf, RecordKinds, FixedNames, Stocks
<1> QED BY <1>3, <1>4

\* The effect of a put: nothing, or the write of the next key of the session.
LEMMA PutEffect ==
  ASSUME Typed, Put
  PROVE  /\ step \in 1..Len(Puts)
         /\ \/ OnlyIfMissing /\ Has(Puts[step]) /\ db' = db
            \/ db' = Write(PutKey(Puts[step]), PutValue(Puts[step]))
  BY DEF Put

-----------------------------------------------------------------------------
\* Every step keeps the types and the flow of the thread.
LEMMA StepTyped == Typed /\ [Next]_vars => Typed'
<1> SUFFICES ASSUME Typed, [Next]_vars PROVE Typed'
  OBVIOUS
<1>0. DbTypeOK /\ FlagsTypeOK /\ ThreadTypeOK /\ Flow
  BY DEF Typed, TypeOK
<1>1. CASE Start
  <2>1. DbTypeOK' /\ FlagsTypeOK'
    BY <1>0, <1>1 DEF Start, DbTypeOK, FlagsTypeOK
  <2>2. ThreadTypeOK'
    BY <1>0, <1>1 DEF Start, ThreadTypeOK, Sessions
  <2>3. Flow'
    BY <1>0, <1>1 DEF Start, ThreadTypeOK, Flow, Sessions, Free, Server
  <2> QED BY <2>1, <2>2, <2>3 DEF Typed, TypeOK
<1>2. CASE Fork
  <2>1. DbTypeOK' /\ FlagsTypeOK'
    BY <1>0, <1>2 DEF Fork, DbTypeOK, FlagsTypeOK
  <2>2. ThreadTypeOK'
    BY <1>0, <1>2 DEF Fork, ThreadTypeOK, Flow, Sessions
  <2>3. Flow'
    BY <1>0, <1>2 DEF Fork, ThreadTypeOK, Flow, Sessions, Updates, IdSeries
  <2> QED BY <2>1, <2>2, <2>3 DEF Typed, TypeOK
<1>3. CASE Open
  <2>1. DbTypeOK' /\ FlagsTypeOK'
    BY <1>0, <1>3 DEF Open, DbTypeOK, FlagsTypeOK
  <2>2. /\ job' \in Jobs /\ gen' \in [RecordKinds -> Nat] /\ job'.kind = job.kind
        /\ (pc # "history" => UNCHANGED <<job, gen>>)
    BY <1>3, DrawIdEffect DEF Open
  <2>3. ThreadTypeOK'
    BY <1>0, <1>3, <2>2 DEF Open, ThreadTypeOK
  <2>4. Flow'
    BY <1>0, <1>3, <2>2 DEF Open, Flow, Updates, IdSeries
  <2> QED BY <2>1, <2>3, <2>4 DEF Typed, TypeOK
<1>4. CASE Refuse
  <2>1. CASE pc \in {"lastSupplies", "lastAlert"}
    BY <1>4, <2>1, DieTyped DEF Refuse
  <2>2. CASE pc \notin {"lastSupplies", "lastAlert"}
    <3>1. /\ DrawId /\ Advance(lock) /\ whole' = (whole /\ job.kind \notin Updates)
          /\ pc \in Sessions /\ lock > Server /\ UNCHANGED <<db, step, epoch, jobs, torn>>
      BY <1>4, <2>2 DEF Refuse
    <3>2. lock \in {Free} \cup rest
      BY <1>0, <3>1 DEF ThreadTypeOK, Free, Server
    <3>3. ThreadTypeOK' /\ Flow' /\ stopping' \in BOOLEAN
      BY <1>0, <3>1, <3>2, DrawIdEffect, AdvanceTyped DEF ThreadTypeOK
    <3>4. whole' \in BOOLEAN
      BY <3>1
    <3>5. DbTypeOK'
      BY <1>0, <3>1 DEF DbTypeOK
    <3> QED BY <3>3, <3>4, <3>5 DEF Typed, TypeOK, FlagsTypeOK
  <2> QED BY <2>1, <2>2
<1>5. CASE Put
  <2>1. DbTypeOK'
    BY <1>0, <1>5, PutEffect, PutNames, PutTyped, WriteTyped DEF Put, DbTypeOK
  <2>2. FlagsTypeOK'
    BY <1>0, <1>5 DEF Put, FlagsTypeOK
  <2>3. ThreadTypeOK'
    BY <1>0, <1>5 DEF Put, ThreadTypeOK
  <2>4. Flow'
    BY <1>0, <1>5 DEF Put, Flow
  <2> QED BY <2>1, <2>2, <2>3, <2>4 DEF Typed, TypeOK
<1>6. CASE Close
  <2>1. /\ Advance(Free) /\ pc \in Sessions /\ step' = 1
        /\ UNCHANGED <<db, job, epoch, jobs, torn, whole>>
    BY <1>0, <1>6 DEF Close, Flow
  <2>2. LastId("supplies") \in Nat /\ LastId("alert") \in Nat
    BY <1>0 DEF DbTypeOK, LastId, LastKey, Has, Val, Fixed, ValuesOf
  <2>3. gen' \in [RecordKinds -> Nat]
    BY <1>0, <1>6, <2>2 DEF Close, ThreadTypeOK, RestoredId, RecordKinds
  <2>4. ThreadTypeOK' /\ Flow' /\ stopping' \in BOOLEAN
    BY <1>0, <2>1, <2>3, AdvanceTyped DEF ThreadTypeOK
  <2>5. DbTypeOK' /\ whole' \in BOOLEAN
    BY <1>0, <2>1 DEF DbTypeOK, FlagsTypeOK
  <2> QED BY <2>4, <2>5 DEF Typed, TypeOK, FlagsTypeOK
<1>7. CASE Stop \/ ReadMissingStock \/ Crash
  BY <1>7, DieTyped DEF Stop, ReadMissingStock, Crash
<1>8. ASSUME NEW kind \in JobKinds, NEW first \in Sessions, NEW f \in Nat, NEW m \in Nat,
             Take(kind, first, f, m), whole' \in BOOLEAN,
             \/ kind \in Updates /\ first = "food"
             \/ kind = "status" /\ first = "event"
             \/ kind \in {"alert", "powerFailure"} /\ first = "history"
      PROVE  Typed'
  <2>1. DbTypeOK' /\ FlagsTypeOK'
    BY <1>0, <1>8 DEF Take, DbTypeOK, FlagsTypeOK
  <2>2. ThreadTypeOK'
    BY <1>0, <1>8 DEF Take, ThreadTypeOK, Jobs
  <2>3. Flow'
    BY <1>0, <1>8 DEF Take, Flow, Updates, IdSeries, Sessions
  <2> QED BY <2>1, <2>2, <2>3 DEF Typed, TypeOK
<1>9. ASSUME NEW kind \in Updates, Update(kind) PROVE Typed'
  <2>1. Val("food") \in Nat /\ Val("medicine") \in Nat
    BY <1>0, <1>9 DEF Update, HasStock, Has, Val, DbTypeOK, Fixed, ValuesOf
  <2>2. \A n \in Nat, d \in Int : Added(n, d) \in Nat
    BY DEF Added
  <2>3. PICK f \in FoodDeltas, m \in MedicineDeltas :
          Take(kind, "food", Added(Val("food"), f), Added(Val("medicine"), m))
    BY <1>9 DEF Update
  <2>4. Added(Val("food"), f) \in Nat /\ Added(Val("medicine"), m) \in Nat
    BY <2>1, <2>2, DeltasAssumption
  <2>5. whole' \in BOOLEAN
    BY <1>9 DEF Update
  <2> QED BY <1>8, <1>9, <2>3, <2>4, <2>5 DEF Updates, JobKinds, Sessions
<1>10. CASE TcpUpdate \/ UdpUpdate
  BY <1>9, <1>10 DEF TcpUpdate, UdpUpdate, Updates
<1>11. CASE Status \/ Alert \/ PowerFailure
  <2>1. whole' \in BOOLEAN
    BY <1>0, <1>11 DEF Status, Alert, PowerFailure, FlagsTypeOK
  <2> QED BY <1>8, <1>11, <2>1 DEF Status, Alert, PowerFailure, JobKinds, Sessions
<1>12. CASE \E e \in rest : RestOpen(e)
  <2>1. DbTypeOK' /\ FlagsTypeOK'
    BY <1>0, <1>12 DEF RestOpen, DbTypeOK, FlagsTypeOK
  <2>2. ThreadTypeOK'
    BY <1>0, <1>12 DEF RestOpen, ThreadTypeOK
  <2>3. Flow'
    BY <1>0, <1>12 DEF RestOpen, ThreadTypeOK, Flow, Server
  <2> QED BY <2>1, <2>2, <2>3 DEF Typed, TypeOK
<1>13. CASE RestClose
  <2>1. DbTypeOK' /\ FlagsTypeOK'
    BY <1>0, <1>13 DEF RestClose, DbTypeOK, FlagsTypeOK
  <2>2. ThreadTypeOK'
    BY <1>0, <1>13 DEF RestClose, ThreadTypeOK
  <2>3. Flow'
    BY <1>0, <1>13 DEF RestClose, Flow, Server, Free
  <2> QED BY <2>1, <2>2, <2>3 DEF Typed, TypeOK
<1>14. CASE UNCHANGED vars
  <2>1. DbTypeOK' /\ FlagsTypeOK'
    BY <1>0, <1>14 DEF vars, DbTypeOK, FlagsTypeOK
  <2>2. ThreadTypeOK' /\ Flow'
    BY <1>0, <1>14 DEF vars, ThreadTypeOK, Flow
  <2> QED BY <2>1, <2>2 DEF Typed, TypeOK
<1> QED
  BY <1>1, <1>2, <1>3, <1>4, <1>5, <1>6, <1>7, <1>10, <1>11, <1>12, <1>13, <1>14
     DEF Next, ServerStep, Handler

\* Type correctness: whatever is asked of the server, refused and crashed, every
\* key in the database holds a value of its kind and the thread's state is one
\* the code has.
THEOREM TypeCorrect == Spec => []TypeOK
<1>1. Init => Typed
  BY InitTyped
<1>2. Typed /\ [Next]_vars => Typed'
  BY StepTyped
<1>3. Typed => TypeOK
  BY DEF Typed
<1> QED BY <1>1, <1>2, <1>3, PTL DEF Spec
=============================================================================
