---------------------------- MODULE HistoryProofs ----------------------------
(***************************************************************************)
(* The ids and the records of ServerDb: theorems for any number of runs,   *)
(* jobs, refusals and deaths.                                              *)
(*                                                                         *)
(* UniqueIds is not inductive: why the next id is new depends on where the *)
(* thread is.  While the server serves, its generator is ahead of every    *)
(* record; across a restart the stored last id covers every record, except *)
(* between the put of a record and the put of its last id; and in a        *)
(* session that is still to put its record, the id drawn is ahead.         *)
(***************************************************************************)
EXTENDS ServerDbProofs

\* The keys the open session is still to put.
Pending(name) == lock = Server /\ \E i \in 1..Len(Puts) : i >= step /\ Puts[i] = name

\* The generator of a series has been set in this run.
Restored(s) ==
  /\ pc \notin {"down", "lastSupplies"}
  /\ s = "alert" => pc # "lastAlert"

Covered(s) == \A k \in RecordsOf(s) : k.id <= LastId(s)
Ahead(s)   == \A k \in RecordsOf(s) : k.id < job.id
Unique(s)  == \A k1, k2 \in RecordsOf(s) : k1.id = k2.id => k1 = k2

\* A history session that is still to put the last id of s.
Uncovered(s) == pc = "history" /\ Pending(LastKey[s])

IdsOf(s) ==
  /\ Unique(s)
  /\ ~Uncovered(s) => Covered(s)
  /\ Uncovered(s) => \A k \in RecordsOf(s) : k.id <= job.id
  /\ Pending(s) => Ahead(s) /\ Covered(s)
  /\ (Pending(s) /\ ~Uncovered(s)) => LastId(s) = job.id

\* What a generator that was set gives next is new.
AheadOf(s) ==
  Restored(s) => LastId(s) < gen[s] /\ \A k \in RecordsOf(s) : k.id < gen[s]

\* The id a session uses was drawn from the generator.
Drawn == pc = "history" /\ lock = Server => job.id < gen[IdSeries[job.kind]]

Ids == Drawn /\ \A s \in Series \ torn : IdsOf(s) /\ AheadOf(s)

\* Within a run the generator alone keeps keys apart; the records of an earlier
\* run have an earlier timestamp.
FreshOf(s) ==
  \A k \in RecordsOf(s) :
    /\ k.at <= epoch
    /\ k.at = epoch => k.id < gen[s]
    /\ (pc # "down" /\ ~Restored(s)) => k.at < epoch
    /\ (Pending(s) /\ k.at = epoch) => k.id < job.id

Fresh == \A s \in RecordKinds : FreshOf(s)

\* The record of a TCP update is there, and the newest, when its latest value is
\* about to be put.
LatestBacked ==
  Pending("latestSupplies") /\ ~Pending("supplies") =>
    /\ Record("supplies", job.id) \in DOMAIN db
    /\ db[Record("supplies", job.id)] = [food |-> job.food, medicine |-> job.medicine]
    /\ \A j \in RecordsOf("supplies") :
         j = Record("supplies", job.id) \/ Log!Before(j, Record("supplies", job.id))

IInv == Typed /\ Ids /\ Fresh /\ LatestBacked /\ LatestIsRecorded

-----------------------------------------------------------------------------
\* The sequences of puts: no key twice; a record only in a history session, of
\* the series its id is drawn from, and a last id with it; a latest value after
\* its record; for UDP the last id before the record.
PutsSound ==
  /\ Len(Puts) \in Nat
  /\ \A i, j \in 1..Len(Puts) : Puts[i] = Puts[j] => i = j
  /\ \A i \in 1..Len(Puts) :
       Puts[i] \in RecordKinds => pc = "history" /\ Puts[i] = IdSeries[job.kind]
  /\ \A i \in 1..Len(Puts), s \in Series :
       pc = "history" /\ Puts[i] = LastKey[s] => s = IdSeries[job.kind]
  /\ \A i \in 1..Len(Puts), s \in Series :
       Puts[i] = s => \E j \in 1..Len(Puts) : Puts[j] = LastKey[s]
  /\ \A i \in 1..Len(Puts) :
       Puts[i] = "latestSupplies" => \E j \in 1..Len(Puts) : j < i /\ Puts[j] = "supplies"
  /\ \A i \in 1..Len(Puts) :
       pc = "history" /\ job.kind = "udpUpdate" /\ Puts[i] = "last_supplies"
         => \E j \in 1..Len(Puts) : i < j /\ Puts[j] = "supplies"

\* Every session's sequence is sound (supplies_module.c 7-71, 203-272; server.cpp
\* 344-347, 511-513, 941-943).
LEMMA PutsAreSound == ASSUME Flow, pc \in Sessions PROVE PutsSound
<1> USE DEF Series, LastKey, RecordKinds
<1>1. CASE pc = "history"
  <2>1. Puts = HistoryPuts[job.kind] /\ job.kind \in DOMAIN IdSeries
    BY <1>1 DEF Puts, Flow
  <2>2. CASE job.kind = "tcpUpdate"
    <3>1. Puts = <<"supplies", "latestSupplies", "last_supplies", "lastEvent">>
      BY <2>1, <2>2 DEF HistoryPuts
    <3> QED BY <1>1, <2>2, <3>1 DEF IdSeries, PutsSound
  <2>3. CASE job.kind = "udpUpdate"
    <3>1. Puts = <<"last_supplies", "supplies", "lastEvent">>
      BY <2>1, <2>3 DEF HistoryPuts
    <3> QED BY <1>1, <2>3, <3>1 DEF IdSeries, PutsSound
  <2>4. CASE job.kind = "alert"
    <3>1. Puts = <<"alert", "lastEvent", "last_alert">>
      BY <2>1, <2>4 DEF HistoryPuts
    <3> QED BY <1>1, <2>4, <3>1 DEF IdSeries, PutsSound
  <2>5. CASE job.kind = "powerFailure"
    <3>1. Puts = <<"emergencyNotification", "lastEvent">>
      BY <2>1, <2>5 DEF HistoryPuts
    <3> QED BY <1>1, <2>5, <3>1 DEF IdSeries, PutsSound
  <2> QED BY <2>1, <2>2, <2>3, <2>4, <2>5 DEF IdSeries
<1>2. CASE pc = "init"
  <2>1. Puts = <<"food", "medicine">>
    BY <1>2 DEF Puts
  <2> QED BY <1>2, <2>1 DEF PutsSound
<1>3. CASE pc \notin {"init", "history"}
  <2>1. PICK n \in FixedNames \ {"latestSupplies"} : Puts = <<n>>
    BY <1>3 DEF Puts, Sessions, FixedNames
  <2> QED BY <1>3, <2>1 DEF PutsSound, FixedNames
<1> QED BY <1>1, <1>2, <1>3

-----------------------------------------------------------------------------
\* What is read of the database has the types the comparisons need.
LEMMA Numbers ==
  ASSUME Typed
  PROVE  /\ \A s : \A k \in RecordsOf(s) : k \in Key /\ k.id \in Nat /\ k.at \in Nat
         /\ \A s \in Series : LastId(s) \in Nat
         /\ \A s \in RecordKinds : gen[s] \in Nat
         /\ job.id \in Nat /\ epoch \in Nat
         /\ \A s \in Series : s \in RecordKinds
<1>1. \A s : \A k \in RecordsOf(s) : k \in Key /\ k.id \in Nat /\ k.at \in Nat
  BY DEF Typed, TypeOK, DbTypeOK, RecordsOf, Key
<1>2. \A s \in Series : LastId(s) \in Nat
  BY DEF Typed, TypeOK, DbTypeOK, LastId, LastKey, Series, Has, Val, Fixed, ValuesOf
<1>3. \A s \in RecordKinds : gen[s] \in Nat
  BY DEF Typed, TypeOK, ThreadTypeOK
<1>4. job.id \in Nat /\ epoch \in Nat
  BY DEF Typed, TypeOK, ThreadTypeOK, Jobs
<1>5. \A s \in Series : s \in RecordKinds
  BY DEF Series, LastKey, RecordKinds
<1> QED BY <1>1, <1>2, <1>3, <1>4, <1>5

\* A put takes its key off what is pending and leaves the rest.
LEMMA PutPending ==
  ASSUME Typed, Put
  PROVE  /\ Pending(Puts[step])
         /\ \A n : Pending(n)' <=> (Pending(n) /\ n # Puts[step])
         /\ PutsSound
<1>1. lock = Server /\ step \in 1..Len(Puts) /\ step' = step + 1
  BY DEF Put
<1>2. Flow /\ pc \in Sessions
  BY <1>1 DEF Typed, Flow
<1>3. PutsSound
  BY <1>2, PutsAreSound
<1>4. lock' = lock /\ Puts' = Puts
  BY DEF Put, Puts
<1>5. Len(Puts) \in Nat /\ \A i, j \in 1..Len(Puts) : Puts[i] = Puts[j] => i = j
  BY <1>3 DEF PutsSound
<1>6. Pending(Puts[step])
  BY <1>1 DEF Pending
<1>7. ASSUME NEW n PROVE Pending(n)' <=> (Pending(n) /\ n # Puts[step])
  <2>1. Pending(n)' <=> \E i \in 1..Len(Puts) : i >= step + 1 /\ Puts[i] = n
    BY <1>1, <1>4 DEF Pending
  <2>2. ASSUME NEW i \in 1..Len(Puts) PROVE i >= step + 1 <=> (i >= step /\ i # step)
    BY <1>1, <1>5
  <2>3. \A i \in 1..Len(Puts) : Puts[i] = n => (i # step <=> n # Puts[step])
    BY <1>1, <1>5
  <2> QED BY <1>1, <2>1, <2>2, <2>3 DEF Pending
<1> QED BY <1>3, <1>6, <1>7

\* What a put does to the records of a series and to its last id.
LEMMA PutRecords ==
  ASSUME Typed, Put, NEW s \in RecordKinds
  PROVE  /\ RecordsOf(s)' = IF Puts[step] = s THEN RecordsOf(s) \cup {Record(s, job.id)}
                                              ELSE RecordsOf(s)
<1> DEFINE name == Puts[step]
<1>1. lock = Server /\ step \in 1..Len(Puts)
  BY DEF Put
<1>2. name \in RecordKinds => pc = "history"
  BY <1>1, PutNames
<1>3. CASE OnlyIfMissing /\ Has(name) /\ db' = db
  BY <1>2, <1>3 DEF OnlyIfMissing, RecordsOf
<1>4. CASE db' = Write(PutKey(name), PutValue(name))
  <2>1. DOMAIN db' = DOMAIN db \cup {PutKey(name)}
    BY <1>4 DEF Write
  <2>2. PutKey(name).kind = name
    BY DEF PutKey, Record, Fixed
  <2>3. name = s => PutKey(name) = Record(s, job.id)
    BY DEF PutKey
  <2> QED BY <2>1, <2>2, <2>3 DEF RecordsOf
<1> QED BY <1>3, <1>4, PutEffect

\* A last id is written by its history session, with the id of the record; the
\* zero that start-up puts when it is missing changes nothing.
LEMMA PutLastId ==
  ASSUME Typed, Put, NEW s \in Series
  PROVE  LastId(s)' = IF pc = "history" /\ Puts[step] = LastKey[s] THEN job.id ELSE LastId(s)
<1> DEFINE name == Puts[step]
           key  == Fixed(LastKey[s])
<1>1. lock = Server /\ step \in 1..Len(Puts)
  BY DEF Put
<1>2. LastKey[s] \in {"last_supplies", "last_alert"}
  BY DEF Series, LastKey
<1>3. LastId(s)' = IF key \in DOMAIN db' THEN db'[key] ELSE 0
  BY DEF LastId, Has, Val, Fixed
<1>4. LastId(s) = IF key \in DOMAIN db THEN db[key] ELSE 0
  BY DEF LastId, Has, Val
<1>5. CASE OnlyIfMissing /\ Has(name) /\ db' = db
  BY <1>3, <1>4, <1>5 DEF OnlyIfMissing
<1>6. CASE db' = Write(PutKey(name), PutValue(name)) /\ ~(OnlyIfMissing /\ Has(name))
  <2>1. /\ DOMAIN db' = DOMAIN db \cup {PutKey(name)}
        /\ db'[PutKey(name)] = PutValue(name)
        /\ \A x \in DOMAIN db : x # PutKey(name) => db'[x] = db[x]
    BY <1>6 DEF Write
  <2>2. CASE name # LastKey[s]
    <3>1. PutKey(name) # key
      <4>1. PutKey(name).kind = name /\ key.kind = LastKey[s]
        BY DEF PutKey, Record, Fixed
      <4> QED BY <2>2, <4>1
    <3> QED BY <1>3, <1>4, <2>1, <2>2, <3>1
  <2>3. CASE name = LastKey[s]
    <3>1. PutKey(name) = key /\ PutValue(name) = job.id
      BY <1>2, <2>3 DEF PutKey, PutValue, RecordKinds
    <3>2. LastId(s)' = job.id
      BY <1>3, <2>1, <3>1
    <3>3. CASE pc = "history"
      BY <2>3, <3>2, <3>3
    <3>4. CASE pc # "history"
      <4>1. pc \in {"lastSupplies", "lastAlert"}
        BY <1>1, <1>2, <2>3, <3>4, PutNames
      <4>2. job.id = 0 /\ OnlyIfMissing
        BY <4>1 DEF Typed, Flow, BootJob, OnlyIfMissing
      <4>3. key \notin DOMAIN db
        BY <1>6, <2>3, <4>2 DEF Has
      <4> QED BY <1>4, <3>2, <3>4, <4>2, <4>3
    <3> QED BY <3>3, <3>4
  <2> QED BY <2>2, <2>3
<1>7. db' = IF OnlyIfMissing /\ Has(name) THEN db ELSE Write(PutKey(name), PutValue(name))
  BY DEF Put
<1> QED BY <1>5, <1>6, <1>7

-----------------------------------------------------------------------------
(***************************************************************************)
(* Steps that write nothing while no session is open, before or after.     *)
(***************************************************************************)
LEMMA NothingPending ==
  ASSUME lock # Server, lock' # Server
  PROVE  \A n : ~Pending(n) /\ ~Pending(n)'
  BY DEF Pending

\* The ids survive, if what a generator gives next is still ahead.
LEMMA QuietIds ==
  ASSUME Ids, lock # Server, lock' # Server, db' = db, torn \subseteq torn',
         \A s \in Series \ torn' :
           Restored(s)' => \/ Restored(s) /\ gen'[s] = gen[s]
                           \/ LastId(s) < gen'[s] /\ \A k \in RecordsOf(s) : k.id < gen'[s]
  PROVE  Ids'
<1>1. \A n : ~Pending(n) /\ ~Pending(n)'
  BY NothingPending
<1>2. \A s : RecordsOf(s)' = RecordsOf(s) /\ LastId(s)' = LastId(s)
  BY DEF RecordsOf, LastId, Has, Val, Fixed
<1>3. Drawn'
  BY DEF Drawn
<1>4. ASSUME NEW s \in Series \ torn' PROVE IdsOf(s)' /\ AheadOf(s)'
  <2>1. IdsOf(s) /\ AheadOf(s)
    BY <1>4 DEF Ids
  <2>2. IdsOf(s)'
    BY <1>1, <1>2, <2>1 DEF IdsOf, Unique, Covered, Uncovered
  <2>3. AheadOf(s)'
    BY <1>2, <1>4, <2>1 DEF AheadOf
  <2> QED BY <2>2, <2>3
<1> QED BY <1>3, <1>4 DEF Ids

\* So do the records of this run.
LEMMA QuietFresh ==
  ASSUME Fresh, lock' # Server, UNCHANGED <<db, epoch>>,
         \A s \in RecordKinds :
           /\ gen'[s] = gen[s] \/ \A k \in RecordsOf(s) : k.at = epoch => k.id < gen'[s]
           /\ (pc' # "down" /\ ~Restored(s)') => (pc # "down" /\ ~Restored(s))
  PROVE  Fresh'
<1>1. \A n : ~Pending(n)'
  BY DEF Pending
<1>2. \A s : RecordsOf(s)' = RecordsOf(s)
  BY DEF RecordsOf
<1>3. ASSUME NEW s \in RecordKinds PROVE FreshOf(s)'
  BY <1>1, <1>2, <1>3 DEF Fresh, FreshOf
<1> QED BY <1>3 DEF Fresh

\* So does the published value.
LEMMA QuietLatest ==
  ASSUME LatestIsRecorded, lock' # Server, db' = db
  PROVE  LatestIsRecorded' /\ LatestBacked'
<1>1. LatestBacked'
  BY DEF LatestBacked, Pending
<1>2. LatestIsRecorded'
  BY DEF LatestIsRecorded, RecordsOf, Has, Val, Fixed
<1> QED BY <1>1, <1>2

\* A step that also leaves the generators and the run alone.
LEMMA Quiet ==
  ASSUME Ids, Fresh, LatestIsRecorded, lock # Server, lock' # Server,
         UNCHANGED <<db, gen, epoch, torn>>,
         \A s \in RecordKinds : Restored(s)' <=> Restored(s),
         pc' = "down" <=> pc = "down"
  PROVE  (Ids /\ Fresh /\ LatestBacked /\ LatestIsRecorded)'
<1>1. \A s \in Series : s \in RecordKinds
  BY DEF Series, LastKey, RecordKinds
<1>2. Ids'
  BY <1>1, QuietIds
<1>3. Fresh'
  BY QuietFresh
<1>4. LatestBacked' /\ LatestIsRecorded'
  BY QuietLatest
<1> QED BY <1>2, <1>3, <1>4

-----------------------------------------------------------------------------
\* A death records as torn the series it leaves behind; the rest is covered.
LEMMA DieKeeps == IInv /\ Die => (Ids /\ Fresh /\ LatestBacked /\ LatestIsRecorded)'
<1> SUFFICES ASSUME IInv, Die PROVE (Ids /\ Fresh /\ LatestBacked /\ LatestIsRecorded)'
  OBVIOUS
<1>0. Typed /\ Ids /\ Fresh /\ LatestIsRecorded
  BY DEF IInv
<1>1. lock' # Server /\ pc' = "down" /\ UNCHANGED <<db, gen, epoch>>
  BY DEF Die, Free, Server
<1>2. torn' = torn \cup {s \in Series : ~Covered(s)}
  <2>1. \A s \in Series : (\E k \in RecordsOf(s) : k.id > LastId(s)) <=> ~Covered(s)
    BY <1>0, Numbers DEF Covered
  <2> QED BY <2>1 DEF Die
<1>3. \A n : ~Pending(n)'
  BY <1>1 DEF Pending
<1>4. \A s : RecordsOf(s)' = RecordsOf(s) /\ LastId(s)' = LastId(s)
  BY <1>1 DEF RecordsOf, LastId, Has, Val, Fixed
<1>5. Ids'
  <2>1. Drawn'
    BY <1>1 DEF Drawn
  <2>2. ASSUME NEW s \in Series \ torn' PROVE IdsOf(s)' /\ AheadOf(s)'
    <3>1. IdsOf(s) /\ Covered(s)
      BY <1>0, <1>2, <2>2 DEF Ids
    <3>2. IdsOf(s)'
      BY <1>3, <1>4, <3>1 DEF IdsOf, Unique, Covered, Uncovered
    <3>3. AheadOf(s)'
      BY <1>1 DEF AheadOf, Restored
    <3> QED BY <3>2, <3>3
  <2> QED BY <2>1, <2>2 DEF Ids
<1>6. Fresh'
  BY <1>0, <1>1, QuietFresh
<1>7. LatestBacked' /\ LatestIsRecorded'
  BY <1>0, <1>1, QuietLatest
<1> QED BY <1>5, <1>6, <1>7

\* A new run: its generators are at zero, and every record is an earlier run's.
LEMMA StartKeeps == IInv /\ Start => (Ids /\ Fresh /\ LatestBacked /\ LatestIsRecorded)'
<1> SUFFICES ASSUME IInv, Start PROVE (Ids /\ Fresh /\ LatestBacked /\ LatestIsRecorded)'
  OBVIOUS
<1>0. Typed /\ Ids /\ Fresh /\ LatestIsRecorded
  BY DEF IInv
<1>1. /\ pc = "down" /\ pc' = "lastSupplies" /\ epoch' = epoch + 1
      /\ UNCHANGED <<db, lock, torn>>
  BY DEF Start
<1>2. lock # Server /\ lock' # Server
  BY <1>0, <1>1 DEF Typed, Flow, Sessions
<1>3. \A s : ~Restored(s)'
  BY <1>1 DEF Restored
<1>4. Ids'
  BY <1>0, <1>1, <1>2, <1>3, QuietIds
<1>5. ASSUME NEW s \in RecordKinds PROVE FreshOf(s)'
  <2>1. RecordsOf(s)' = RecordsOf(s)
    BY <1>1 DEF RecordsOf
  <2>2. \A k \in RecordsOf(s) : k.at \in Nat /\ k.at <= epoch /\ epoch \in Nat
    BY <1>0, <1>5, Numbers DEF Fresh, FreshOf
  <2>3. \A k \in RecordsOf(s) : k.at < epoch' /\ k.at # epoch' /\ k.at <= epoch'
    BY <1>1, <2>2
  <2> QED BY <2>1, <2>3 DEF FreshOf
<1>6. LatestBacked' /\ LatestIsRecorded'
  BY <1>0, <1>1, <1>2, QuietLatest
<1> QED BY <1>4, <1>5, <1>6 DEF Fresh

-----------------------------------------------------------------------------
\* What a draw does: the series' next id, and the generator beyond it.
LEMMA Draw ==
  ASSUME Typed, DrawId, pc = "history"
  PROVE  /\ IdSeries[job.kind] \in RecordKinds
         /\ job'.id = gen[IdSeries[job.kind]]
         /\ job'.kind = job.kind
         /\ gen'[IdSeries[job.kind]] = gen[IdSeries[job.kind]] + 1
         /\ \A s \in RecordKinds : s # IdSeries[job.kind] => gen'[s] = gen[s]
<1> DEFINE t == IdSeries[job.kind]
<1>1. t \in RecordKinds
  BY DEF Typed, Flow, IdSeries, RecordKinds
<1>2. job' = [job EXCEPT !.id = gen[t]] /\ gen' = [gen EXCEPT ![t] = gen[t] + 1]
  BY DEF DrawId, CounterAfter
<1> QED BY <1>1, <1>2 DEF Typed, TypeOK, ThreadTypeOK, Jobs

\* A generator never goes back when an id is drawn.
LEMMA DrawGrows ==
  ASSUME Typed, DrawId, NEW s \in RecordKinds
  PROVE  gen'[s] \in Nat /\ gen[s] <= gen'[s]
<1>1. CASE pc = "history"
  BY <1>1, Draw, Numbers
<1>2. CASE pc # "history"
  BY <1>2, Numbers DEF DrawId
<1> QED BY <1>1, <1>2

\* Opening a history session draws an id ahead of every record.
LEMMA OpenKeeps == IInv /\ Open => (Ids /\ Fresh /\ LatestBacked /\ LatestIsRecorded)'
<1> SUFFICES ASSUME IInv, Open PROVE (Ids /\ Fresh /\ LatestBacked /\ LatestIsRecorded)'
  OBVIOUS
<1> DEFINE t == IdSeries[job.kind]
<1>0. Typed /\ Ids /\ Fresh /\ LatestIsRecorded
  BY DEF IInv
<1>1. /\ pc \in Sessions /\ lock # Server /\ lock' = Server /\ step' = 1 /\ DrawId
      /\ UNCHANGED <<db, pc, epoch, torn>>
  BY DEF Open, Free, Server
<1>2. PutsSound
  BY <1>0, <1>1, PutsAreSound DEF Typed
<1>3. /\ job'.kind = job.kind
      /\ pc # "history" => UNCHANGED <<job, gen>>
  BY <1>0, <1>1, DrawIdEffect
<1>4. Puts' = Puts
  BY <1>1, <1>3 DEF Puts
<1>5. \A n : ~Pending(n)
  BY <1>1 DEF Pending
<1>6. \A n : Pending(n)' <=> \E i \in 1..Len(Puts) : Puts[i] = n
  <2>1. Len(Puts) \in Nat
    BY <1>2 DEF PutsSound
  <2> QED BY <1>1, <1>4, <2>1 DEF Pending
<1>7. \A s : /\ RecordsOf(s)' = RecordsOf(s) /\ LastId(s)' = LastId(s)
             /\ Restored(s)' <=> Restored(s)
  BY <1>1 DEF RecordsOf, LastId, Has, Val, Fixed, Restored
\* What is pending after the open belongs to the series the id was drawn from.
<1>8. \A s \in RecordKinds : Pending(s)' => pc = "history" /\ s = t
  BY <1>2, <1>6 DEF PutsSound
<1>9. \A s \in Series : Uncovered(s)' => pc = "history" /\ s = t
  BY <1>1, <1>2, <1>6 DEF PutsSound, Uncovered
<1>10. pc = "history" => Restored(t) /\ job'.id = gen[t] /\ t \in RecordKinds
  BY <1>0, <1>1, Draw DEF Restored
<1>11. Drawn'
  <2>1. CASE pc = "history"
    <3>1. job'.id = gen[t] /\ gen'[t] = gen[t] + 1 /\ gen[t] \in Nat
      BY <1>0, <1>1, <2>1, Draw, Numbers
    <3>2. (IdSeries[job.kind])' = t
      BY <1>3
    <3> QED BY <3>1, <3>2 DEF Drawn
  <2>2. CASE pc # "history"
    BY <1>1, <2>2 DEF Drawn
  <2> QED BY <2>1, <2>2
<1>12. ASSUME NEW s \in Series \ torn' PROVE IdsOf(s)' /\ AheadOf(s)'
  <2>1. IdsOf(s) /\ AheadOf(s) /\ Covered(s) /\ s \in RecordKinds
    BY <1>0, <1>1, <1>5, <1>12, Numbers DEF Ids, IdsOf, Uncovered
  <2>2. Unique(s)' /\ Covered(s)'
    BY <1>7, <2>1 DEF IdsOf, Unique, Covered
  <2>3. pc = "history" /\ s = t => \A k \in RecordsOf(s)' : k.id < job'.id
    BY <1>7, <1>10, <2>1 DEF AheadOf
  <2>4. Uncovered(s)' => \A k \in RecordsOf(s)' : k.id <= job'.id
    <3>1. \A k \in RecordsOf(s)' : k.id \in Nat
      BY <1>0, <1>7, Numbers
    <3>2. pc = "history" => job'.id \in Nat
      BY <1>0, <1>10, Numbers
    <3> QED BY <1>9, <2>3, <3>1, <3>2
  <2>5. Pending(s)' => Ahead(s)'
    BY <1>8, <2>1, <2>3 DEF Ahead
  <2>6. Pending(s)' => Uncovered(s)'
    BY <1>1, <1>2, <1>6, <1>8, <1>12, <2>1 DEF PutsSound, Uncovered
  <2>7. IdsOf(s)'
    BY <2>2, <2>4, <2>5, <2>6 DEF IdsOf
  <2>8. AheadOf(s)'
    <3>1. gen[s] \in Nat /\ gen'[s] \in Nat /\ gen[s] <= gen'[s] /\ LastId(s) \in Nat
      BY <1>0, <1>1, <1>12, <2>1, DrawGrows, Numbers
    <3>2. \A k \in RecordsOf(s) : k.id \in Nat
      BY <1>0, Numbers
    <3> QED BY <1>7, <2>1, <3>1, <3>2 DEF AheadOf
  <2> QED BY <2>7, <2>8
<1>13. ASSUME NEW s \in RecordKinds PROVE FreshOf(s)'
  <2>1. FreshOf(s)
    BY <1>0, <1>13 DEF Fresh
  <2>2. gen[s] \in Nat /\ gen'[s] \in Nat /\ gen[s] <= gen'[s]
    BY <1>0, <1>1, <1>13, DrawGrows, Numbers
  <2>3. \A k \in RecordsOf(s) : k.id \in Nat
    BY <1>0, Numbers
  <2>4. ASSUME NEW k \in RecordsOf(s), Pending(s)', k.at = epoch PROVE k.id < job'.id
    BY <1>8, <1>10, <1>13, <2>1, <2>4 DEF FreshOf
  <2>5. ASSUME NEW k \in RecordsOf(s), k.at = epoch PROVE k.id < gen'[s]
    BY <2>1, <2>2, <2>3, <2>5 DEF FreshOf
  <2> QED BY <1>1, <1>7, <2>1, <2>4, <2>5 DEF FreshOf
<1>14. LatestBacked'
  <2>1. Pending("latestSupplies")' => Pending("supplies")'
    BY <1>2, <1>6 DEF PutsSound
  <2> QED BY <2>1 DEF LatestBacked
<1>15. LatestIsRecorded'
  BY <1>0, <1>1, <1>7 DEF LatestIsRecorded, Has, Val, Fixed
<1> QED BY <1>11, <1>12, <1>13, <1>14, <1>15 DEF Ids, Fresh

-----------------------------------------------------------------------------
\* A put never touches a history record: the key it writes, if it is a record's,
\* is new.
LEMMA PutAppends ==
  ASSUME Typed, Fresh, Put
  PROVE  \A k \in DOMAIN db : k.kind \in RecordKinds => k \in DOMAIN db' /\ db'[k] = db[k]
<1> DEFINE name == Puts[step]
<1>1. CASE db' = db
  BY <1>1
<1>2. CASE db' = Write(PutKey(name), PutValue(name))
  <2>1. /\ DOMAIN db' = DOMAIN db \cup {PutKey(name)}
        /\ \A x \in DOMAIN db : x # PutKey(name) => db'[x] = db[x]
    BY <1>2 DEF Write
  <2>2. ASSUME NEW k \in DOMAIN db, k.kind \in RecordKinds PROVE k # PutKey(name)
    <3>1. CASE name \in RecordKinds
      <4>1. PutKey(name) = Record(name, job.id)
        BY <3>1 DEF PutKey
      <4>2. SUFFICES ASSUME k = Record(name, job.id) PROVE FALSE
        BY <4>1
      <4>3. k.kind = name /\ k.id = job.id /\ k.at = epoch
        BY <4>2 DEF Record
      <4>4. k \in RecordsOf(name) /\ Pending(name)
        BY <4>3, PutPending DEF RecordsOf
      <4>5. k.id < job.id
        BY <3>1, <4>3, <4>4 DEF Fresh, FreshOf
      <4> QED BY <4>3, <4>5, Numbers
    <3>2. CASE name \notin RecordKinds
      <4>1. PutKey(name).kind = name
        BY DEF PutKey, Record, Fixed
      <4> QED BY <2>2, <3>2, <4>1
    <3> QED BY <3>1, <3>2
  <2> QED BY <2>1, <2>2
<1> QED BY <1>1, <1>2, PutEffect

\* A put keeps the ids in order: a record, a last id, or neither.
LEMMA PutIds ==
  ASSUME Typed, Ids, Put
  PROVE  Ids'
<1> DEFINE name == Puts[step]
<1>1. /\ lock = Server /\ step \in 1..Len(Puts)
      /\ UNCHANGED <<lock, pc, job, gen, epoch, torn>>
  BY DEF Put
<1>2. /\ Pending(name) /\ PutsSound
      /\ \A n : Pending(n)' <=> (Pending(n) /\ n # name)
  BY PutPending
<1>3. Drawn /\ Drawn'
  BY <1>1 DEF Ids, Drawn
<1>4. ASSUME NEW s \in Series \ torn' PROVE IdsOf(s)' /\ AheadOf(s)'
  <2>1. IdsOf(s) /\ AheadOf(s) /\ s \in Series /\ s \in RecordKinds
    BY <1>1, <1>4, Numbers DEF Ids
  <2>2. LastId(s)' = IF pc = "history" /\ name = LastKey[s] THEN job.id ELSE LastId(s)
    BY <2>1, PutLastId
  <2>3. RecordsOf(s)' = IF name = s THEN RecordsOf(s) \cup {Record(s, job.id)} ELSE RecordsOf(s)
    BY <2>1, PutRecords
  <2>4. /\ \A k \in RecordsOf(s) : k.id \in Nat
        /\ job.id \in Nat /\ LastId(s) \in Nat /\ gen[s] \in Nat
    BY <2>1, Numbers
  <2>5. s # LastKey[s]
    BY <2>1 DEF Series, LastKey
  <2>6. Restored(s)' <=> Restored(s)
    BY <1>1 DEF Restored
  <2>7. Uncovered(s)' <=> Uncovered(s) /\ name # LastKey[s]
    BY <1>1, <1>2 DEF Uncovered
  <2>8. (name = s \/ (pc = "history" /\ name = LastKey[s])) => pc = "history" /\ job.id < gen[s]
    BY <1>1, <1>2, <1>3, <2>1 DEF PutsSound, Drawn
  \* The put of a record of s.
  <2>9. CASE name = s
    <3>1. Ahead(s) /\ Covered(s) /\ ~Pending(s)' /\ LastId(s)' = LastId(s)
      BY <1>2, <2>1, <2>2, <2>5, <2>9 DEF IdsOf
    <3>2. RecordsOf(s)' = RecordsOf(s) \cup {Record(s, job.id)} /\ Record(s, job.id).id = job.id
      BY <2>3, <2>9 DEF Record
    <3>3. \A k \in RecordsOf(s) : k.id < job.id
      BY <3>1 DEF Ahead
    <3>4. Unique(s)'
      BY <2>1, <2>4, <3>2, <3>3 DEF IdsOf, Unique
    <3>5. ~Uncovered(s)' => Covered(s)'
      <4>1. ~Uncovered(s)' => LastId(s) = job.id
        BY <1>2, <2>1, <2>5, <2>7, <2>9 DEF IdsOf
      <4> QED BY <2>4, <3>1, <3>2, <3>3, <4>1 DEF Covered
    <3>6. Uncovered(s)' => \A k \in RecordsOf(s)' : k.id <= job'.id
      BY <1>1, <2>4, <3>2, <3>3
    <3>7. IdsOf(s)'
      BY <3>1, <3>4, <3>5, <3>6 DEF IdsOf
    <3>8. AheadOf(s)'
      BY <1>1, <2>1, <2>6, <2>8, <2>9, <3>1, <3>2 DEF AheadOf
    <3> QED BY <3>7, <3>8
  \* The put of the last id of s in a history session.
  <2>10. CASE pc = "history" /\ name = LastKey[s]
    <3>1. LastId(s)' = job.id /\ RecordsOf(s)' = RecordsOf(s) /\ Uncovered(s)
      BY <1>2, <2>2, <2>3, <2>5, <2>10 DEF Uncovered
    <3>2. \A k \in RecordsOf(s) : k.id <= job.id
      BY <2>1, <3>1 DEF IdsOf
    <3>3. Covered(s)' /\ Unique(s)' /\ ~Uncovered(s)'
      BY <2>1, <2>7, <2>10, <3>1, <3>2 DEF IdsOf, Covered, Unique
    <3>4. Pending(s)' => Ahead(s)' /\ LastId(s)' = job'.id
      BY <1>1, <1>2, <2>1, <3>1 DEF IdsOf, Ahead
    <3>5. IdsOf(s)'
      BY <3>3, <3>4 DEF IdsOf
    <3>6. AheadOf(s)'
      BY <1>1, <2>1, <2>6, <2>8, <2>10, <3>1 DEF AheadOf
    <3> QED BY <3>5, <3>6
  \* Any other put.
  <2>11. CASE name # s /\ ~(pc = "history" /\ name = LastKey[s])
    <3>1. LastId(s)' = LastId(s) /\ RecordsOf(s)' = RecordsOf(s)
      BY <2>2, <2>3, <2>11
    <3>2. (Uncovered(s)' <=> Uncovered(s)) /\ (Pending(s)' <=> Pending(s))
      BY <1>2, <2>7, <2>11 DEF Uncovered
    <3>3. IdsOf(s)'
      <4>1. Unique(s)' /\ (Covered(s) => Covered(s)') /\ (Ahead(s) => Ahead(s)')
        BY <1>1, <2>1, <3>1 DEF IdsOf, Unique, Covered, Ahead
      <4> QED BY <1>1, <2>1, <3>1, <3>2, <4>1 DEF IdsOf
    <3>4. AheadOf(s)'
      BY <1>1, <2>1, <2>6, <3>1 DEF AheadOf
    <3> QED BY <3>3, <3>4
  <2> QED BY <2>9, <2>10, <2>11
<1> QED BY <1>3, <1>4 DEF Ids

\* A put keeps the records of this run apart.
LEMMA PutFresh ==
  ASSUME Typed, Ids, Fresh, Put
  PROVE  Fresh'
<1> DEFINE name == Puts[step]
<1>1. lock = Server /\ UNCHANGED <<lock, pc, job, gen, epoch>>
  BY DEF Put
<1>2. Pending(name) /\ PutsSound /\ \A n : Pending(n)' <=> (Pending(n) /\ n # name)
  BY PutPending
<1>3. ASSUME NEW s \in RecordKinds PROVE FreshOf(s)'
  <2>1. FreshOf(s) /\ (Restored(s)' <=> Restored(s))
    BY <1>1, <1>3 DEF Fresh, Restored
  <2>2. RecordsOf(s)' = IF name = s THEN RecordsOf(s) \cup {Record(s, job.id)} ELSE RecordsOf(s)
    BY <1>3, PutRecords
  <2>3. CASE name # s
    BY <1>1, <1>2, <2>1, <2>2, <2>3 DEF FreshOf
  <2>4. CASE name = s
    <3>1. pc = "history" /\ s = IdSeries[job.kind]
      BY <1>2, <1>3, <2>4 DEF PutsSound, Pending
    <3>2. job.id < gen[s] /\ Restored(s) /\ ~Pending(s)'
      BY <1>1, <1>2, <2>4, <3>1 DEF Ids, Drawn, Restored
    <3>3. Record(s, job.id).id = job.id /\ Record(s, job.id).at = epoch /\ epoch \in Nat
      BY Numbers DEF Record
    <3> QED BY <1>1, <2>1, <2>2, <2>4, <3>2, <3>3 DEF FreshOf
  <2> QED BY <2>3, <2>4
<1> QED BY <1>3 DEF Fresh

\* The latest value is that of a record, at every put.
LEMMA PutLatest ==
  ASSUME Typed, Fresh, LatestBacked, LatestIsRecorded, Put
  PROVE  LatestBacked' /\ LatestIsRecorded'
<1> DEFINE name == Puts[step]
           rec  == Record("supplies", job.id)
           val  == [food |-> job.food, medicine |-> job.medicine]
           key  == Fixed("latestSupplies")
<1>1. lock = Server /\ step \in 1..Len(Puts) /\ UNCHANGED <<lock, pc, job, gen, epoch>>
  BY DEF Put
<1>2. Pending(name) /\ PutsSound /\ \A n : Pending(n)' <=> (Pending(n) /\ n # name)
  BY PutPending
<1>3. \A k \in DOMAIN db : k.kind \in RecordKinds => k \in DOMAIN db' /\ db'[k] = db[k]
  BY PutAppends
<1>4. rec.kind = "supplies" /\ rec' = rec /\ val' = val /\ "supplies" \in RecordKinds
  BY <1>1 DEF Record, RecordKinds
<1>5. name \in {"supplies", "latestSupplies"} =>
        db' = Write(PutKey(name), val) /\ pc = "history"
  <2>1. name \in {"supplies", "latestSupplies"} => ~OnlyIfMissing
    <3>1. SUFFICES ASSUME name \in {"supplies", "latestSupplies"}, OnlyIfMissing PROVE FALSE
      OBVIOUS
    <3>2. Puts \in {<<"last_supplies">>, <<"last_alert">>, <<"food", "medicine">>}
      BY <3>1 DEF OnlyIfMissing, Puts
    <3> QED BY <1>1, <3>1, <3>2
  <2>2. name \in {"supplies", "latestSupplies"} => PutValue(name) = val
    BY DEF PutValue
  <2>3. name \in {"supplies", "latestSupplies"} => \E i \in 1..Len(Puts) : Puts[i] = "supplies"
    BY <1>1, <1>2 DEF PutsSound
  <2>4. name \in {"supplies", "latestSupplies"} => pc = "history"
    BY <1>2, <1>4, <2>3 DEF PutsSound
  <2> QED BY <2>1, <2>2, <2>4, PutEffect
<1>6. name = "supplies" => rec \in DOMAIN db' /\ db'[rec] = val
  <2>1. name = "supplies" => PutKey(name) = rec
    BY <1>4 DEF PutKey
  <2> QED BY <1>5, <2>1 DEF Write
<1>7. LatestBacked'
  <2> DEFINE Tops(s) == \A j \in s : j = rec \/ Log!Before(j, rec)
  <2>1. SUFFICES ASSUME Pending("latestSupplies")', ~Pending("supplies")'
                 PROVE  rec \in DOMAIN db' /\ db'[rec] = val /\ Tops(RecordsOf("supplies")')
    BY <1>4 DEF LatestBacked, Log!Before
  <2>2. CASE name = "supplies"
    <3>1. RecordsOf("supplies")' = RecordsOf("supplies") \cup {rec}
      BY <1>4, <2>2, PutRecords
    <3>2. \A j \in RecordsOf("supplies") : Log!Before(j, rec)
      <4>1. rec.at = epoch /\ rec.id = job.id
        BY DEF Record
      <4>2. ASSUME NEW j \in RecordsOf("supplies") PROVE Log!Before(j, rec)
        <5>1. j.at <= epoch /\ (j.at = epoch => j.id < job.id)
          BY <1>2, <1>4, <2>2 DEF Fresh, FreshOf
        <5>2. j.at \in Nat /\ epoch \in Nat
          BY Numbers
        <5> QED BY <4>1, <5>1, <5>2 DEF Log!Before
      <4> QED BY <4>2
    <3> QED BY <1>6, <2>2, <3>1, <3>2
  <2>3. CASE name # "supplies"
    <3>1. rec \in DOMAIN db /\ db[rec] = val /\ Tops(RecordsOf("supplies"))
      BY <1>2, <2>1, <2>3 DEF LatestBacked
    <3>2. RecordsOf("supplies")' = RecordsOf("supplies")
      BY <1>4, <2>3, PutRecords
    <3> QED BY <1>3, <1>4, <3>1, <3>2
  <2> QED BY <2>2, <2>3
<1>8. \A k \in RecordsOf("supplies") : k \in RecordsOf("supplies")' /\ db'[k] = db[k]
  BY <1>3, <1>4 DEF RecordsOf
<1>9. LatestIsRecorded'
  \* The latest value itself: its record went first.
  <2>1. CASE name = "latestSupplies"
    <3>1. ~Pending("supplies")
      BY <1>1, <1>2, <2>1 DEF PutsSound, Pending
    <3>2. rec \in DOMAIN db /\ db[rec] = val
      BY <1>2, <2>1, <3>1 DEF LatestBacked
    <3>3. rec \in RecordsOf("supplies")' /\ db'[rec] = val
      BY <1>3, <1>4, <3>2 DEF RecordsOf
    <3>4. db'[key] = val
      <4>1. PutKey(name) = key
        BY <2>1 DEF PutKey, RecordKinds
      <4> QED BY <1>5, <2>1, <4>1 DEF Write
    <3> QED BY <3>3, <3>4 DEF LatestIsRecorded, Val, Fixed
  <2>2. CASE name # "latestSupplies"
    <3>1. PutKey(name) # key
      BY <2>2 DEF PutKey, Record, Fixed
    <3>2. (key \in DOMAIN db') => key \in DOMAIN db /\ db'[key] = db[key]
      BY <3>1, PutEffect DEF Write
    <3> QED BY <1>8, <3>2 DEF LatestIsRecorded, Has, Val, Fixed
  <2> QED BY <2>1, <2>2
<1> QED BY <1>7, <1>9

-----------------------------------------------------------------------------
\* The end of a session leaves no put behind; that of getLastId sets a generator
\* beyond a last id that covers the series.
LEMMA CloseKeeps == IInv /\ Close => (Ids /\ Fresh /\ LatestBacked /\ LatestIsRecorded)'
<1> SUFFICES ASSUME IInv, Close PROVE (Ids /\ Fresh /\ LatestBacked /\ LatestIsRecorded)'
  OBVIOUS
<1>0. Typed /\ Ids /\ Fresh /\ LatestIsRecorded
  BY DEF IInv
<1>1. /\ lock = Server /\ step > Len(Puts) /\ Advance(Free)
      /\ UNCHANGED <<db, epoch, torn>>
  BY DEF Close
<1>2. pc \in Sessions /\ lock' # Server /\ pc' = Following
  BY <1>0, <1>1 DEF Typed, Flow, Advance, Free, Server
<1>3. \A n : ~Pending(n) /\ ~Pending(n)'
  <2>1. PutsSound /\ step \in Nat
    BY <1>0, <1>2, PutsAreSound DEF Typed, TypeOK, ThreadTypeOK
  <2>2. \A i \in 1..Len(Puts) : ~(i >= step)
    BY <1>1, <2>1 DEF PutsSound
  <2> QED BY <1>2, <2>2 DEF Pending
<1>4. \A s : RecordsOf(s)' = RecordsOf(s) /\ LastId(s)' = LastId(s)
  BY <1>1 DEF RecordsOf, LastId, Has, Val, Fixed
<1>5. \A s \in Series \ torn : Covered(s)
  BY <1>0, <1>3 DEF Ids, IdsOf, Uncovered
\* What close does to the generators, and which of them are set.
<1>6. ASSUME NEW s \in RecordKinds
      PROVE  \/ gen'[s] = gen[s] /\ (Restored(s)' <=> Restored(s))
             \/ ~Restored(s) /\ (s \in Series => gen'[s] = LastId(s) + 1)
  <2>1. CASE pc = "lastSupplies"
    <3>1. gen' = [gen EXCEPT !["supplies"] = LastId("supplies") + 1] /\ pc' = "lastAlert"
      BY <1>2, <2>1 DEF Close, RestoredId, Following
    <3> QED BY <1>0, <2>1, <3>1
            DEF Restored, Series, LastKey, RecordKinds, Typed, TypeOK, ThreadTypeOK
  <2>2. CASE pc = "lastAlert"
    <3>1. gen' = [gen EXCEPT !["alert"] = LastId("alert") + 1] /\ pc' = "fork"
      BY <1>2, <2>2 DEF Close, RestoredId, Following
    <3> QED BY <1>0, <2>2, <3>1
            DEF Restored, Series, LastKey, RecordKinds, Typed, TypeOK, ThreadTypeOK
  <2>3. CASE pc \notin {"lastSupplies", "lastAlert"}
    <3>1. gen' = gen /\ pc' \notin {"lastSupplies", "lastAlert", "down"} /\ pc # "down"
      BY <1>2, <2>3 DEF Close, Following, Sessions
    <3> QED BY <2>3, <3>1 DEF Restored
  <2> QED BY <2>1, <2>2, <2>3
<1>7. pc # "down"
  BY <1>2 DEF Sessions
<1>8. Ids'
  <2>1. Drawn'
    BY <1>2 DEF Drawn
  <2>2. ASSUME NEW s \in Series \ torn' PROVE IdsOf(s)' /\ AheadOf(s)'
    <3>1. IdsOf(s) /\ AheadOf(s) /\ Covered(s) /\ s \in RecordKinds
      BY <1>0, <1>1, <1>5, <2>2, Numbers DEF Ids
    <3>2. IdsOf(s)'
      BY <1>3, <1>4, <3>1 DEF IdsOf, Unique, Covered, Uncovered
    <3>3. LastId(s) \in Nat /\ \A k \in RecordsOf(s) : k.id \in Nat
      BY <1>0, <2>2, Numbers
    <3>4. ASSUME gen'[s] = gen[s], Restored(s)' <=> Restored(s) PROVE AheadOf(s)'
      BY <1>4, <3>1, <3>4 DEF AheadOf
    <3>5. ASSUME gen'[s] = LastId(s) + 1 PROVE AheadOf(s)'
      <4>1. LastId(s) < gen'[s] /\ \A k \in RecordsOf(s) : k.id < gen'[s]
        BY <3>1, <3>3, <3>5 DEF Covered
      <4> QED BY <1>4, <4>1 DEF AheadOf
    <3> QED BY <1>6, <2>2, <3>1, <3>2, <3>4, <3>5
  <2> QED BY <2>1, <2>2 DEF Ids
<1>9. Fresh'
  <2>1. ASSUME NEW s \in RecordKinds PROVE FreshOf(s)'
    <3>1. FreshOf(s) /\ \A k \in RecordsOf(s) : k.at \in Nat /\ epoch \in Nat
      BY <1>0, <2>1, Numbers DEF Fresh
    <3>2. CASE gen'[s] = gen[s] /\ (Restored(s)' <=> Restored(s))
      BY <1>1, <1>3, <1>4, <1>7, <3>1, <3>2 DEF FreshOf
    <3>3. CASE ~Restored(s)
      <4>1. \A k \in RecordsOf(s) : k.at < epoch
        BY <1>7, <3>1, <3>3 DEF FreshOf
      <4>2. \A k \in RecordsOf(s) : k.at < epoch /\ k.at # epoch /\ k.at <= epoch
        BY <3>1, <4>1
      <4> QED BY <1>1, <1>3, <1>4, <4>2 DEF FreshOf
    <3> QED BY <1>6, <2>1, <3>2, <3>3
  <2> QED BY <2>1 DEF Fresh
<1>10. LatestBacked' /\ LatestIsRecorded'
  BY <1>0, <1>1, <1>2, QuietLatest
<1> QED BY <1>8, <1>9, <1>10

-----------------------------------------------------------------------------
\* A session that is refused may have drawn an id, which is then never used.
LEMMA RefuseKeeps == IInv /\ Refuse => (Ids /\ Fresh /\ LatestBacked /\ LatestIsRecorded)'
<1> SUFFICES ASSUME IInv, Refuse PROVE (Ids /\ Fresh /\ LatestBacked /\ LatestIsRecorded)'
  OBVIOUS
<1>0. Typed /\ Ids /\ Fresh /\ LatestIsRecorded
  BY DEF IInv
<1>1. CASE pc \in {"lastSupplies", "lastAlert"}
  BY <1>1, DieKeeps DEF Refuse
<1>2. CASE pc \notin {"lastSupplies", "lastAlert"}
  <2>1. /\ DrawId /\ Advance(lock) /\ pc \in Sessions /\ lock > Server
        /\ UNCHANGED <<db, epoch, torn>>
    BY <1>2 DEF Refuse
  <2>2. lock # Server /\ lock' # Server /\ pc' = Following
    BY <2>1 DEF Advance, Free, Server
  <2>3. pc # "down" /\ pc' \notin {"down", "lastSupplies", "lastAlert"}
    BY <1>2, <2>1, <2>2 DEF Following, Sessions
  <2>4. \A s \in RecordKinds : Restored(s) /\ Restored(s)'
    BY <1>2, <2>3 DEF Restored
  <2>5. \A s \in RecordKinds :
          /\ gen[s] \in Nat /\ gen'[s] \in Nat /\ gen[s] <= gen'[s]
          /\ \A k \in RecordsOf(s) : k.id \in Nat
    BY <1>0, <2>1, DrawGrows, Numbers
  <2>6. Ids'
    <3>1. ASSUME NEW s \in Series \ torn'
          PROVE  LastId(s) < gen'[s] /\ \A k \in RecordsOf(s) : k.id < gen'[s]
      <4>1. s \in RecordKinds /\ LastId(s) \in Nat /\ AheadOf(s)
        BY <1>0, <2>1, <3>1, Numbers DEF Ids
      <4> QED BY <2>4, <2>5, <4>1 DEF AheadOf
    <3> QED BY <1>0, <2>1, <2>2, <3>1, QuietIds
  <2>7. Fresh'
    <3>1. ASSUME NEW s \in RecordKinds, NEW k \in RecordsOf(s), k.at = epoch
          PROVE  k.id < gen'[s]
      BY <1>0, <2>5, <3>1 DEF Fresh, FreshOf
    <3> QED BY <1>0, <2>1, <2>2, <2>4, <3>1, QuietFresh
  <2>8. LatestBacked' /\ LatestIsRecorded'
    BY <1>0, <2>1, <2>2, QuietLatest
  <2> QED BY <2>6, <2>7, <2>8
<1> QED BY <1>1, <1>2

\* The invariant holds of the empty database.
LEMMA InitIInv == Init => IInv
<1> SUFFICES ASSUME Init PROVE IInv
  OBVIOUS
<1>1. Typed
  BY InitTyped
<1>2. DOMAIN db = {} /\ pc = "down" /\ lock # Server
  BY DEF Init, Free, Server
<1>3. \A s : RecordsOf(s) = {}
  BY <1>2 DEF RecordsOf
<1>4. \A n : ~Pending(n)
  BY <1>2 DEF Pending
<1>5. Ids
  BY <1>2, <1>3, <1>4
     DEF Ids, Drawn, IdsOf, AheadOf, Unique, Covered, Uncovered, Restored
<1>6. Fresh
  BY <1>3 DEF Fresh, FreshOf
<1>7. LatestBacked /\ LatestIsRecorded
  BY <1>2, <1>4 DEF LatestBacked, LatestIsRecorded, Has
<1> QED BY <1>1, <1>5, <1>6, <1>7 DEF IInv

\* Every step keeps the invariant.
LEMMA StepIInv == IInv /\ [Next]_vars => IInv'
<1> SUFFICES ASSUME IInv, [Next]_vars PROVE IInv'
  OBVIOUS
<1> DEFINE Goal == (Ids /\ Fresh /\ LatestBacked /\ LatestIsRecorded)'
<1>0. Typed /\ Typed' /\ Ids /\ Fresh /\ LatestBacked /\ LatestIsRecorded
  BY StepTyped DEF IInv
<1>1. ASSUME Start PROVE Goal
  BY <1>1, StartKeeps
<1>2. ASSUME Fork PROVE Goal
  <2>1. pc = "fork" /\ pc' = "event" /\ UNCHANGED <<db, lock, gen, epoch, torn>>
    BY <1>2 DEF Fork
  <2>2. lock # Server /\ lock' # Server
    BY <1>0, <2>1 DEF Typed, Flow, Sessions
  <2>3. \A s \in RecordKinds : Restored(s)' <=> Restored(s)
    BY <2>1 DEF Restored
  <2> QED BY <1>0, <2>1, <2>2, <2>3, Quiet
<1>3. ASSUME Open PROVE Goal
  BY <1>3, OpenKeeps
<1>4. ASSUME Refuse PROVE Goal
  BY <1>4, RefuseKeeps
<1>5. ASSUME Put PROVE Goal
  BY <1>0, <1>5, PutIds, PutFresh, PutLatest
<1>6. ASSUME Close PROVE Goal
  BY <1>6, CloseKeeps
<1>7. ASSUME Stop \/ ReadMissingStock \/ Crash PROVE Goal
  BY <1>7, DieKeeps DEF Stop, ReadMissingStock, Crash
<1>8. ASSUME NEW kind, NEW first \in {"food", "event", "history"}, NEW f, NEW m,
             Take(kind, first, f, m)
      PROVE  Goal
  <2>1. pc = "idle" /\ pc' = first /\ UNCHANGED <<db, lock, gen, epoch, torn>>
    BY <1>8 DEF Take
  <2>2. lock # Server /\ lock' # Server
    BY <1>0, <2>1 DEF Typed, Flow, Sessions
  <2>3. \A s \in RecordKinds : Restored(s)' <=> Restored(s)
    BY <2>1 DEF Restored
  <2> QED BY <1>0, <2>1, <2>2, <2>3, Quiet
<1>9. ASSUME TcpUpdate \/ UdpUpdate \/ Status \/ Alert \/ PowerFailure PROVE Goal
  BY <1>8, <1>9 DEF TcpUpdate, UdpUpdate, Update, Status, Alert, PowerFailure
<1>10. ASSUME (\E e \in rest : RestOpen(e)) \/ RestClose PROVE Goal
  <2>1. UNCHANGED <<db, pc, gen, epoch, torn>>
    BY <1>10 DEF RestOpen, RestClose
  <2>2. lock # Server /\ lock' # Server
    BY <1>0, <1>10
       DEF RestOpen, RestClose, Typed, TypeOK, ThreadTypeOK, Free, Server
  <2>3. \A s \in RecordKinds : Restored(s)' <=> Restored(s)
    BY <2>1 DEF Restored
  <2> QED BY <1>0, <2>1, <2>2, <2>3, Quiet
<1>11. ASSUME UNCHANGED vars PROVE Goal
  <2>1. /\ UNCHANGED <<db, lock, pc, step, job, gen, epoch, torn>>
    BY <1>11 DEF vars
  <2>2. Puts' = Puts
    BY <2>1 DEF Puts
  <2>3. \A n : Pending(n)' <=> Pending(n)
    BY <2>1, <2>2 DEF Pending
  <2>4. \A s : /\ RecordsOf(s)' = RecordsOf(s) /\ LastId(s)' = LastId(s)
               /\ (Restored(s)' <=> Restored(s)) /\ (Uncovered(s)' <=> Uncovered(s))
    BY <2>1, <2>3 DEF RecordsOf, LastId, Has, Val, Fixed, Restored, Uncovered
  <2>5. Ids'
    BY <1>0, <2>1, <2>3, <2>4 DEF Ids, Drawn, IdsOf, AheadOf, Unique, Covered, Ahead
  <2>6. Fresh'
    BY <1>0, <2>1, <2>3, <2>4 DEF Fresh, FreshOf
  <2>7. LatestBacked'
    BY <1>0, <2>1, <2>3, <2>4 DEF LatestBacked, Record, Log!Before
  <2>8. LatestIsRecorded'
    BY <1>0, <2>1, <2>4 DEF LatestIsRecorded, Has, Val, Fixed
  <2> QED BY <2>5, <2>6, <2>7, <2>8
<1>12. Goal
  BY <1>1, <1>2, <1>3, <1>4, <1>5, <1>6, <1>7, <1>9, <1>10, <1>11
     DEF Next, ServerStep, Handler
<1> QED BY <1>0, <1>12 DEF IInv

\* Only a put writes the database.
LEMMA OnlyPutWrites == [Next]_vars => Put \/ db' = db
  BY DEF Next, ServerStep, Handler, Start, Fork, Open, Refuse, Close, Stop, Die, Update,
         TcpUpdate, UdpUpdate, Status, Alert, PowerFailure, Take, ReadMissingStock, Crash,
         RestOpen, RestClose, vars

\* The inductive invariant of the database holds in every run of the server.
LEMMA Inductive == Spec => []IInv
  BY InitIInv, StepIInv, PTL DEF Spec

-----------------------------------------------------------------------------
\* No id comes back in a series through any number of restarts, except in a
\* series a death left torn (server.cpp 344-346, 941-943; utils.hpp 179-196).
THEOREM IdsAreUnique == Spec => []UniqueIds
<1>1. IInv => UniqueIds
  BY DEF IInv, Ids, IdsOf, Unique, UniqueIds
<1> QED BY <1>1, Inductive, PTL

\* What latestSupplies holds is always the value of some record (server.cpp
\* 344-345).
THEOREM LatestHasARecord == Spec => []LatestIsRecorded
<1>1. IInv => LatestIsRecorded
  BY DEF IInv
<1> QED BY <1>1, Inductive, PTL

\* Whoever but the server has the database open reads a last id that covers the
\* records beside it, except in a torn series (server.cpp 329-352, 934-951).
THEOREM ReadersAreSafe == Spec => []ReadersSeeWholeSessions
<1>1. IInv => ReadersSeeWholeSessions
  <2> SUFFICES ASSUME IInv, lock > Server, NEW s \in Series \ torn PROVE Covered(s)
    BY DEF ReadersSeeWholeSessions, Covered
  <2>1. ~Uncovered(s)
    BY DEF Uncovered, Pending, Server
  <2> QED BY <2>1 DEF IInv, Ids, IdsOf
<1> QED BY <1>1, Inductive, PTL

\* No step removes or overwrites a history record (server.cpp 335-344).
THEOREM HistoryOnlyGrows == Spec => HistoryAppendOnly
<1> DEFINE Grows == \A k \in DOMAIN db :
                      k.kind \in RecordKinds => k \in DOMAIN db' /\ db'[k] = db[k]
<1>1. IInv /\ [Next]_vars => Grows
  <2> SUFFICES ASSUME IInv, [Next]_vars PROVE Grows
    OBVIOUS
  <2>1. CASE Put
    BY <2>1, PutAppends DEF IInv
  <2>2. CASE db' = db
    BY <2>2
  <2> QED BY <2>1, <2>2, OnlyPutWrites
<1>2. IInv /\ [Next]_vars => [Grows]_vars
  BY <1>1
<1> QED BY <1>2, Inductive, PTL DEF Spec, HistoryAppendOnly

\* A death in the middle of a UDP update tears no series: its last id goes first
\* (server.cpp 511-513).
THEOREM UdpNeverTears == Spec => UdpUpdateSurvivesDeath
<1> DEFINE Kept == pc \in Sessions /\ job.kind = "udpUpdate" /\ pc' = "down" => torn' = torn
<1>1. IInv /\ [Next]_vars => Kept
  <2> SUFFICES ASSUME IInv, [Next]_vars, pc \in Sessions, job.kind = "udpUpdate", pc' = "down"
               PROVE  torn' = torn
    OBVIOUS
  <2>0. Typed /\ Ids
    BY DEF IInv
  \* The only steps that lead from a session to the end are deaths.
  <2>1. Die
    <3>1. pc \notin {"lastSupplies", "lastAlert"} /\ pc \notin {"down", "fork", "idle"}
      BY <2>0 DEF Typed, Flow, BootJob, Sessions
    <3>2. ~Refuse
      BY <3>1 DEF Refuse, Advance, Following
    <3>3. ~Close
      BY <3>1 DEF Close, Advance, Following
    <3> QED BY <3>1, <3>2, <3>3
            DEF Next, ServerStep, Handler, Start, Fork, Open, Put, Stop, Update, TcpUpdate,
                UdpUpdate, Status, Alert, PowerFailure, Take, ReadMissingStock, Crash,
                RestOpen, RestClose, vars
  <2>2. ASSUME NEW s \in Series \ torn PROVE Covered(s)
    <3>1. IdsOf(s)
      BY <2>0, <2>2 DEF Ids
    <3>2. CASE ~Uncovered(s)
      BY <3>1, <3>2 DEF IdsOf
    <3>3. CASE Uncovered(s)
      <4>1. PutsSound /\ pc = "history" /\ step \in Nat
        BY <2>0, <3>3, PutsAreSound DEF Uncovered, Typed, TypeOK, ThreadTypeOK
      <4>2. s = "supplies" /\ Pending("last_supplies")
        BY <2>2, <3>3, <4>1 DEF Uncovered, Pending, PutsSound, IdSeries, Series, LastKey
      <4>3. Pending("supplies")
        BY <4>1, <4>2 DEF Pending, PutsSound
      <4> QED BY <3>1, <4>2, <4>3 DEF IdsOf
    <3> QED BY <3>2, <3>3
  <2>3. \A s \in Series \ torn : ~\E k \in RecordsOf(s) : k.id > LastId(s)
    BY <2>0, <2>2, Numbers DEF Covered
  <2> QED BY <2>1, <2>3 DEF Die
<1>2. IInv /\ [Next]_vars => [Kept]_vars
  BY <1>1
<1> QED BY <1>2, Inductive, PTL DEF Spec, UdpUpdateSurvivesDeath

-----------------------------------------------------------------------------
(***************************************************************************)
(* The database implements HistoryLog: the put of a record appends it, the *)
(* put of the latest value publishes it, every other step is a stutter.    *)
(***************************************************************************)
LEMMA LogOfSameDb ==
  ASSUME db' = db PROVE UNCHANGED <<History, Latest>>
  BY DEF History, Latest, Has, Val, Fixed

\* The put of a record appends it after every record of its kind.
LEMMA PutAppendsRecord ==
  ASSUME IInv, Put, Puts[step] \in RecordKinds
  PROVE  Log!AppendRecord
<1> DEFINE name == Puts[step]
           rec  == Record(name, job.id)
<1>0. Typed /\ Fresh
  BY DEF IInv
<1>1. Pending(name) /\ PutsSound /\ lock = Server /\ step \in 1..Len(Puts)
  BY <1>0, PutPending DEF Put
<1>2. rec.kind = name /\ rec.at = epoch /\ rec.id = job.id
  BY DEF Record
<1>3. \A j \in RecordsOf(name) : Log!Before(j, rec)
  <2>1. ASSUME NEW j \in RecordsOf(name) PROVE Log!Before(j, rec)
    <3>1. j.at <= epoch /\ (j.at = epoch => j.id < job.id)
      BY <1>0, <1>1 DEF Fresh, FreshOf
    <3>2. j.at \in Nat /\ epoch \in Nat
      BY <1>0, Numbers
    <3> QED BY <1>2, <3>1, <3>2 DEF Log!Before
  <2> QED BY <2>1
<1>4. db' = Write(rec, PutValue(name))
  <2>1. ~OnlyIfMissing
    BY <1>1 DEF PutsSound, OnlyIfMissing
  <2> QED BY <2>1, <1>0, PutEffect DEF PutKey
<1>5. DOMAIN db' = DOMAIN db \cup {rec} /\ \A k \in DOMAIN db : k # rec => db'[k] = db[k]
  BY <1>4 DEF Write
<1>6. \A k \in DOMAIN db : k.kind \in RecordKinds => db'[k] = db[k]
  BY <1>0, PutAppends
<1>7. DOMAIN History' = DOMAIN History \cup {rec}
  BY <1>2, <1>5 DEF History
<1>8. \A j \in DOMAIN History : History'[j] = History[j]
  BY <1>5, <1>6 DEF History
<1>9. Latest' = Latest
  <2>1. Fixed("latestSupplies") # rec
    BY <1>2 DEF Fixed, RecordKinds
  <2> QED BY <1>5, <2>1 DEF Latest, Has, Val, Fixed
<1>10. Log!OfKind(name) = RecordsOf(name)
  BY DEF Log!OfKind, History, RecordsOf
<1>11. rec \in DOMAIN History'
  BY <1>7
<1> QED BY <1>2, <1>3, <1>7, <1>8, <1>9, <1>10, <1>11 DEF Log!AppendRecord

\* The put of the latest value publishes the newest record.
LEMMA PutPublishes ==
  ASSUME IInv, Put, Puts[step] = "latestSupplies"
  PROVE  Log!Publish
<1> DEFINE rec == Record("supplies", job.id)
           val == [food |-> job.food, medicine |-> job.medicine]
           key == Fixed("latestSupplies")
<1>0. Typed /\ Fresh /\ LatestBacked /\ job' = job
  BY DEF IInv, Put
<1>1. Pending("latestSupplies") /\ PutsSound /\ lock = Server /\ step \in 1..Len(Puts)
  BY <1>0, PutPending DEF Put
<1>2. ~Pending("supplies")
  BY <1>1 DEF PutsSound, Pending
<1>3. /\ rec \in DOMAIN db /\ db[rec] = val /\ rec.kind = "supplies"
      /\ \A j \in RecordsOf("supplies") : j = rec \/ Log!Before(j, rec)
  BY <1>0, <1>1, <1>2 DEF LatestBacked, Record
<1>4. db' = Write(key, val)
  <2>1. pc = "history"
    BY <1>1 DEF PutsSound, RecordKinds
  <2>2. ~OnlyIfMissing
    BY <2>1 DEF OnlyIfMissing
  <2>3. PutKey("latestSupplies") = key /\ PutValue("latestSupplies") = val
    BY DEF PutKey, PutValue, RecordKinds
  <2> QED BY <1>0, <2>2, <2>3, PutEffect
<1>5. /\ DOMAIN db' = DOMAIN db \cup {key} /\ db'[key] = val
      /\ \A k \in DOMAIN db : k # key => db'[k] = db[k]
      /\ key.kind = "latestSupplies"
  BY <1>4 DEF Write, Fixed
<1>6. History' = History
  BY <1>5 DEF History, RecordKinds
<1>7. Latest' = <<val>>
  BY <1>5 DEF Latest, Has, Val, Fixed
<1>8. Log!OfKind("supplies") = RecordsOf("supplies")
  BY DEF Log!OfKind, History, RecordsOf, RecordKinds
<1>9. rec \in RecordsOf("supplies") /\ History[rec] = val
  BY <1>3 DEF RecordsOf, History, RecordKinds
<1> QED BY <1>3, <1>6, <1>7, <1>8, <1>9 DEF Log!Publish

\* Any other put leaves the log as it is.
LEMMA OtherPutsStutter ==
  ASSUME IInv, Put, Puts[step] \notin RecordKinds, Puts[step] # "latestSupplies"
  PROVE  UNCHANGED <<History, Latest>>
<1> DEFINE name == Puts[step]
<1>1. CASE db' = db
  BY <1>1, LogOfSameDb
<1>2. CASE db' = Write(PutKey(name), PutValue(name))
  <2>1. PutKey(name).kind = name
    BY DEF PutKey, Fixed
  <2>2. /\ DOMAIN db' = DOMAIN db \cup {PutKey(name)}
        /\ \A k \in DOMAIN db : k # PutKey(name) => db'[k] = db[k]
    BY <1>2 DEF Write
  <2>3. History' = History
    BY <2>1, <2>2 DEF History
  <2>4. Fixed("latestSupplies") # PutKey(name)
    BY <2>1 DEF Fixed
  <2>5. Latest' = Latest
    BY <2>2, <2>4 DEF Latest, Has, Val, Fixed
  <2> QED BY <2>3, <2>5
<1>3. Typed
  BY DEF IInv
<1> QED BY <1>1, <1>2, <1>3, PutEffect

\* The stored history is the log that HistoryLog specifies, in every run: each
\* record comes after those of its kind, and what is published as the latest is
\* the newest record of its time (server.cpp 335-345, 505-513).
THEOREM DatabaseImplementsLog == Spec => ImplementsLog
<1>1. Init => Log!Init
  <2> SUFFICES ASSUME Init PROVE Log!Init
    OBVIOUS
  <2>1. db = [k \in {} |-> 0] /\ DOMAIN db = {}
    BY DEF Init
  <2>2. History = [k \in {} |-> 0] /\ Latest = <<>>
    BY <2>1 DEF History, Latest, Has
  <2> QED BY <2>2 DEF Log!Init
<1>2. IInv /\ [Next]_vars => [Log!Next]_<<History, Latest>>
  <2> SUFFICES ASSUME IInv, [Next]_vars PROVE [Log!Next]_<<History, Latest>>
    OBVIOUS
  <2>1. CASE Put
    BY <2>1, PutAppendsRecord, PutPublishes, OtherPutsStutter DEF Log!Next
  <2>2. CASE db' = db
    BY <2>2, LogOfSameDb
  <2> QED BY <2>1, <2>2, OnlyPutWrites
<1> QED BY <1>1, <1>2, Inductive, PTL DEF Spec, ImplementsLog, Log!Spec

-----------------------------------------------------------------------------
(***************************************************************************)
(* The stored stock and the history say the same.  While an update is      *)
(* under way they differ; what is carried from one session to the next is  *)
(* that the groups written so far hold what the update computed, and that  *)
(* the record put last is the newest one and holds the same.               *)
(***************************************************************************)

Updating == job.kind \in Updates /\ pc \in {"food", "medicine", "history"}

JobStock == [food |-> job.food, medicine |-> job.medicine]

\* Every newest record has this value.
NewestHolds(v) == \A k \in RecordsOf("supplies") : Newest(k, "supplies") => db[k] = v

Settled == RecordsOf("supplies") # {} => HasStock /\ NewestHolds(StoredStock)

\* A session of the update is over, or its put is done.
Done(session) ==
  \/ session = "food" /\ pc \in {"medicine", "history"}
  \/ session = "medicine" /\ pc = "history"
  \/ lock = Server /\ pc = session /\ step > 1

UnderWay ==
  /\ HasStock
  /\ Done("food") => Val("food") = job.food
  /\ Done("medicine") => Val("medicine") = job.medicine
  /\ (pc = "history" /\ lock = Server /\ ~Pending("supplies")) => NewestHolds(JobStock)

StockInv == whole => IF Updating THEN UnderWay ELSE Settled

-----------------------------------------------------------------------------
\* The stock is put by the sessions of its groups and by start-up's, and nowhere else.
LEMMA StockPuts ==
  ASSUME Typed, pc \in Sessions
  PROVE  /\ pc \in {"food", "medicine"} => Puts = <<pc>>
         /\ \A i \in 1..Len(Puts) : Puts[i] \in {"food", "medicine"} => pc \in {"init", Puts[i]}
<1>1. CASE pc # "history"
  BY <1>1 DEF Puts, Sessions
<1>2. CASE pc = "history"
  <2>1. Puts = HistoryPuts[job.kind] /\ job.kind \in DOMAIN IdSeries
    BY <1>2 DEF Puts, Typed, Flow
  <2>2. \/ Puts = <<"supplies", "latestSupplies", "last_supplies", "lastEvent">>
        \/ Puts = <<"last_supplies", "supplies", "lastEvent">>
        \/ Puts = <<"alert", "lastEvent", "last_alert">>
        \/ Puts = <<"emergencyNotification", "lastEvent">>
    BY <2>1 DEF HistoryPuts, IdSeries
  <2> QED BY <1>2, <2>2
<1> QED BY <1>1, <1>2

\* What a put does to the stock of a group.
LEMMA PutStock ==
  ASSUME Typed, Put, NEW g \in {"food", "medicine"}
  PROVE  /\ Has(g) => Has(g)'
         /\ Puts[step] # g \/ (pc = "init" /\ Has(g)) =>
              (Has(g)' <=> Has(g)) /\ (Has(g) => Val(g)' = Val(g))
         /\ Puts[step] = g /\ pc # "init" =>
              Has(g)' /\ Val(g)' = IF g = "food" THEN job.food ELSE job.medicine
<1> DEFINE name == Puts[step]
           key  == Fixed(g)
<1>1. lock = Server /\ step \in 1..Len(Puts)
  BY DEF Put
<1>2. /\ db' = IF OnlyIfMissing /\ Has(name) THEN db ELSE Write(PutKey(name), PutValue(name))
  BY DEF Put
<1>3. name # g => PutKey(name) # key
  <2>1. PutKey(name).kind = name /\ key.kind = g
    BY DEF PutKey, Record, Fixed
  <2> QED BY <2>1
<1>4. /\ DOMAIN db' = DOMAIN db \/ DOMAIN db' = DOMAIN db \cup {PutKey(name)}
      /\ \A x \in DOMAIN db : x # PutKey(name) => db'[x] = db[x]
  BY <1>2 DEF Write
<1>5. Has(g) <=> key \in DOMAIN db
  BY DEF Has
<1>6. Has(g)' <=> key \in DOMAIN db'
  BY DEF Has, Fixed
<1>7. Val(g) = db[key] /\ Val(g)' = db'[key]
  BY DEF Val, Fixed
<1>8. Has(g) => Has(g)'
  BY <1>4, <1>5, <1>6
<1>9. ASSUME name # g PROVE (Has(g)' <=> Has(g)) /\ (Has(g) => Val(g)' = Val(g))
  BY <1>3, <1>4, <1>5, <1>6, <1>7, <1>9
<1>10. ASSUME pc = "init", Has(g) PROVE (Has(g)' <=> Has(g)) /\ (Has(g) => Val(g)' = Val(g))
  <2>1. CASE name = g
    <3>1. db' = db
      BY <1>2, <1>10, <2>1 DEF OnlyIfMissing
    <3> QED BY <1>5, <1>6, <1>7, <3>1
  <2>2. CASE name # g
    BY <1>9, <2>2
  <2> QED BY <2>1, <2>2
<1>11. ASSUME name = g, pc # "init"
       PROVE  Has(g)' /\ Val(g)' = IF g = "food" THEN job.food ELSE job.medicine
  <2>1. pc = g
    <3>1. pc \in Sessions
      BY <1>1 DEF Typed, Flow
    <3> QED BY <1>1, <1>11, <3>1, StockPuts
  <2>2. ~OnlyIfMissing
    BY <2>1 DEF OnlyIfMissing
  <2>3. PutKey(name) = key
    BY <1>11 DEF PutKey, RecordKinds
  <2>4. PutValue(name) = IF g = "food" THEN job.food ELSE job.medicine
    BY <1>11 DEF PutValue
  <2>5. db' = Write(key, PutValue(name))
    BY <1>2, <2>2, <2>3
  <2> QED BY <1>6, <1>7, <2>4, <2>5 DEF Write
<1> QED BY <1>8, <1>9, <1>10, <1>11

\* What depends on the database alone.
LEMMA SameDb ==
  ASSUME db' = db
  PROVE  /\ HasStock' <=> HasStock
         /\ Settled' <=> Settled
         /\ \A n : Val(n)' = Val(n)
         /\ \A v : NewestHolds(v)' <=> NewestHolds(v)
<1>1. RecordsOf("supplies")' = RecordsOf("supplies")
  BY DEF RecordsOf
<1>2. \A n : (Has(n)' <=> Has(n)) /\ Val(n)' = Val(n)
  BY DEF Has, Val, Fixed
<1>3. \A k : Newest(k, "supplies")' <=> Newest(k, "supplies")
  BY <1>1 DEF Newest
<1>4. StoredStock' = StoredStock
  BY <1>2 DEF StoredStock
<1>5. \A v : NewestHolds(v)' <=> NewestHolds(v)
  BY <1>1, <1>3 DEF NewestHolds
<1>6. HasStock' <=> HasStock
  BY <1>2 DEF HasStock
<1>7. NewestHolds(StoredStock)' <=> NewestHolds(StoredStock)
  BY <1>1, <1>3, <1>4 DEF NewestHolds
<1> QED BY <1>1, <1>2, <1>5, <1>6, <1>7 DEF Settled

\* Between updates, a step that keeps the database keeps what is settled.
LEMMA Untouched ==
  ASSUME StockInv, db' = db, ~Updating', whole' => whole /\ ~Updating
  PROVE  StockInv'
  BY SameDb DEF StockInv

-----------------------------------------------------------------------------
\* A put between updates: start-up's is left out once there is a stock, and the
\* others write neither stock nor supplies.
LEMMA PutSettled ==
  ASSUME Typed, Put, Settled, ~Updating
  PROVE  Settled'
<1> DEFINE name == Puts[step]
<1>1. lock = Server /\ step \in 1..Len(Puts) /\ pc \in Sessions /\ UNCHANGED <<pc, job>>
  BY DEF Put, Typed, Flow
<1>2. PutsSound
  BY PutPending
<1>3. name # "supplies"
  <2>1. SUFFICES ASSUME name = "supplies" PROVE FALSE
    OBVIOUS
  <2>2. pc = "history" /\ IdSeries[job.kind] = "supplies" /\ job.kind \in DOMAIN IdSeries
    BY <1>1, <1>2, <2>1 DEF PutsSound, RecordKinds, Typed, Flow
  <2>3. job.kind \in Updates
    BY <2>2 DEF IdSeries, Updates
  <2> QED BY <2>2, <2>3 DEF Updating
<1>4. RecordsOf("supplies")' = RecordsOf("supplies")
  BY <1>3, PutRecords DEF RecordKinds
<1>5. SUFFICES ASSUME RecordsOf("supplies") # {} PROVE (HasStock /\ NewestHolds(StoredStock))'
  BY <1>4 DEF Settled
<1>6. Has("food") /\ Has("medicine") /\ NewestHolds(StoredStock)
  BY <1>5 DEF Settled, HasStock
<1>7. \A g \in {"food", "medicine"} : Has(g)' /\ Val(g)' = Val(g)
  <2>1. ASSUME NEW g \in {"food", "medicine"} PROVE Has(g)' /\ Val(g)' = Val(g)
    <3>1. pc \notin {"food", "medicine"}
      BY <1>1 DEF Updating, Typed, Flow
    <3>2. name # g \/ pc = "init"
      BY <1>1, <3>1, StockPuts
    <3> QED BY <1>6, <3>2, PutStock
  <2> QED BY <2>1
<1>8. HasStock' /\ StoredStock' = StoredStock
  BY <1>7 DEF HasStock, StoredStock
<1>9. \A k \in RecordsOf("supplies") : Newest(k, "supplies")' <=> Newest(k, "supplies")
  BY <1>4 DEF Newest
<1>10. \A k \in RecordsOf("supplies") : db'[k] = db[k]
  <2>1. PutKey(name).kind = name
    BY DEF PutKey, Record, Fixed
  <2> QED BY <1>3, <2>1, PutEffect DEF Write, RecordsOf
<1> QED BY <1>4, <1>6, <1>8, <1>9, <1>10 DEF NewestHolds

\* A put of an update: its group's stock, or its record, or neither.
LEMMA PutUnderWay ==
  ASSUME Typed, Fresh, Put, UnderWay, Updating
  PROVE  UnderWay'
<1> DEFINE name == Puts[step]
           rec  == Record("supplies", job.id)
<1>1. lock = Server /\ step \in 1..Len(Puts) /\ step' = step + 1 /\ UNCHANGED <<lock, pc, job, epoch>>
  BY DEF Put
<1>2. PutsSound /\ Pending(name) /\ \A n : Pending(n)' <=> (Pending(n) /\ n # name)
  BY PutPending
<1>3. pc \in {"food", "medicine", "history"} /\ pc \in Sessions
  BY DEF Updating, Sessions
<1>4. Has("food") /\ Has("medicine")
  BY DEF UnderWay, HasStock
<1>5. HasStock'
  BY <1>4, PutStock DEF HasStock
<1>6. pc \in {"food", "medicine"} => name = pc /\ step = 1
  BY <1>1, <1>3, StockPuts
<1>7. pc = "history" => name \notin {"food", "medicine"}
  BY <1>1, <1>3, StockPuts
<1>8. Done("food")' => Val("food")' = job'.food
  <2>1. SUFFICES ASSUME Done("food")' PROVE Val("food")' = job.food
    BY <1>1
  <2>2. CASE name = "food"
    BY <1>1, <1>3, <2>2, PutStock
  <2>3. CASE name # "food"
    <3>1. Done("food")
      BY <1>1, <1>3, <1>6, <2>1, <2>3 DEF Done
    <3> QED BY <1>4, <2>3, <3>1, PutStock DEF UnderWay
  <2> QED BY <2>2, <2>3
<1>9. Done("medicine")' => Val("medicine")' = job'.medicine
  <2>1. SUFFICES ASSUME Done("medicine")' PROVE Val("medicine")' = job.medicine
    BY <1>1
  <2>2. CASE name = "medicine"
    BY <1>1, <1>3, <2>2, PutStock
  <2>3. CASE name # "medicine"
    <3>1. Done("medicine")
      BY <1>1, <1>3, <1>6, <2>1, <2>3 DEF Done
    <3> QED BY <1>4, <2>3, <3>1, PutStock DEF UnderWay
  <2> QED BY <2>2, <2>3
<1>10. ASSUME pc = "history", ~Pending("supplies")' PROVE NewestHolds(JobStock)'
  <2>1. JobStock' = JobStock /\ rec.at = epoch /\ rec.id = job.id
    BY <1>1 DEF JobStock, Record
  <2>2. ~OnlyIfMissing
    BY <1>10 DEF OnlyIfMissing
  <2>3. db' = Write(PutKey(name), PutValue(name))
    BY <2>2, PutEffect
  \* The record: it is the only newest one.
  <2>4. CASE name = "supplies"
    <3>1. PutKey(name) = rec /\ PutValue(name) = JobStock
      BY <2>4 DEF PutKey, PutValue, JobStock, RecordKinds
    <3>2. db'[rec] = JobStock
      BY <2>3, <3>1 DEF Write
    <3>3. RecordsOf("supplies")' = RecordsOf("supplies") \cup {rec}
      BY <2>4, PutRecords DEF RecordKinds
    <3>4. ASSUME NEW k \in RecordsOf("supplies"), Newest(k, "supplies")' PROVE FALSE
      <4>1. k.at <= epoch /\ (k.at = epoch => k.id < job.id)
        BY <1>2, <2>4 DEF Fresh, FreshOf, RecordKinds
      <4>2. rec.at < k.at \/ (rec.at = k.at /\ rec.id <= k.id)
        BY <3>3, <3>4 DEF Newest
      <4>3. k.at \in Nat /\ k.id \in Nat /\ epoch \in Nat /\ job.id \in Nat
        BY Numbers
      <4> QED BY <2>1, <4>1, <4>2, <4>3
    <3> QED BY <2>1, <3>2, <3>3, <3>4 DEF NewestHolds
  <2>5. CASE name # "supplies"
    <3>1. RecordsOf("supplies")' = RecordsOf("supplies")
      BY <2>5, PutRecords DEF RecordKinds
    <3>2. \A k \in RecordsOf("supplies") : Newest(k, "supplies")' <=> Newest(k, "supplies")
      BY <3>1 DEF Newest
    <3>3. \A k \in RecordsOf("supplies") : db'[k] = db[k]
      <4>1. PutKey(name).kind = name
        BY DEF PutKey, Record, Fixed
      <4> QED BY <2>3, <2>5, <4>1 DEF Write, RecordsOf
    <3>4. NewestHolds(JobStock)
      BY <1>1, <1>2, <1>10, <2>5 DEF UnderWay
    <3> QED BY <2>1, <3>1, <3>2, <3>3, <3>4 DEF NewestHolds
  <2> QED BY <2>4, <2>5
<1> QED BY <1>1, <1>5, <1>8, <1>9, <1>10 DEF UnderWay

-----------------------------------------------------------------------------
\* Opening a session of an update: nothing of it is done yet.
LEMMA OpenStock == IInv /\ StockInv /\ Open => StockInv'
<1> SUFFICES ASSUME IInv, StockInv, Open, whole' PROVE (IF Updating THEN UnderWay ELSE Settled)'
  BY DEF StockInv
<1>1. /\ Typed /\ DrawId /\ pc \in Sessions /\ lock' = Server /\ step' = 1
      /\ UNCHANGED <<db, pc, whole>>
  BY DEF IInv, Open
<1>2. job'.kind = job.kind /\ job'.food = job.food /\ job'.medicine = job.medicine
  BY <1>1 DEF DrawId, Typed, TypeOK, ThreadTypeOK, Jobs
<1>3. Updating' <=> Updating
  BY <1>1, <1>2 DEF Updating
<1>4. CASE ~Updating
  BY <1>1, <1>3, <1>4, SameDb DEF StockInv
<1>5. CASE Updating
  <2>1. UnderWay
    BY <1>1, <1>5 DEF StockInv
  <2>2. /\ Done("food")' => Done("food")
        /\ Done("medicine")' => Done("medicine")
    BY <1>1 DEF Done
  <2>3. pc = "history" => Pending("supplies")'
    <3>1. Puts' = Puts
      BY <1>1, <1>2 DEF Puts
    <3>2. pc = "history" => \E i \in 1..Len(Puts) : Puts[i] = "supplies"
      <4>1. SUFFICES ASSUME pc = "history" PROVE \E i \in 1..Len(Puts) : Puts[i] = "supplies"
        OBVIOUS
      <4>2. \/ Puts = <<"supplies", "latestSupplies", "last_supplies", "lastEvent">>
            \/ Puts = <<"last_supplies", "supplies", "lastEvent">>
        BY <1>5, <4>1 DEF Updating, Updates, Puts, HistoryPuts
      <4> QED BY <4>2
    <3>3. Len(Puts) \in Nat
      BY <1>1, PutsAreSound DEF PutsSound, Typed
    <3> QED BY <1>1, <3>1, <3>2, <3>3 DEF Pending
  <2>4. UnderWay'
    BY <1>1, <1>2, <2>1, <2>2, <2>3, SameDb DEF UnderWay
  <2> QED BY <1>3, <1>5, <2>4
<1> QED BY <1>4, <1>5

\* Closing the last one: stock and newest record agree again.
LEMMA CloseStock == IInv /\ StockInv /\ Close => StockInv'
<1> SUFFICES ASSUME IInv, StockInv, Close, whole' PROVE (IF Updating THEN UnderWay ELSE Settled)'
  BY DEF StockInv
<1>1. /\ Typed /\ lock = Server /\ step > Len(Puts) /\ pc' = Following
      /\ UNCHANGED <<db, job, whole>>
  BY DEF IInv, Close, Advance
<1>2. pc \in Sessions /\ lock' # Server
  BY <1>1 DEF Typed, Flow, Close, Advance, Free, Server
<1>3. CASE ~Updating
  <2>1. pc \notin {"food", "medicine"}
    BY <1>1, <1>3 DEF Typed, Flow, Updating
  <2>2. ~Updating'
    BY <1>1, <1>2, <2>1 DEF Updating, Following
  <2> QED BY <1>1, <1>3, <2>2, SameDb DEF StockInv
<1>4. CASE Updating
  <2>1. UnderWay
    BY <1>1, <1>4 DEF StockInv
  <2>2. CASE pc \in {"food", "medicine"}
    <3>1. Puts = <<pc>> /\ step > 1
      BY <1>1, <1>2, <2>2, StockPuts
    <3>2. Done(pc) /\ pc' = IF pc = "food" THEN "medicine" ELSE "history"
      BY <1>1, <2>2, <3>1 DEF Done, Following
    <3>3. /\ Done("food")' => Done("food")
          /\ Done("medicine")' => Done("medicine")
      BY <1>2, <2>2, <3>2 DEF Done
    <3>4. UnderWay'
      BY <1>1, <1>2, <2>1, <3>3, SameDb DEF UnderWay
    <3>5. Updating'
      BY <1>1, <1>4, <2>2, <3>2 DEF Updating
    <3> QED BY <3>4, <3>5
  <2>3. CASE pc = "history"
    <3>1. ~Updating'
      BY <1>1, <2>3 DEF Updating, Following
    <3>2. ~Pending("supplies")
      <4>1. PutsSound /\ step \in Nat
        BY <1>1, <1>2, PutsAreSound DEF Typed, TypeOK, ThreadTypeOK
      <4> QED BY <1>1, <4>1 DEF Pending, PutsSound
    <3>3. NewestHolds(JobStock)
      BY <1>1, <2>1, <2>3, <3>2 DEF UnderWay
    <3>4. StoredStock = JobStock /\ HasStock
      BY <2>1, <2>3 DEF UnderWay, Done, StoredStock, JobStock
    <3>5. Settled
      BY <3>3, <3>4 DEF Settled
    <3> QED BY <1>1, <3>1, <3>5, SameDb
  <2> QED BY <1>4, <2>2, <2>3 DEF Updating
<1> QED BY <1>3, <1>4

\* A death leaves no update whole that it cut short.
LEMMA DieStock == StockInv /\ Die => StockInv'
<1> SUFFICES ASSUME StockInv, Die PROVE StockInv'
  OBVIOUS
<1>1. /\ db' = db /\ pc' = "down"
      /\ whole' => whole /\ ~(job.kind \in Updates /\ pc \in Sessions)
  BY DEF Die
<1>2. ~Updating' /\ (whole' => whole /\ ~Updating)
  BY <1>1 DEF Updating, Sessions
<1> QED BY <1>1, <1>2, Untouched

\* Every step keeps the stock invariant.
LEMMA StepStock == IInv /\ StockInv /\ [Next]_vars => StockInv'
<1> SUFFICES ASSUME IInv, StockInv, [Next]_vars PROVE StockInv'
  OBVIOUS
<1>0. Typed /\ Fresh
  BY DEF IInv
<1>1. CASE Start \/ Fork
  <2>1. db' = db /\ whole' = whole /\ ~Updating /\ ~Updating'
    BY <1>1 DEF Start, Fork, Updating
  <2> QED BY <2>1, Untouched
<1>2. CASE Open
  BY <1>2, OpenStock
<1>3. CASE Refuse
  <2>1. CASE pc \in {"lastSupplies", "lastAlert"}
    BY <1>3, <2>1, DieStock DEF Refuse
  <2>2. CASE pc \notin {"lastSupplies", "lastAlert"}
    <3>1. DrawId /\ db' = db /\ (whole' => whole /\ job.kind \notin Updates)
      BY <1>3, <2>2 DEF Refuse
    <3>2. job'.kind = job.kind
      BY <1>0, <3>1, DrawIdEffect
    <3>3. CASE job.kind \in Updates
      BY <3>1, <3>3 DEF StockInv
    <3>4. CASE job.kind \notin Updates
      BY <3>1, <3>2, <3>4, Untouched DEF Updating
    <3> QED BY <3>3, <3>4
  <2> QED BY <2>1, <2>2
<1>4. CASE Put
  <2>1. (Updating' <=> Updating) /\ whole' = whole
    BY <1>4 DEF Put, Updating
  <2> QED BY <1>0, <1>4, <2>1, PutSettled, PutUnderWay DEF StockInv
<1>5. CASE Close
  BY <1>5, CloseStock
<1>6. CASE Stop \/ ReadMissingStock \/ Crash
  BY <1>6, DieStock DEF Stop, ReadMissingStock, Crash
<1>7. ASSUME NEW kind \in Updates, Update(kind) PROVE StockInv'
  <2>1. HasStock /\ pc = "idle" /\ pc' = "food" /\ job'.kind = kind /\ UNCHANGED <<db, lock>>
    BY <1>7 DEF Update, Take
  <2>2. lock' # Server
    BY <1>0, <2>1 DEF Typed, Flow, Sessions
  <2>3. Updating' /\ UnderWay'
    BY <1>7, <2>1, <2>2, SameDb DEF Updating, UnderWay, Done
  <2> QED BY <2>3 DEF StockInv
<1>8. CASE TcpUpdate \/ UdpUpdate
  BY <1>7, <1>8 DEF TcpUpdate, UdpUpdate, Updates
<1>9. CASE Status \/ Alert \/ PowerFailure
  <2>1. db' = db /\ whole' = whole /\ pc = "idle" /\ job'.kind \notin Updates
    BY <1>9 DEF Status, Alert, PowerFailure, Take, Updates
  <2> QED BY <2>1, Untouched DEF Updating
<1>10. CASE (\E e \in rest : RestOpen(e)) \/ RestClose
  <2>1. UNCHANGED <<db, pc, step, job, whole>> /\ lock # Server /\ lock' # Server
    BY <1>0, <1>10
       DEF RestOpen, RestClose, Typed, TypeOK, ThreadTypeOK, Free, Server
  <2>2. (Updating' <=> Updating) /\ \A s : Done(s)' <=> Done(s)
    BY <2>1 DEF Updating, Done
  <2>3. UnderWay => UnderWay'
    BY <2>1, <2>2, SameDb DEF UnderWay
  <2> QED BY <2>1, <2>2, <2>3, SameDb DEF StockInv
<1>11. CASE UNCHANGED vars
  <2>1. UNCHANGED <<db, lock, pc, step, job, whole>>
    BY <1>11 DEF vars
  <2>2. (Updating' <=> Updating) /\ \A s : Done(s)' <=> Done(s)
    BY <2>1 DEF Updating, Done
  <2>3. Puts' = Puts /\ JobStock' = JobStock
    BY <2>1 DEF Puts, JobStock
  <2>4. Pending("supplies")' <=> Pending("supplies")
    BY <2>1, <2>3 DEF Pending
  <2>5. UnderWay => UnderWay'
    BY <2>1, <2>2, <2>3, <2>4, SameDb DEF UnderWay
  <2> QED BY <2>1, <2>2, <2>5, SameDb DEF StockInv
<1> QED
  BY <1>1, <1>2, <1>3, <1>4, <1>5, <1>6, <1>8, <1>9, <1>10, <1>11
     DEF Next, ServerStep, Handler

\* Between jobs, if no session of the last stock update was refused or cut short,
\* the stored stock is what the newest record says, whichever protocol the
\* updates came by (server.cpp 330-347, 495-513; supplies_module.c 199-200).
THEOREM StockIsTheNewest == Spec => []StockMatchesHistory
<1>1. Init => StockInv
  <2> SUFFICES ASSUME Init PROVE StockInv
    OBVIOUS
  <2>1. DOMAIN db = {} /\ pc = "down"
    BY DEF Init
  <2>2. RecordsOf("supplies") = {}
    BY <2>1 DEF RecordsOf
  <2> QED BY <2>1, <2>2 DEF StockInv, Updating, Settled
<1>2. IInv /\ StockInv /\ [Next]_vars => StockInv'
  BY StepStock
<1>3. StockInv => StockMatchesHistory
  <2> SUFFICES ASSUME StockInv, pc = "idle", whole, NEW k \in RecordsOf("supplies"),
                      Newest(k, "supplies")
               PROVE  db[k] = StoredStock
    BY DEF StockMatchesHistory
  <2>1. Settled
    BY DEF StockInv, Updating
  <2> QED BY <2>1 DEF Settled, NewestHolds
<1> QED BY <1>1, <1>2, <1>3, Inductive, PTL DEF Spec
=============================================================================
