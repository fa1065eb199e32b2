----------------------------- MODULE RestProofs -----------------------------
(***************************************************************************)
(* Proofs about RestApi: what a request for alerts or for supplies gets,   *)
(* for any database the server can have left and any parameters.           *)
(*                                                                         *)
(* The keys are looked up by substring, so the argument is about the       *)
(* places of a text where a pair or a triple of its tokens can be: a       *)
(* record's prefix is only at its head, and an id between two "_" only in  *)
(* the middle of a record.  That a request by id gets one record at most   *)
(* is then the uniqueness of the ids.                                      *)
(***************************************************************************)
EXTENDS RestApi, HistoryProofs, FiniteSetTheorems

\* The text of a number is digits, and tells it from the others; the provers
\* know nothing else of ToString.
NumberTexts ==
  /\ \A n \in Nat : ToString(n) \notin {"_", "alert", "supplies"}
  /\ \A m, n \in Nat : ToString(m) = ToString(n) => m = n

-----------------------------------------------------------------------------
\* Where a text is found in another.

LEMMA TwoElements ==
  ASSUME NEW T, NEW x \in Seq(T), Len(x) = 2
  PROVE  x = <<x[1], x[2]>>
  OBVIOUS

LEMMA ThreeElements ==
  ASSUME NEW T, NEW x \in Seq(T), Len(x) = 3
  PROVE  x = <<x[1], x[2], x[3]>>
  OBVIOUS

LEMMA Pairs ==
  ASSUME NEW T, NEW s \in Seq(T), NEW a, NEW b
  PROVE  <<a, b>> \in SubSeqs(s)
           <=> \E p \in 1..Len(s) : p + 1 <= Len(s) /\ s[p] = a /\ s[p + 1] = b
<1> DEFINE n == Len(s)
<1>1. n \in Nat
  OBVIOUS
<1>2. ASSUME <<a, b>> \in SubSeqs(s)
      PROVE  \E p \in 1..n : p + 1 <= n /\ s[p] = a /\ s[p + 1] = b
  <2>1. PICK i \in 0..n, j \in 0..n : <<a, b>> = SubSeq(s, i + 1, j)
    BY <1>2 DEF SubSeqs
  <2>2. SubSeq(s, i + 1, j) = [k \in 1..(1 + j - (i + 1)) |-> s[k + (i + 1) - 1]]
    BY <2>1
  <2>3. 1..2 = 1..(1 + j - (i + 1))
    BY <2>1, <2>2
  <2> HIDE DEF n
  <2>4. j = i + 2
    BY <1>1, <2>1, <2>3
  <2>5. a = s[i + 1] /\ b = s[(i + 1) + 1]
    <3>1. 1 \in 1..2 /\ 2 \in 1..2 /\ 1 + (i + 1) - 1 = i + 1 /\ 2 + (i + 1) - 1 = (i + 1) + 1
      BY <1>1, <2>1
    <3> QED BY <2>1, <2>2, <2>3, <3>1
  <2>6. i + 1 \in 1..n /\ (i + 1) + 1 <= n
    BY <1>1, <2>1, <2>4
  <2> QED BY <2>5, <2>6
<1>3. ASSUME NEW p \in 1..n, p + 1 <= n, s[p] = a, s[p + 1] = b
      PROVE  <<a, b>> \in SubSeqs(s)
  <2> DEFINE x == SubSeq(s, p, p + 1)
  <2>1. p - 1 \in 0..Len(s) /\ p + 1 \in 0..Len(s) /\ (p - 1) + 1 = p
    BY <1>1, <1>3
  <2>2. x \in Seq(T) /\ Len(x) = 2 /\ x[1] = s[p] /\ x[2] = s[p + 1]
    BY <1>1, <1>3
  <2>3. x \in SubSeqs(s)
    <3>1. \A i, j \in 0..Len(s) : SubSeq(s, i + 1, j) \in SubSeqs(s)
      BY DEF SubSeqs
    <3> HIDE DEF n
    <3> QED BY <2>1, <3>1
  <2> HIDE DEF x
  <2>4. x = <<s[p], s[p + 1]>>
    BY <2>2, TwoElements
  <2> QED BY <1>3, <2>3, <2>4
<1> QED BY <1>2, <1>3

LEMMA Triples ==
  ASSUME NEW T, NEW s \in Seq(T), NEW a, NEW b, NEW c
  PROVE  <<a, b, c>> \in SubSeqs(s)
           <=> \E p \in 1..Len(s) : /\ p + 2 <= Len(s)
                                    /\ s[p] = a /\ s[p + 1] = b /\ s[p + 2] = c
<1> DEFINE n == Len(s)
<1>1. n \in Nat
  OBVIOUS
<1>2. ASSUME <<a, b, c>> \in SubSeqs(s)
      PROVE  \E p \in 1..n : p + 2 <= n /\ s[p] = a /\ s[p + 1] = b /\ s[p + 2] = c
  <2>1. PICK i \in 0..n, j \in 0..n : <<a, b, c>> = SubSeq(s, i + 1, j)
    BY <1>2 DEF SubSeqs
  <2>2. SubSeq(s, i + 1, j) = [k \in 1..(1 + j - (i + 1)) |-> s[k + (i + 1) - 1]]
    BY <2>1
  <2>3. 1..3 = 1..(1 + j - (i + 1))
    BY <2>1, <2>2
  <2> HIDE DEF n
  <2>4. j = i + 3
    BY <1>1, <2>1, <2>3
  <2>5. a = s[i + 1] /\ b = s[(i + 1) + 1] /\ c = s[(i + 1) + 2]
    <3>1. /\ 1 \in 1..3 /\ 2 \in 1..3 /\ 3 \in 1..3
          /\ 1 + (i + 1) - 1 = i + 1
          /\ 2 + (i + 1) - 1 = (i + 1) + 1
          /\ 3 + (i + 1) - 1 = (i + 1) + 2
      BY <1>1, <2>1
    <3> QED BY <2>1, <2>2, <2>3, <3>1
  <2>6. i + 1 \in 1..n /\ (i + 1) + 2 <= n
    BY <1>1, <2>1, <2>4
  <2> QED BY <2>5, <2>6
<1>3. ASSUME NEW p \in 1..n, p + 2 <= n, s[p] = a, s[p + 1] = b, s[p + 2] = c
      PROVE  <<a, b, c>> \in SubSeqs(s)
  <2> DEFINE x == SubSeq(s, p, p + 2)
  <2>1. p - 1 \in 0..Len(s) /\ p + 2 \in 0..Len(s) /\ (p - 1) + 1 = p
    BY <1>1, <1>3
  <2>2. /\ x \in Seq(T) /\ Len(x) = 3
        /\ x[1] = s[p] /\ x[2] = s[p + 1] /\ x[3] = s[p + 2]
    BY <1>1, <1>3
  <2>3. x \in SubSeqs(s)
    <3>1. \A i, j \in 0..Len(s) : SubSeq(s, i + 1, j) \in SubSeqs(s)
      BY DEF SubSeqs
    <3> HIDE DEF n
    <3> QED BY <2>1, <3>1
  <2> HIDE DEF x
  <2>4. x = <<s[p], s[p + 1], s[p + 2]>>
    BY <2>2, ThreeElements
  <2> QED BY <1>3, <2>3, <2>4
<1> QED BY <1>2, <1>3

\* Five tokens whose second is y and whose third and fifth are not: a pair
\* ending in y is only at their head.
LEMMA HeadPair ==
  ASSUME NEW T, NEW t \in Seq(T), Len(t) = 5, NEW x, NEW y, x # y,
         t[2] = y, t[3] # x, t[3] # y, t[5] # y
  PROVE  <<x, y>> \in SubSeqs(t) <=> t[1] = x
<1>1. ASSUME NEW p \in 1..Len(t), p + 1 <= Len(t), t[p] = x, t[p + 1] = y
      PROVE  t[1] = x
  <2>1. p = 1 \/ p = 2 \/ p = 3 \/ p = 4
    BY <1>1
  <2>2. p # 2 /\ p # 3 /\ p # 4
    BY <1>1
  <2> QED BY <1>1, <2>1, <2>2
<1>2. ASSUME t[1] = x
      PROVE  \E p \in 1..Len(t) : p + 1 <= Len(t) /\ t[p] = x /\ t[p + 1] = y
  <2>1. 1 \in 1..Len(t) /\ 1 + 1 <= Len(t) /\ t[1 + 1] = y
    OBVIOUS
  <2> QED BY <1>2, <2>1
<1>3. <<x, y>> \in SubSeqs(t)
        <=> \E p \in 1..Len(t) : p + 1 <= Len(t) /\ t[p] = x /\ t[p + 1] = y
  BY Pairs
<1> QED BY <1>1, <1>2, <1>3

\* With y second and fourth and nowhere else, what is between two of them is
\* the third token.
LEMMA MiddleTriple ==
  ASSUME NEW T, NEW t \in Seq(T), Len(t) = 5, NEW x, NEW y,
         t[1] # y, t[2] = y, t[3] # y, t[4] = y
  PROVE  <<y, x, y>> \in SubSeqs(t) <=> t[3] = x
<1>1. ASSUME NEW p \in 1..Len(t), p + 2 <= Len(t), t[p] = y, t[p + 1] = x
      PROVE  t[3] = x
  <2>1. p = 1 \/ p = 2 \/ p = 3
    BY <1>1
  <2>2. p # 1 /\ p # 3
    BY <1>1
  <2> QED BY <1>1, <2>1, <2>2
<1>2. ASSUME t[3] = x
      PROVE  \E p \in 1..Len(t) : /\ p + 2 <= Len(t)
                                 /\ t[p] = y /\ t[p + 1] = x /\ t[p + 2] = y
  <2>1. 2 \in 1..Len(t) /\ 2 + 2 <= Len(t) /\ t[2 + 1] = t[3] /\ t[2 + 2] = y
    OBVIOUS
  <2> QED BY <1>2, <2>1
<1>3. <<y, x, y>> \in SubSeqs(t)
        <=> \E p \in 1..Len(t) : /\ p + 2 <= Len(t)
                                 /\ t[p] = y /\ t[p + 1] = x /\ t[p + 2] = y
  BY Triples
<1> QED BY <1>1, <1>2, <1>3

-----------------------------------------------------------------------------
\* The texts of the keys.

\* A record's text has five tokens, of which only the third is a number.
LEMMA RecordText ==
  ASSUME NumberTexts, DbTypeOK, NEW k \in DOMAIN db, k.kind \in RecordKinds
  PROVE  /\ \A s \in {"alert", "supplies"} :
              <<s, "_">> \in SubSeqs(Text(k)) <=> k.kind = s
         /\ \A id : <<"_", id, "_">> \in SubSeqs(Text(k)) <=> ToString(k.id) = id
<1>1. PICK t : t = <<k.kind, "_", ToString(k.id), "_", "time">>
  OBVIOUS
<1>2. Text(k) = t
  BY <1>1 DEF Text, RecordKinds
<1>3. PICK T : t \in Seq(T)
  <2>1. <<k.kind, "_", ToString(k.id), "_", "time">>
          \in Seq({k.kind, "_", ToString(k.id), "time"})
    OBVIOUS
  <2> QED BY <1>1, <2>1, Zenon
<1>4. /\ Len(t) = 5
      /\ t[1] = k.kind /\ t[2] = "_" /\ t[3] = ToString(k.id) /\ t[4] = "_" /\ t[5] = "time"
  BY <1>1
<1>5. k.id \in Nat /\ k.kind \in {"supplies", "alert", "emergencyNotification"}
  BY DEF DbTypeOK, Key, RecordKinds
<1>6. ToString(k.id) \notin {"_", "alert", "supplies"}
  BY <1>5 DEF NumberTexts
<1>7. ASSUME NEW s \in {"alert", "supplies"}
      PROVE  <<s, "_">> \in SubSeqs(t) <=> k.kind = s
  <2>1. s # "_" /\ t[3] # s /\ t[3] # "_" /\ t[5] # "_"
    BY <1>4, <1>6
  <2>2. <<s, "_">> \in SubSeqs(t) <=> t[1] = s
    BY <1>3, <1>4, <2>1, HeadPair
  <2> QED BY <1>4, <2>2
<1>8. ASSUME NEW id
      PROVE  <<"_", id, "_">> \in SubSeqs(t) <=> ToString(k.id) = id
  <2>1. t[1] # "_" /\ t[3] # "_"
    BY <1>4, <1>5, <1>6
  <2>2. <<"_", id, "_">> \in SubSeqs(t) <=> t[3] = id
    BY <1>3, <1>4, <2>1, MiddleTriple
  <2> QED BY <1>4, <2>2
<1> QED BY <1>2, <1>7, <1>8, Zenon

\* The keys beside the records carry the name of a series, but never before
\* a "_": their texts have one token, or three that end in that name.
LEMMA OneToken ==
  ASSUME NEW a, NEW x, NEW y
  PROVE  <<x, y>> \notin SubSeqs(<<a>>)
<1>1. PICK t : t = <<a>>
  OBVIOUS
<1>2. PICK T : t \in Seq(T)
  <2>1. <<a>> \in Seq({a})
    OBVIOUS
  <2> QED BY <1>1, <2>1, Zenon
<1>3. Len(t) = 1
  BY <1>1
<1>4. \A p \in 1..Len(t) : ~(p + 1 <= Len(t))
  BY <1>3
<1>5. <<x, y>> \notin SubSeqs(t)
  BY <1>2, <1>4, Pairs
<1> QED BY <1>1, <1>5, Zenon

LEMMA ThreeTokens ==
  ASSUME NEW a, NEW b, NEW c, NEW x, NEW y, a # x, c # y
  PROVE  <<x, y>> \notin SubSeqs(<<a, b, c>>)
<1>1. PICK t : t = <<a, b, c>>
  OBVIOUS
<1>2. PICK T : t \in Seq(T)
  <2>1. <<a, b, c>> \in Seq({a, b, c})
    OBVIOUS
  <2> QED BY <1>1, <2>1, Zenon
<1>3. Len(t) = 3 /\ t[1] # x /\ t[3] # y
  BY <1>1
<1>4. \A p \in 1..Len(t) : ~(p + 1 <= Len(t) /\ t[p] = x /\ t[p + 1] = y)
  <2> SUFFICES ASSUME NEW p \in 1..Len(t), p + 1 <= Len(t), t[p] = x, t[p + 1] = y
               PROVE  FALSE
    OBVIOUS
  <2>1. p = 1 \/ p = 2
    BY <1>3
  <2> QED BY <1>3, <2>1
<1>5. <<x, y>> \notin SubSeqs(t)
  BY <1>2, <1>4, Pairs
<1> QED BY <1>1, <1>5, Zenon

LEMMA OtherText ==
  ASSUME DbTypeOK, NEW k \in DOMAIN db, k.kind \notin RecordKinds
  PROVE  \A s \in {"alert", "supplies"} : <<s, "_">> \notin SubSeqs(Text(k))
<1> SUFFICES ASSUME NEW s \in {"alert", "supplies"}
             PROVE  <<s, "_">> \notin SubSeqs(Text(k))
  OBVIOUS
<1>1. k.kind \in FixedNames
  BY DEF DbTypeOK, Key
<1>2. CASE k.kind \in {"last_supplies", "last_alert"}
  <2>1. PICK name \in {"supplies", "alert"} : Text(k) = <<"last", "_", name>>
    BY <1>2 DEF Text, RecordKinds
  <2>2. "last" # s /\ name # "_"
    OBVIOUS
  <2> QED BY <2>1, <2>2, ThreeTokens
<1>3. CASE k.kind \notin {"last_supplies", "last_alert"}
  <2>1. Text(k) = <<k.kind>>
    BY <1>1, <1>3 DEF Text, FixedNames, RecordKinds
  <2> QED BY <2>1, OneToken
<1> QED BY <1>2, <1>3

\* A prefix selects the records of its series, all of them and nothing else.
LEMMA PrefixSelects ==
  ASSUME NumberTexts, DbTypeOK
  PROVE  \A s \in {"alert", "supplies"} : KeysWith({<<s, "_">>}) = RecordsOf(s)
<1> SUFFICES ASSUME NEW s \in {"alert", "supplies"}, NEW k \in DOMAIN db
             PROVE  <<s, "_">> \in SubSeqs(Text(k)) <=> k.kind = s
  BY DEF KeysWith, RecordsOf
<1>1. s \in RecordKinds
  BY DEF RecordKinds
<1> QED BY <1>1, RecordText, OtherText

\* With an id, the alerts that have it.
LEMMA IdSelects ==
  ASSUME NumberTexts, DbTypeOK, NEW id
  PROVE  KeysWith({<<"alert", "_">>, <<"_", id, "_">>})
           = {k \in RecordsOf("alert") : ToString(k.id) = id}
<1> SUFFICES ASSUME NEW k \in DOMAIN db
             PROVE  /\ <<"alert", "_">> \in SubSeqs(Text(k))
                    /\ <<"_", id, "_">> \in SubSeqs(Text(k))
                    <=> k.kind = "alert" /\ ToString(k.id) = id
  BY DEF KeysWith, RecordsOf
<1>1. "alert" \in RecordKinds
  BY DEF RecordKinds
<1> QED BY <1>1, RecordText, OtherText

-----------------------------------------------------------------------------
\* Whatever the parameters, a request for all alerts or all supplies gets the
\* records of the series and none of the keys that carry its name
\* (server.cpp 1202-1215, 1258-1281).
THEOREM ListsAreTheHistory ==
  ASSUME NumberTexts
  PROVE  Spec => []ListsAreExactlyTheHistory
<1>1. ASSUME TypeOK PROVE ListsAreExactlyTheHistory
  <2> SUFFICES ASSUME NEW p \in Params, ~BadParams(p), ParamValue(p, "id") = ""
               PROVE  /\ handleRestAlerts(p).keys = RecordsOf("alert")
                      /\ handleRestSupplies(p).keys = RecordsOf("supplies")
    BY DEF ListsAreExactlyTheHistory
  <2>1. /\ KeysWith({ALERTS_KEY_PREFIX}) = RecordsOf("alert")
        /\ KeysWith({SUPPLIES_KEY_PREFIX}) = RecordsOf("supplies")
    BY <1>1, PrefixSelects DEF TypeOK, ALERTS_KEY_PREFIX, SUPPLIES_KEY_PREFIX
  <2>2. handleRestAlerts(p).keys = RecordsOf("alert")
    BY <2>1 DEF handleRestAlerts, Reply
  <2>3. handleRestSupplies(p) = Found(RecordsOf("supplies"))
    BY <2>1 DEF handleRestSupplies
  <2>4. Found(RecordsOf("supplies")).keys = RecordsOf("supplies")
    BY DEF Found, Reply
  <2> QED BY <2>2, <2>3, <2>4
<1> QED BY <1>1, TypeCorrect, PTL

\* The answer carries the keys found, and is 404 when there are none.
LEMMA FoundAnswers ==
  ASSUME NEW keys
  PROVE  Found(keys).keys = keys /\ (Found(keys).status = 404 <=> keys = {})
<1>1. CASE keys = {}
  BY <1>1 DEF Found, Reply
<1>2. CASE keys # {}
  <2>1. Found(keys) = Reply(200, keys)
    BY <1>2 DEF Found
  <2>2. Reply(200, keys).keys = keys /\ Reply(200, keys).status = 200
    BY DEF Reply
  <2> QED BY <1>2, <2>1, <2>2
<1> QED BY <1>1, <1>2

\* The ids being unique and their texts different, one alert has the id.
LEMMA OneAlertById ==
  ASSUME NumberTexts, TypeOK, UniqueIds, "alert" \notin torn, NEW id
  PROVE  Cardinality({k \in RecordsOf("alert") : ToString(k.id) = id}) <= 1
<1> DEFINE keys == {k \in RecordsOf("alert") : ToString(k.id) = id}
<1>1. "alert" \in Series \ torn
  BY DEF Series, LastKey
<1>2. \A k1, k2 \in keys : k1 = k2
  <2> SUFFICES ASSUME NEW k1 \in keys, NEW k2 \in keys PROVE k1 = k2
    OBVIOUS
  <2>1. k1.id \in Nat /\ k2.id \in Nat
    BY DEF TypeOK, DbTypeOK, Key, RecordsOf
  <2>2. k1.id = k2.id
    BY <2>1 DEF NumberTexts
  <2> QED BY <1>1, <2>2 DEF UniqueIds
<1> SUFFICES Cardinality(keys) <= 1
  OBVIOUS
<1> HIDE DEF keys
<1>3. CASE keys = {}
  <2>1. Cardinality(keys) = 0
    BY <1>3, FS_EmptySet, Zenon
  <2> QED BY <2>1
<1>4. CASE keys # {}
  <2>1. PICK k \in keys : TRUE
    BY <1>4
  <2>2. keys = {k}
    BY <1>2, <2>1
  <2>3. Cardinality(keys) = 1
    BY <2>2, FS_Singleton, Zenon
  <2> QED BY <2>3
<1> QED BY <1>3, <1>4

\* Asked for one alert, a request gets the alerts with that id and no others,
\* not even those of another series, 404 when there are none; and one only,
\* unless a death let an id come back (server.cpp 1217-1237); "latest" apart.
THEOREM AlertsByIdAreExact ==
  ASSUME NumberTexts
  PROVE  Spec => []AlertByIdIsExact
<1>1. ASSUME TypeOK, UniqueIds PROVE AlertByIdIsExact
  <2> SUFFICES ASSUME NEW p \in Params, ~BadParams(p), ParamValue(p, "id") \notin {"", "latest"}
               PROVE  LET id == ParamValue(p, "id")
                          r  == handleRestAlerts(p)
                      IN  /\ r.keys = {k \in RecordsOf("alert") : ToString(k.id) = id}
                          /\ r.status = 404 <=> r.keys = {}
                          /\ "alert" \notin torn => Cardinality(r.keys) <= 1
    BY DEF AlertByIdIsExact
  <2> DEFINE id == ParamValue(p, "id")
             keys == {k \in RecordsOf("alert") : ToString(k.id) = id}
  <2> HIDE DEF id
  <2>1. handleRestAlerts(p) = Found(keys)
    <3>1. handleRestAlerts(p) = Found(KeysWith({ALERTS_KEY_PREFIX, <<"_", id, "_">>}))
      BY DEF handleRestAlerts, id
    <3>2. KeysWith({ALERTS_KEY_PREFIX, <<"_", id, "_">>}) = keys
      BY <1>1, IdSelects DEF TypeOK, ALERTS_KEY_PREFIX
    <3> QED BY <3>1, <3>2
  <2>2. "alert" \notin torn => Cardinality(keys) <= 1
    BY <1>1, OneAlertById
  <2>3. Found(keys).keys = keys /\ (Found(keys).status = 404 <=> keys = {})
    BY FoundAnswers
  <2> QED BY <2>1, <2>2, <2>3, Zenon DEF id
<1> QED BY <1>1, TypeCorrect, IdsAreUnique, PTL
=============================================================================
