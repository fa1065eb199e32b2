------------------------------ MODULE RestApi ------------------------------
(***************************************************************************)
(* What the REST process answers to GET /alerts and GET /supplies, as a    *)
(* function of the database it has open.  Keys are looked up by substring, *)
(* so here a key is its text: a sequence of tokens, "_" one of them.       *)
(***************************************************************************)
EXTENDS ServerDb, SequencesExt, FiniteSets

CONSTANT Params   \* the parameters of a request: sequences of [name, value]

\* The text of a key.  The timestamp holds no "_"; it is one token.
Text(k) ==
  CASE k.kind \in RecordKinds   -> <<k.kind, "_", ToString(k.id), "_", "time">>
    [] k.kind = "last_supplies" -> <<"last", "_", "supplies">>
    [] k.kind = "last_alert"    -> <<"last", "_", "alert">>
    [] OTHER                    -> <<k.kind>>

\* Mutant: the prefix without its "_".
SUPPLIES_KEY_WORD == <<"supplies">>

ALERTS_KEY_PREFIX   == <<"alert", "_">>
SUPPLIES_KEY_PREFIX == <<"supplies", "_">>

\* getJsonByKeySubstrings: the keys whose text contains every substring.
KeysWithAny(substrings) ==   \* mutant: some substring
  {k \in DOMAIN db : \E s \in substrings : s \in SubSeqs(Text(k))}
KeysWith(substrings) ==
  {k \in DOMAIN db : \A s \in substrings : s \in SubSeqs(Text(k))}

\* get_param_value: the first value of that name, "" when there is none.
ParamValue(params, name) ==
  LET vals == SelectSeq(params, LAMBDA p : p.name = name)
  IN  IF vals = <<>> THEN "" ELSE Head(vals).value

BadParams(params) ==
  Len(params) > 1 \/ (Len(params) = 1 /\ params[1].name # "id")

Reply(status, keys) == [status |-> status, keys |-> keys]

\* 404 when nothing matches.
Found(keys) == IF keys = {} THEN Reply(404, {}) ELSE Reply(200, keys)

handleRestAlerts(params) ==
  LET id == ParamValue(params, "id") IN
  IF BadParams(params) THEN Reply(400, {})
  ELSE IF id = "" THEN Reply(200, KeysWith({ALERTS_KEY_PREFIX}))
  ELSE Found(KeysWith({ALERTS_KEY_PREFIX, <<"_", id, "_">>}))

\* A missing "latestSupplies" throws out of the handler, which httplib answers
\* with 500.
handleRestSupplies(params) ==
  LET id == ParamValue(params, "id") IN
  IF BadParams(params) THEN Reply(400, {})
  ELSE IF id = "" THEN Found(KeysWith({SUPPLIES_KEY_PREFIX}))
  ELSE IF id = "latest"
       THEN IF Has("latestSupplies")
            THEN Reply(200, {Fixed("latestSupplies")})
            ELSE Reply(500, {})
  ELSE Found(KeysWith({SUPPLIES_KEY_PREFIX \o <<"_", id, "_">>}))

-----------------------------------------------------------------------------
Answering == lock > Server

\* Asked for one alert, a REST request gets exactly the alerts with that id,
\* 404 when there is none, and a single one unless a death let an id come back
\* (server.cpp 1217-1237); the ids of other series never slip in.  For "latest",
\* see AlertLatestIsFound.
AlertByIdIsExact ==
  Answering =>
    \A p \in Params :
      LET id == ParamValue(p, "id")
          r  == handleRestAlerts(p)
      IN  ~BadParams(p) /\ id \notin {"", "latest"} =>
            /\ r.keys = {k \in RecordsOf("alert") : ToString(k.id) = id}
            /\ r.status = 404 <=> r.keys = {}
            /\ "alert" \notin torn => Cardinality(r.keys) <= 1

\* Asked for all supplies or all alerts, a request gets every record of the
\* series and none of the keys beside them that carry the series' name
\* (last_supplies, latestSupplies, last_alert; server.cpp 1202-1215, 1258-1281).
ListsAreExactlyTheHistory ==
  Answering =>
    \A p \in Params :
      ~BadParams(p) /\ ParamValue(p, "id") = "" =>
        /\ handleRestAlerts(p).keys = RecordsOf("alert")
        /\ handleRestSupplies(p).keys = RecordsOf("supplies")

-----------------------------------------------------------------------------
\* What README.md says of the history and of the requests for it.

\* README.md 259-260 asks for one supplies update by its id: a record with the
\* id is in the history, so the request is answered with it.
SupplyByIdIsFound ==
  Answering =>
    \A p \in Params, k \in RecordsOf("supplies") :
      ~BadParams(p) /\ ParamValue(p, "id") = ToString(k.id)
        => k \in handleRestSupplies(p).keys

\* README.md 261 asks for the alert with id "latest" as it does for the supplies:
\* there are alerts in the history, so the request is answered with one.
AlertLatestIsFound ==
  Answering /\ RecordsOf("alert") # {} =>
    \A p \in Params :
      ~BadParams(p) /\ ParamValue(p, "id") = "latest"
        => handleRestAlerts(p).keys \cap RecordsOf("alert") # {}

\* README.md 254: "latest" returns the latest supplies update.
LatestIsTheNewest ==
  Answering /\ pc = "idle" =>
    \A p \in Params, k \in RecordsOf("supplies") :
      ~BadParams(p) /\ ParamValue(p, "id") = "latest" /\ Newest(k, "supplies")
        => \E a \in handleRestSupplies(p).keys : db[a] = db[k]

\* README.md 241 has an update's data written to the history if the update is
\* successful: the record of the update just done is of the stock as stored.
HistoryOnlyOfStoredUpdates ==
  pc = "idle" /\ job.kind \in Updates /\ Record("supplies", job.id) \in DOMAIN db
    => db[Record("supplies", job.id)] = StoredStock

\* README.md 241-261: at least one of the four holds.  So what violates this is a
\* state in which none of them does.
RestAsInReadme ==
  \/ SupplyByIdIsFound
  \/ AlertLatestIsFound
  \/ LatestIsTheNewest
  \/ HistoryOnlyOfStoredUpdates
=============================================================================
