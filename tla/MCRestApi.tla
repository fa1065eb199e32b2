----------------------------- MODULE MCRestApi -----------------------------
(* The instance of RestApi, and through it of ServerDb, that TLC checks.  *)
EXTENDS RestApi

Deltas2 == {-1, 2}
Deltas1 == {1}
Deltas0 == {0}

Id(v)    == [name |-> "id", value |-> v]
Other(v) == [name |-> "page", value |-> v]

ParamLists ==
  { <<>>, <<Id("")>>, <<Id("0")>>, <<Id("1")>>, <<Id("2")>>, <<Id("latest")>>,
    <<Other("1")>>, <<Id("1"), Other("1")>> }
=============================================================================
