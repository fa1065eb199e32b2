----------------------------- MODULE HistoryLog -----------------------------
(***************************************************************************)
(* What the database promises its readers: a log of records, each appended *)
(* after every earlier one of its kind, in the order of the runs and, in a *)
(* run, of the ids; and one published value, that of the record that was   *)
(* the newest of the supplies when it was published.                       *)
(***************************************************************************)
EXTENDS Integers, Sequences

VARIABLES
  log,      \* a function from the keys of the records to their values
  latest    \* the published value, as a sequence of at most one

OfKind(kind) == {k \in DOMAIN log : k.kind = kind}

Before(j, k) == j.at < k.at \/ (j.at = k.at /\ j.id < k.id)

AppendRecord ==
  \E k \in DOMAIN log' :
    /\ DOMAIN log' = DOMAIN log \cup {k}
    /\ \A j \in DOMAIN log : log'[j] = log[j]
    /\ \A j \in OfKind(k.kind) : Before(j, k)
    /\ UNCHANGED latest

Publish ==
  \E k \in OfKind("supplies") :
    /\ \A j \in OfKind("supplies") : j = k \/ Before(j, k)
    /\ latest' = <<log[k]>>
    /\ UNCHANGED log

Init == log = [k \in {} |-> 0] /\ latest = <<>>

Next == AppendRecord \/ Publish

Spec == Init /\ [][Next]_<<log, latest>>
=============================================================================
