---------------------------- MODULE DailyHistory ----------------------------
(***************************************************************************)
(* What a history of daily snapshots promises: it records one snapshot per *)
(* date, keeps the latest Limit dates, and is at risk only from the moment *)
(* a snapshot replaces the others until the replacement has settled.       *)
(***************************************************************************)
EXTENDS Integers, FiniteSets

CONSTANTS
    Dates,
    Snapshots,      \* what can be recorded of a day
    Limit,          \* how many days are kept
    MayMisread      \* the medium may fail to return what it holds

VARIABLES
    history,        \* a snapshot per recorded date
    exposed         \* the latest record is not safe yet

vars == <<history, exposed>>

Empty == [d \in {} |-> {}]

Latest(D) == {d \in D : Cardinality({e \in D : e >= d}) <= Limit}

With(h, d, s) ==
    [e \in Latest(DOMAIN h \cup {d}) |-> IF e = d THEN s ELSE h[e]]

Init == history = Empty /\ exposed = FALSE

\* A medium that fails to return the history makes the writer start afresh.
Record(d, s) ==
    /\ ~exposed /\ exposed' = TRUE
    /\ \/ history' = With(history, d, s)
       \/ MayMisread /\ history' = With(Empty, d, s)

Settle == exposed /\ exposed' = FALSE /\ UNCHANGED history

Forget == exposed /\ exposed' = FALSE /\ history' = Empty

Next ==
    \/ \E d \in Dates, s \in Snapshots : Record(d, s)
    \/ Settle
    \/ Forget

Spec == Init /\ [][Next]_vars
=============================================================================
