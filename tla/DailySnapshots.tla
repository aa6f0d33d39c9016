--------------------------- MODULE DailySnapshots ---------------------------
(***************************************************************************)
(* The file of daily node snapshots (collect/daily_snapshot.rs): reading,  *)
(* inserting and pruning, the steps of a replacement, and the figures a    *)
(* summary derives from it.  The daily loop that uses it is in NodeDetails.*)
(*                                                                         *)
(* Dates are numbered, FirstDays are the first days of months.  A snapshot *)
(* maps nodes to their count of blocks; rewards are treated alike.         *)
(***************************************************************************)
EXTENDS Integers, FiniteSets

CONSTANTS
    Nodes,
    NameOf,         \* the name of a node, by which it is found if its id is not
    Quantities,
    LastDate,
    FirstDays,
    HistoryLimit,   \* DAILY_NODE_SNAPSHOT_HISTORY_LIMIT
    DiskFaults,     \* file operations may fail
    None

Dates == 1..LastDate

ASSUME NodesAssumption == Nodes \subseteq Nat /\ IsFiniteSet(Nodes)
ASSUME QuantitiesAssumption == Quantities \subseteq Nat /\ None \notin Nat
ASSUME DatesAssumption == LastDate \in Nat \ {0} /\ FirstDays \subseteq Dates
\* No month is longer than 31 days, and the history holds 32: that of a date,
\* of the day before and of the first of the month before.
ASSUME HistoryLimitAssumption ==
    /\ HistoryLimit \in Nat \ {0, 1}
    /\ DiskFaults \in BOOLEAN
    /\ \A d \in FirstDays :
          (\E e \in FirstDays : e < d) =>
              \E e \in FirstDays : e < d /\ d - e < HistoryLimit

VARIABLES
    file,           \* the history on disk, None without a file
    step,           \* the next step of the replacement under way
    store           \* the new contents, in memory and in the temporary file

fileVars == <<file, step, store>>

Snapshots == UNION {[S -> Quantities] : S \in SUBSET Nodes}
ASSUME NoneAssumption == \A S \in SUBSET Dates : None \notin [S -> Snapshots]

IsHistory(h) == DOMAIN h \subseteq Dates /\ h \in [DOMAIN h -> Snapshots]

NoSnapshot == [n \in {} |-> 0]
NoHistory == [d \in {} |-> NoSnapshot]
Contents == IF file = None THEN NoHistory ELSE file

FileTypeOK ==
    /\ IsHistory(Contents)
    /\ step \in {"none", "write", "remove", "rename"}
    /\ IsHistory(store)
    /\ step = "none" => store = NoHistory
    /\ Cardinality(DOMAIN Contents) <= HistoryLimit

FileInit ==
    /\ file = None
    /\ step = "none"
    /\ store = NoHistory

-----------------------------------------------------------------------------
(* StoredDailyNodeSnapshotStore.                                           *)

SnapshotFor(h, d) == IF d \in DOMAIN h THEN h[d] ELSE NoSnapshot

Upsert(h, d, s) == [e \in DOMAIN h \cup {d} |-> IF e = d THEN s ELSE h[e]]

\* Mutant: the history grows for ever.
PruneNever(h) == h

\* Mutant: one day too many goes.
PruneTooMuch(h) ==
    [e \in {d \in DOMAIN h : Cardinality({x \in DOMAIN h : x >= d}) < HistoryLimit} |-> h[e]]

\* The snapshots are sorted by date; the first ones go.
Prune(h) ==
    [e \in {d \in DOMAIN h : Cardinality({x \in DOMAIN h : x >= d}) <= HistoryLimit} |-> h[e]]

\* What read_store can return: a missing, empty or unreadable file is an
\* empty history.
ReadStore == {Contents} \cup (IF DiskFaults THEN {NoHistory} ELSE {})

-----------------------------------------------------------------------------
(* The figures of a summary.                                               *)

\* The first day of the month before d, if d itself begins a month.
MonthStart(d) ==
    IF d \in FirstDays /\ \E e \in FirstDays : e < d
    THEN CHOOSE e \in FirstDays : e < d /\ \A x \in FirstDays : x < d => x <= e
    ELSE 0

\* Mutant: a namesake is as good as the node itself.
FindByNameFirst(s, n) ==
    LET named == {m \in DOMAIN s : NameOf[m] = NameOf[n]}
    IN IF named # {} THEN s[CHOOSE m \in named : \A x \in named : m <= x] ELSE None

\* find_snapshot_detail: by id, else the first node of that name.
Find(s, n) ==
    LET named == {m \in DOMAIN s : NameOf[m] = NameOf[n]}
    IN CASE n \in DOMAIN s -> s[n]
         [] n \notin DOMAIN s /\ named # {} -> s[CHOOSE m \in named : \A x \in named : m <= x]
         [] OTHER -> None

Delta(current, previous) ==
    IF previous = None THEN None
    ELSE IF current > previous THEN current - previous ELSE 0

\* build_daily_summary_details.
Figures(h, d, details) ==
    [n \in DOMAIN details |->
        [daily |-> Delta(details[n], Find(SnapshotFor(h, d - 1), n)),
         monthly |-> Delta(details[n], Find(SnapshotFor(h, MonthStart(d)), n))]]

-----------------------------------------------------------------------------
(* save_snapshot and write_store.  A step that fails ends the save with an *)
(* error; the temporary file then stays and is never looked at again.      *)

SaveEnds == step' = "none" /\ store' = NoHistory

\* The history h was read again; an empty snapshot is not recorded.
BeginSave(h, d, details) ==
    /\ step = "none"
    /\ IF details = NoSnapshot
       THEN UNCHANGED <<step, store>>
       ELSE store' = Prune(Upsert(h, d, details)) /\ step' = "write"
    /\ UNCHANGED file

\* Mutant: the old file is out of the way before the new one is written.
WriteTempAfterRemoval ==
    /\ step = "write"
    /\ step' = "remove"
    /\ file' = None
    /\ UNCHANGED store

WriteTemp == step = "write" /\ step' = "remove" /\ UNCHANGED <<file, store>>

RemoveOld ==
    /\ step = "remove"
    /\ file' = None
    /\ step' = "rename"
    /\ UNCHANGED store

Rename ==
    /\ step = "rename"
    /\ file' = store
    /\ SaveEnds

SaveFails ==
    /\ DiskFaults
    /\ step # "none"
    /\ SaveEnds
    /\ UNCHANGED file
=============================================================================
