-------------------------- MODULE NodeDetailsProofs --------------------------
(***************************************************************************)
(* For any nodes, answers, months and faults: failed details are gaps,     *)
(* rankings outlive the details they came with, a figure in a summary is   *)
(* a difference to what was recorded on the right day, and the file        *)
(* implements the history that DailyHistory promises.                      *)
(***************************************************************************)
EXTENDS NodeDetails, SequenceLemmas, FiniteSetTheorems

\* A node that is not waited for has a detail unless its request failed.
DetailsInStep ==
    /\ today \in Dates
    /\ DOMAIN details \subseteq Nodes /\ details \in [DOMAIN details -> Detail]
    /\ fetching \subseteq Nodes /\ failures \subseteq Nodes \ fetching
    /\ refresh # "details" => fetching = {}
    /\ \A n \in Nodes \ fetching : n \in DOMAIN details <=> n \notin failures

\* Every entry of h is what was recorded on its day.
Faithful(h) == \A d \in DOMAIN h : d \in DOMAIN recorded /\ h[d] = recorded[d]

\* What a save may be about to put in the place of the history h.
Replacement(h) == Prune(Upsert(h, schedule, report))

\* The file holds recorded snapshots only, its replacement adds the report, and
\* it is out of the way when the replacement takes its place.
HistoryInStep ==
    /\ report \in Snapshots
    /\ daily \in {"figures", "save", "saving"} => schedule \in Dates
    /\ IsHistory(recorded)
    /\ IsHistory(store)
    /\ IsHistory(Contents) /\ Faithful(Contents)
    /\ step # "none" => daily = "saving"
    /\ step \in {"write", "remove"} =>
          \/ store = Replacement(Contents)
          \/ DiskFaults /\ store = Replacement(NoHistory)
    /\ step = "rename" =>
          /\ file = None
          /\ \A d \in DOMAIN store :
                IF d = schedule THEN store[d] = report
                ELSE d \in DOMAIN recorded /\ store[d] = recorded[d]

IInv == DetailsInStep /\ HistoryInStep

-----------------------------------------------------------------------------
(* Nodes, snapshots and histories.                                         *)

\* A set of nodes has a first one.
LEMMA FirstNode ==
    ASSUME NEW S \in SUBSET Nodes, S # {}
    PROVE  \E m \in S : \A x \in S : m <= x
  BY NodesAssumption, Least

\* The set of snapshots, without the union.
LEMMA SnapshotShape ==
    ASSUME NEW s
    PROVE  s \in Snapshots <=> DOMAIN s \subseteq Nodes /\ s \in [DOMAIN s -> Quantities]
  BY DEF Snapshots

\* A day without a snapshot is one with an empty snapshot.
LEMMA NoSnapshotShape ==
    NoSnapshot \in Snapshots /\ DOMAIN NoSnapshot = {}
  <1>1. DOMAIN NoSnapshot = {}
    BY DEF NoSnapshot
  <1>2. NoSnapshot \in [{} -> Quantities]
    BY DEF NoSnapshot
  <1> QED
    BY <1>1, <1>2, SnapshotShape

\* The empty history has no entry to be wrong about.
LEMMA NoHistoryFaithful == IsHistory(NoHistory) /\ Faithful(NoHistory) /\ DOMAIN NoHistory = {}
  <1>1. DOMAIN NoHistory = {}
    BY DEF NoHistory
  <1>2. NoHistory \in [{} -> Snapshots]
    BY DEF NoHistory
  <1> QED
    BY <1>1, <1>2 DEF IsHistory, Faithful

\* Reading returns what the file holds or, by a fault, nothing.
LEMMA ReadStoreShape ==
    ASSUME NEW h \in ReadStore
    PROVE  h = Contents \/ (DiskFaults /\ h = NoHistory)
  <1>1. CASE DiskFaults
    <2>1. ReadStore = {Contents} \cup {NoHistory}
      BY <1>1 DEF ReadStore
    <2> QED
      BY <1>1, <2>1
  <1>2. CASE ~ DiskFaults
    <2>1. ReadStore = {Contents} \cup {}
      BY <1>2 DEF ReadStore
    <2> QED
      BY <2>1
  <1> QED
    BY <1>1, <1>2

\* A replacement holds the report and entries of the history.
LEMMA ReplacementShape ==
    ASSUME NEW h
    PROVE  \A d \in DOMAIN Replacement(h) :
              IF d = schedule THEN Replacement(h)[d] = report
              ELSE d \in DOMAIN h /\ Replacement(h)[d] = h[d]
  BY DEF Replacement, Prune, Upsert

\* A replacement is a history.
LEMMA ReplacementIsHistory ==
    ASSUME NEW h, IsHistory(h), schedule \in Dates, report \in Snapshots
    PROVE  IsHistory(Replacement(h))
  BY DEF IsHistory, Replacement, Prune, Upsert

\* A detail is found only in what was recorded on that day.
LEMMA FoundIsBasis ==
    ASSUME IsHistory(recorded), NEW h, Faithful(h), NEW d, NEW n,
           Find(SnapshotFor(h, d), n) # None
    PROVE  Find(SnapshotFor(h, d), n) \in Basis(n, d)
  <1> DEFINE s == SnapshotFor(h, d)
  <1> DEFINE named == {m \in DOMAIN s : NameOf[m] = NameOf[n]}
  <1>1. CASE d \notin DOMAIN h
    <2>1. DOMAIN s = {}
      BY <1>1, NoSnapshotShape DEF SnapshotFor
    <2>2. Find(s, n) = None
      BY <2>1 DEF Find
    <2> QED
      BY <2>2
  <1>2. CASE d \in DOMAIN h
    <2>1. s = SnapshotFor(recorded, d)
      BY <1>2 DEF SnapshotFor, Faithful
    <2>2. DOMAIN s \subseteq Nodes
      BY <1>2, SnapshotShape DEF SnapshotFor, Faithful, IsHistory
    <2>3. CASE n \in DOMAIN s
      <3>1. Find(s, n) = s[n]
        BY <2>3 DEF Find
      <3> QED
        BY <3>1, <2>1, <2>3 DEF Basis
    <2>4. CASE n \notin DOMAIN s /\ named # {}
      <3>1. \E m \in named : \A x \in named : m <= x
        BY <2>2, <2>4, FirstNode
      <3> DEFINE first == CHOOSE m \in named : \A x \in named : m <= x
      <3>2. first \in named
        BY <3>1
      <3>3. Find(s, n) = s[first]
        BY <2>4 DEF Find
      <3> QED
        BY <3>2, <3>3, <2>1, <2>4 DEF Basis
    <2>5. CASE n \notin DOMAIN s /\ named = {}
      <3>1. Find(s, n) = None
        BY <2>5 DEF Find
      <3> QED
        BY <3>1
    <2> QED
      BY <2>3, <2>4, <2>5
  <1> QED
    BY <1>1, <1>2

-----------------------------------------------------------------------------
(* The details.                                                            *)

\* The ways to change the store of details, and what stays.
DetailVars == <<details, refresh, fetching, failures, today>>

\* No request is answered twice and no failure leaves a detail behind.
LEMMA DetailsStep ==
    ASSUME DetailsInStep, [Next]_vars
    PROVE  DetailsInStep'
  <1> USE DEF DetailsInStep, refreshVars
  <1>1. CASE StartRefresh
    BY <1>1 DEF StartRefresh
  <1>2. ASSUME NEW n \in Nodes, NEW q \in Answers[n][today], DetailArrives(n, q)
        PROVE  DetailsInStep'
    <2>1. q \in Quantities
      BY AnswersAssumption
    <2>2. /\ DOMAIN details' = DOMAIN details \cup {n}
          /\ details' \in [DOMAIN details' -> Detail]
      BY <1>2, <2>1 DEF DetailArrives, MergeDetail, Detail
    <2> QED
      BY <1>2, <2>2 DEF DetailArrives
  <1>3. ASSUME NEW n \in Nodes, DetailFails(n)
        PROVE  DetailsInStep'
    <2>1. /\ DOMAIN details' = DOMAIN details \ {n}
          /\ details' \in [DOMAIN details' -> Detail]
      BY <1>3 DEF DetailFails, RemoveDetail
    <2> QED
      BY <1>3, <2>1 DEF DetailFails
  <1>4. CASE DetailsJoined
    BY <1>4 DEF DetailsJoined
  <1>5. ASSUME NEW listed \in Lists, RankingsArrive(listed)
        PROVE  DetailsInStep'
    <2>1. \A n \in DOMAIN listed : listed[n] \in Rankings
      BY DEF Lists
    <2>2. DOMAIN details' = DOMAIN details /\ details' \in [DOMAIN details' -> Detail]
      BY <1>5, <2>1 DEF RankingsArrive, MergeRankings, Detail
    <2> QED
      BY <1>5, <2>2 DEF RankingsArrive
  <1>6. CASE RankingsFail
    BY <1>6 DEF RankingsFail
  <1>7. CASE NextDay
    BY <1>7, DatesAssumption DEF NextDay, Dates
  <1>8. CASE ReadDetails \/ ComputeFigures \/ Save \/ SaveStep \/ Saved \/ SaveFailed \/ Notified
    BY <1>8 DEF ReadDetails, ComputeFigures, Save, SaveStep, Saved, SaveFailed, Notified
  <1>9. CASE Restart
    <2>1. DOMAIN details' = {} /\ details' \in [DOMAIN details' -> Detail]
      BY <1>9 DEF Restart, NoDetails
    <2> QED
      BY <1>9, <2>1 DEF Restart
  <1>10. CASE UNCHANGED vars
    BY <1>10 DEF vars
  <1> QED
    BY <1>1, <1>2, <1>3, <1>4, <1>5, <1>6, <1>7, <1>8, <1>9, <1>10 DEF Next

-----------------------------------------------------------------------------
(* The history.                                                            *)

\* What the refresh loop and the passing of days leave alone.
LEMMA HistoryUntouched ==
    ASSUME HistoryInStep, UNCHANGED <<fileVars, dailyVars, ghostVars>>
    PROVE  HistoryInStep'
  BY DEF HistoryInStep, fileVars, dailyVars, ghostVars, Contents, Faithful, Replacement,
         Upsert, Prune

\* The daily loop, its faults and restarts keep the file to what was recorded.
LEMMA HistoryStep ==
    ASSUME DetailsInStep, HistoryInStep, [Next]_vars
    PROVE  HistoryInStep'
  <1>1. CASE \/ StartRefresh \/ DetailsJoined \/ RankingsFail \/ NextDay \/ UNCHANGED vars
             \/ \E n \in Nodes : DetailFails(n) \/ \E q \in Answers[n][today] : DetailArrives(n, q)
             \/ \E listed \in Lists : RankingsArrive(listed)
    <2>1. UNCHANGED <<fileVars, dailyVars, ghostVars>>
      BY <1>1 DEF StartRefresh, DetailsJoined, RankingsFail, NextDay, vars, DetailFails,
                  DetailArrives, RankingsArrive
    <2> QED
      BY <2>1, HistoryUntouched
  <1> USE DEF HistoryInStep
  <1>2. CASE ReadDetails
    <2>1. report' \in Snapshots
      <3>1. DOMAIN report' \subseteq Nodes /\ report' \in [DOMAIN report' -> Quantities]
        BY <1>2 DEF ReadDetails, DetailsInStep, Detail
      <3> QED
        BY <3>1, SnapshotShape
    <2> QED
      BY <1>2, <2>1 DEF ReadDetails, fileVars, ghostVars, Contents, Faithful
  <1>3. CASE ComputeFigures
    BY <1>3 DEF ComputeFigures, fileVars, Contents, Faithful
  <1>4. CASE Save
    <2>1. PICK h \in ReadStore : BeginSave(h, schedule, report)
      BY <1>4 DEF Save
    <2>2. Contents' = Contents /\ Faithful(Contents)' /\ recorded' = recorded /\ schedule' = schedule
      BY <1>4, <2>1 DEF Save, BeginSave, Contents, Faithful
    <2>3. CASE report = NoSnapshot
      BY <1>4, <2>1, <2>2, <2>3, NoSnapshotShape DEF Save, BeginSave, HandOver
    <2>4. CASE report # NoSnapshot
      <3>1. daily' = "saving" /\ report' = report
        BY <1>4, <2>4 DEF Save
      <3>2. step' = "write" /\ store' = Replacement(h)
        BY <2>1, <2>4 DEF BeginSave, Replacement
      <3>3. h = Contents \/ (DiskFaults /\ h = NoHistory)
        BY <2>1, ReadStoreShape
      <3>4. Replacement(Contents)' = Replacement(Contents) /\ Replacement(NoHistory)' = Replacement(NoHistory)
        BY <2>2, <3>1 DEF Replacement, Upsert, Prune
      <3>5. IsHistory(store')
        <4>1. schedule \in Dates
          BY <1>4 DEF Save
        <4> QED
          BY <3>2, <3>3, <4>1, NoHistoryFaithful, ReplacementIsHistory
      <3> QED
        BY <1>4, <2>2, <3>1, <3>2, <3>3, <3>4, <3>5 DEF Save
    <2> QED
      BY <2>3, <2>4
  <1>5. CASE SaveStep
    <2>1. CASE WriteTemp
      BY <1>5, <2>1 DEF SaveStep, WriteTemp, dailyVars, ghostVars, Contents, Faithful,
                        Replacement, Upsert, Prune
    <2>2. CASE RemoveOld
      <3>1. Contents' = NoHistory /\ Faithful(Contents)' /\ IsHistory(Contents)'
        BY <1>5, <2>2, NoHistoryFaithful DEF RemoveOld, Contents, Faithful
      <3>2. \/ store = Replacement(Contents)
            \/ store = Replacement(NoHistory)
        BY <2>2 DEF RemoveOld
      <3>3. \A d \in DOMAIN store :
                IF d = schedule THEN store[d] = report
                ELSE d \in DOMAIN recorded /\ store[d] = recorded[d]
        BY <3>2, ReplacementShape, NoHistoryFaithful DEF Faithful
      <3> QED
        BY <1>5, <2>2, <3>1, <3>3 DEF SaveStep, RemoveOld, dailyVars, ghostVars
    <2> QED
      BY <1>5, <2>1, <2>2 DEF SaveStep
  <1>6. CASE Saved
    <2>1. recorded' = Upsert(recorded, schedule, report)
      BY <1>6 DEF Saved
    <2>2. IsHistory(recorded')
      BY <1>6, <2>1 DEF Saved, Upsert, IsHistory
    <2>3. Faithful(Contents)' /\ IsHistory(Contents)'
      <3>1. file' = store /\ step = "rename"
        BY <1>6 DEF Saved, Rename
      <3>2. \A d \in DOMAIN store : d \in DOMAIN recorded' /\ store[d] = recorded'[d]
        BY <2>1, <3>1 DEF Upsert
      <3> QED
        BY <3>1, <3>2, NoHistoryFaithful DEF Contents, Faithful
    <2> QED
      BY <1>6, <2>2, <2>3, NoSnapshotShape, NoHistoryFaithful DEF Saved, Rename, SaveEnds, HandOver
  <1>7. CASE SaveFailed
    BY <1>7, NoSnapshotShape, NoHistoryFaithful DEF SaveFailed, SaveFails, SaveEnds, HandOver, Contents, Faithful
  <1>8. CASE Notified
    BY <1>8 DEF Notified, fileVars, ghostVars, Contents, Faithful
  <1>9. CASE Restart
    BY <1>9, NoSnapshotShape, NoHistoryFaithful DEF Restart, Contents, Faithful
  <1> QED
    BY <1>1, <1>2, <1>3, <1>4, <1>5, <1>6, <1>7, <1>8, <1>9 DEF Next

\* The loops start with nothing known and nothing recorded.
LEMMA InitIInv == Init => IInv
  <1> SUFFICES ASSUME Init PROVE IInv
    OBVIOUS
  <1>1. DetailsInStep
    <2>1. DOMAIN details = {} /\ details \in [DOMAIN details -> Detail]
      BY DEF Init, NoDetails
    <2>2. today \in Dates
      BY DatesAssumption DEF Init, Dates
    <2> QED
      BY <2>1, <2>2 DEF Init, DetailsInStep
  <1>2. HistoryInStep
    BY NoSnapshotShape, NoHistoryFaithful DEF Init, FileInit, HistoryInStep, Contents
  <1> QED
    BY <1>1, <1>2 DEF IInv

\* The strengthened invariant holds at all times.
LEMMA Invariance == Spec => []IInv
  <1>1. IInv /\ [Next]_vars => IInv'
    BY DetailsStep, HistoryStep DEF IInv
  <1> QED
    BY <1>1, InitIInv, PTL DEF Spec

-----------------------------------------------------------------------------
(* Details and rankings.                                                   *)

\* For any nodes and answers: once a refresh is over, the nodes without a
\* detail are those it warned of (fetch_all_node_details).
THEOREM GapsAreReported == Spec => []FailuresAreGaps
  <1>1. IInv => FailuresAreGaps
    BY DEF IInv, DetailsInStep, FailuresAreGaps
  <1> QED
    BY <1>1, Invariance, PTL

\* For any nodes and rankings: while a node has a detail, its ranking is
\* replaced by a listed one only (merge_node_detail_for, merge_node_ranking_for).
THEOREM RankingsOutliveDetails == Spec => RankingsKept
  <1> DEFINE Kept == \A n \in DOMAIN details \cap DOMAIN details' :
                        details'[n].ranking # details[n].ranking =>
                            refresh = "rankings" /\ details'[n].ranking # 0
  <1>1. IInv /\ [Next]_vars => [Kept]_vars
    <2> SUFFICES ASSUME IInv, Next, NEW n \in DOMAIN details \cap DOMAIN details',
                        details'[n].ranking # details[n].ranking
                 PROVE  refresh = "rankings" /\ details'[n].ranking # 0
      OBVIOUS
    <2>1. CASE UNCHANGED details
      BY <2>1
    <2>2. ASSUME NEW m \in Nodes, NEW q, DetailArrives(m, q)
          PROVE  FALSE
      BY <2>2 DEF DetailArrives, MergeDetail
    <2>3. ASSUME NEW m \in Nodes, DetailFails(m)
          PROVE  FALSE
      BY <2>3 DEF DetailFails, RemoveDetail
    <2>4. ASSUME NEW listed \in Lists, RankingsArrive(listed)
          PROVE  refresh = "rankings" /\ details'[n].ranking # 0
      <3>1. \A m \in DOMAIN listed : listed[m] # 0
        BY RankingsAssumption DEF Lists
      <3>2. details'[n] = IF n \in DOMAIN listed
                          THEN [details[n] EXCEPT !.ranking = listed[n]]
                          ELSE details[n]
        BY <2>4 DEF RankingsArrive, MergeRankings
      <3>3. n \in DOMAIN listed
        BY <3>2
      <3>4. details[n] \in Detail
        BY DEF IInv, DetailsInStep
      <3>5. details'[n].ranking = listed[n]
        BY <3>2, <3>3, <3>4 DEF Detail
      <3> QED
        BY <2>4, <3>1, <3>3, <3>5 DEF RankingsArrive
    <2>5. CASE Restart
      BY <2>5 DEF Restart, NoDetails
    <2> QED
      BY <2>1, <2>2, <2>3, <2>4, <2>5
         DEF Next, StartRefresh, DetailsJoined, RankingsFail, NextDay, ReadDetails,
             ComputeFigures, Save, SaveStep, Saved, SaveFailed, Notified, refreshVars
  <1>2. Spec => [][Kept]_vars
    BY <1>1, Invariance, PTL DEF Spec
  <1> QED
    BY <1>2 DEF RankingsKept

-----------------------------------------------------------------------------
(* The figures of a summary.                                               *)

\* A figure that was not found is missing, one that was found has its basis.
LEMMA FigureHasBasis ==
    ASSUME IsHistory(recorded), NEW h, Faithful(h), NEW d, NEW n, NEW q,
           Delta(q, Find(SnapshotFor(h, d), n)) # None
    PROVE  \E b \in Basis(n, d) : Delta(q, Find(SnapshotFor(h, d), n)) = Delta(q, b)
  <1>1. Find(SnapshotFor(h, d), n) # None
    BY DEF Delta
  <1> QED
    BY <1>1, FoundIsBasis

\* For any nodes, months, answers, faults and restarts: a reported figure is
\* the difference to what was recorded on the day it is meant for
\* (daily_summary_details).
THEOREM FiguresAreDifferences == Spec => []FiguresNeverWrong
  <1>1. Init => FiguresNeverWrong
    BY DEF Init, FiguresNeverWrong, Reported
  <1>2. ASSUME IInv, FiguresNeverWrong, [Next]_vars
        PROVE  FiguresNeverWrong'
    <2>1. ASSUME UNCHANGED <<report, figures, schedule, recorded>>, Reported' => Reported
          PROVE  FiguresNeverWrong'
      BY <1>2, <2>1 DEF FiguresNeverWrong, Basis
    <2>2. CASE ~ Reported'
      BY <2>2 DEF FiguresNeverWrong
    <2>3. CASE ComputeFigures
      <3>1. PICK h \in ReadStore : figures' = Figures(h, schedule, report)
        BY <2>3 DEF ComputeFigures
      <3>2. Faithful(h) /\ IsHistory(recorded)
        BY <1>2, <3>1, ReadStoreShape, NoHistoryFaithful DEF IInv, HistoryInStep
      <3>3. UNCHANGED <<report, schedule, recorded>>
        BY <2>3 DEF ComputeFigures
      <3>4. ASSUME NEW n \in DOMAIN figures'
            PROVE  /\ figures'[n].daily = Delta(report[n], Find(SnapshotFor(h, schedule - 1), n))
                   /\ figures'[n].monthly =
                          Delta(report[n], Find(SnapshotFor(h, MonthStart(schedule)), n))
        BY <3>1, <3>4 DEF Figures
      <3>5. \A n, d : Basis(n, d)' = Basis(n, d)
        BY <3>3 DEF Basis
      <3>6. ASSUME NEW n \in DOMAIN figures', figures'[n].daily # None
            PROVE  \E b \in Basis(n, schedule - 1) : figures'[n].daily = Delta(report[n], b)
        BY <3>2, <3>4, <3>6, FigureHasBasis
      <3>7. ASSUME NEW n \in DOMAIN figures', figures'[n].monthly # None
            PROVE  \E b \in Basis(n, MonthStart(schedule)) :
                      figures'[n].monthly = Delta(report[n], b)
        BY <3>2, <3>4, <3>7, FigureHasBasis
      <3>8. UNCHANGED <<schedule - 1, MonthStart(schedule)>>
        BY <3>3 DEF MonthStart
      <3> QED
        BY <3>3, <3>5, <3>6, <3>7, <3>8 DEF FiguresNeverWrong, Basis
    <2>4. CASE Save
      <3>1. CASE report = NoSnapshot
        BY <2>2, <2>4, <3>1 DEF Save, HandOver, Reported
      <3>2. CASE report # NoSnapshot
        BY <2>1, <2>4, <3>2 DEF Save, Reported
      <3> QED
        BY <3>1, <3>2
    <2>5. CASE SaveStep
      BY <2>1, <2>5 DEF SaveStep, dailyVars, ghostVars, Reported
    <2>6. CASE ReadDetails \/ Saved \/ SaveFailed \/ Notified \/ Restart
      BY <2>2, <2>6 DEF ReadDetails, Saved, SaveFailed, HandOver, Notified, Restart, Reported
    <2>7. CASE \/ StartRefresh \/ DetailsJoined \/ RankingsFail \/ NextDay \/ UNCHANGED vars
               \/ \E n \in Nodes : DetailFails(n) \/ \E q \in Answers[n][today] : DetailArrives(n, q)
               \/ \E listed \in Lists : RankingsArrive(listed)
      <3>1. UNCHANGED <<dailyVars, ghostVars>>
        BY <2>7 DEF StartRefresh, DetailsJoined, RankingsFail, NextDay, vars, DetailFails,
                    DetailArrives, RankingsArrive
      <3> QED
        BY <2>1, <3>1 DEF dailyVars, ghostVars, Reported
    <2> QED
      BY <1>2, <2>3, <2>4, <2>5, <2>6, <2>7 DEF Next
  <1>3. IInv /\ FiguresNeverWrong /\ [Next]_vars => FiguresNeverWrong'
    BY <1>2
  <1> QED
    BY <1>1, <1>3, Invariance, PTL DEF Spec

-----------------------------------------------------------------------------
(* The file implements DailyHistory.                                       *)

\* The instance counts like the module it comes from.
LEMMA SameCardinality == \A S : H!Cardinality(S) = Cardinality(S)
  BY DEF H!Cardinality, Cardinality

\* A replacement is the history with the report, its latest days kept.
LEMMA ReplacementIsWith ==
    ASSUME NEW h
    PROVE  Replacement(h) = H!With(h, schedule, report)
  <1> DEFINE u == Upsert(h, schedule, report)
  <1>1. DOMAIN u = DOMAIN h \cup {schedule}
    BY DEF Upsert
  <1>2. H!Latest(DOMAIN h \cup {schedule})
            = {d \in DOMAIN u : Cardinality({x \in DOMAIN u : x >= d}) <= HistoryLimit}
    BY <1>1, SameCardinality DEF H!Latest
  <1>3. \A d \in DOMAIN u : u[d] = IF d = schedule THEN report ELSE h[d]
    BY DEF Upsert
  <1> HIDE DEF u
  <1>4. H!With(h, schedule, report)
            = [e \in H!Latest(DOMAIN h \cup {schedule}) |->
                  IF e = schedule THEN report ELSE h[e]]
    BY DEF H!With
  <1>5. H!With(h, schedule, report) = Prune(u)
    BY <1>2, <1>3, <1>4 DEF Prune
  <1> QED
    BY <1>5 DEF Replacement, u

\* The empty histories of the two modules are the same.
LEMMA EmptyIsEmpty == H!Empty = NoHistory
  BY DEF H!Empty, NoHistory

\* For any nodes, months, limits and faults: the file keeps the latest days,
\* and only the time between removing and renaming puts them at risk
\* (write_store).
THEOREM FileImplementsHistory == Spec => ImplementsDailyHistory
  <1> DEFINE history == IF step = "rename" THEN store ELSE Contents
  <1> DEFINE exposed == step = "rename"
  <1>1. Init => H!Init
    BY EmptyIsEmpty DEF Init, FileInit, H!Init, Contents
  <1>2. ASSUME IInv, [Next]_vars
        PROVE  [H!Next]_(H!vars)
    <2>1. ASSUME UNCHANGED file, step # "rename", step' # "rename"
          PROVE  UNCHANGED H!vars
      BY <2>1 DEF H!vars, Contents
    <2>2. ASSUME UNCHANGED fileVars
          PROVE  UNCHANGED H!vars
      BY <2>2 DEF H!vars, Contents, fileVars
    <2>3. ASSUME step = "rename", step' = "none", UNCHANGED file
          PROVE  H!Forget
      <3>1. Contents' = NoHistory
        BY <1>2, <2>3 DEF IInv, HistoryInStep, Contents
      <3> QED
        BY <2>3, <3>1, EmptyIsEmpty DEF H!Forget
    <2>4. CASE Save
      <3>1. PICK h \in ReadStore : BeginSave(h, schedule, report)
        BY <2>4 DEF Save
      <3> QED
        BY <2>1, <3>1 DEF BeginSave
    <2>5. CASE SaveStep
      <3>1. CASE WriteTemp
        BY <2>1, <3>1 DEF WriteTemp
      <3>2. CASE RemoveOld
        <4>1. /\ step = "remove" /\ step' = "rename" /\ store' = store
          BY <3>2 DEF RemoveOld
        <4>2. schedule \in Dates /\ report \in Snapshots
          BY <1>2, <4>1 DEF IInv, HistoryInStep
        <4>3. CASE store = Replacement(Contents)
          <5>1. store' = H!With(Contents, schedule, report)
            BY <4>1, <4>3, ReplacementIsWith
          <5>2. H!Record(schedule, report)
            BY <4>1, <5>1 DEF H!Record
          <5> QED
            BY <4>2, <5>2 DEF H!Next
        <4>4. CASE DiskFaults /\ store = Replacement(NoHistory)
          <5>1. store' = H!With(H!Empty, schedule, report)
            BY <4>1, <4>4, ReplacementIsWith, EmptyIsEmpty
          <5>2. H!Record(schedule, report)
            BY <4>1, <4>4, <5>1 DEF H!Record
          <5> QED
            BY <4>2, <5>2 DEF H!Next
        <4> QED
          BY <1>2, <4>1, <4>3, <4>4 DEF IInv, HistoryInStep
      <3> QED
        BY <2>5, <3>1, <3>2 DEF SaveStep
    <2>6. CASE Saved
      <3>1. step = "rename" /\ step' = "none" /\ file' = store
        BY <2>6 DEF Saved, Rename, SaveEnds
      <3>2. store # None
        BY <1>2, NoneAssumption DEF IInv, HistoryInStep, IsHistory
      <3>3. UNCHANGED history
        BY <3>1, <3>2 DEF Contents
      <3> QED
        BY <3>1, <3>3 DEF H!Next, H!Settle
    <2>7. CASE SaveFailed
      <3>1. UNCHANGED file /\ step' = "none"
        BY <2>7 DEF SaveFailed, SaveFails, SaveEnds
      <3> QED
        BY <2>1, <2>3, <3>1 DEF H!Next
    <2>8. CASE Restart
      <3>1. UNCHANGED file /\ step' = "none"
        BY <2>8 DEF Restart
      <3> QED
        BY <2>1, <2>3, <3>1 DEF H!Next
    <2>9. CASE \/ StartRefresh \/ DetailsJoined \/ RankingsFail \/ NextDay \/ UNCHANGED vars
               \/ \E n \in Nodes : DetailFails(n) \/ \E q \in Answers[n][today] : DetailArrives(n, q)
               \/ \E listed \in Lists : RankingsArrive(listed)
               \/ ReadDetails \/ ComputeFigures \/ Notified
      <3>1. UNCHANGED fileVars
        BY <2>9 DEF StartRefresh, DetailsJoined, RankingsFail, NextDay, vars, DetailFails,
                    DetailArrives, RankingsArrive, ReadDetails, ComputeFigures, Notified
      <3> QED
        BY <2>2, <3>1
    <2> QED
      BY <1>2, <2>4, <2>5, <2>6, <2>7, <2>8, <2>9 DEF Next
  <1>3. IInv /\ [Next]_vars => [H!Next]_(H!vars)
    BY <1>2
  <1>4. Spec => H!Spec
    BY <1>1, <1>3, Invariance, PTL DEF Spec, H!Spec
  <1> QED
    BY <1>4 DEF ImplementsDailyHistory

-----------------------------------------------------------------------------
(* Types.                                                                  *)

\* Pruning leaves at most the limit.
LEMMA PruneBound ==
    ASSUME NEW h, DOMAIN h \subseteq Dates
    PROVE  Cardinality(DOMAIN Prune(h)) <= HistoryLimit
  <1> DEFINE D == DOMAIN h
             P == DOMAIN Prune(h)
  <1>1. P = {d \in D : Cardinality({x \in D : x >= d}) <= HistoryLimit}
    BY DEF Prune
  <1>2. D \in SUBSET Nat /\ D \subseteq 1..LastDate /\ LastDate \in Nat
    BY DatesAssumption DEF Dates
  <1>3. IsFiniteSet(D)
    <2>1. 1 \in Int /\ LastDate \in Int
      BY <1>2
    <2>2. IsFiniteSet(1..LastDate)
      BY <2>1, FS_Interval
    <2> HIDE DEF D
    <2> QED
      BY <1>2, <2>2, FS_Subset
  <1> HIDE DEF D, P
  <1>4. CASE P = {}
    BY <1>4, FS_EmptySet, HistoryLimitAssumption DEF P
  <1>5. CASE P # {}
    <2>1. PICK m \in P : \A x \in P : m <= x
      <3>1. P \in SUBSET Nat
        BY <1>1, <1>2
      <3> QED
        BY <1>5, <3>1, Least
    <2> DEFINE up == {x \in D : x >= m}
    <2>2. up \in SUBSET D /\ P \in SUBSET up
      BY <1>1, <1>2, <2>1
    <2>3. Cardinality(up) <= HistoryLimit
      BY <1>1
    <2> HIDE DEF up
    <2>4. IsFiniteSet(up)
      BY <1>3, <2>2, FS_Subset
    <2>5. Cardinality(P) <= Cardinality(up) /\ IsFiniteSet(P)
      BY <2>2, <2>4, FS_Subset
    <2>6. Cardinality(P) \in Nat /\ Cardinality(up) \in Nat
      BY <2>4, <2>5, FS_CardinalityType
    <2> QED
      BY <2>3, <2>5, <2>6, HistoryLimitAssumption DEF P
  <1> QED
    BY <1>4, <1>5

\* What is found in a history is a count of blocks.
LEMMA FindType ==
    ASSUME NEW h, IsHistory(h), NEW d, NEW n
    PROVE  Find(SnapshotFor(h, d), n) \in Nat \cup {None}
  <1> DEFINE s == SnapshotFor(h, d)
             named == {m \in DOMAIN s : NameOf[m] = NameOf[n]}
  <1>1. DOMAIN s \subseteq Nodes /\ \A m \in DOMAIN s : s[m] \in Nat
    <2>1. s \in Snapshots
      BY NoSnapshotShape DEF SnapshotFor, IsHistory
    <2> HIDE DEF s
    <2> QED
      BY <2>1, SnapshotShape, QuantitiesAssumption
  <1> HIDE DEF s
  <1>2. CASE n \in DOMAIN s
    BY <1>1, <1>2 DEF Find, s
  <1>3. CASE n \notin DOMAIN s /\ named # {}
    <2> DEFINE first == CHOOSE m \in named : \A x \in named : m <= x
    <2>1. Find(s, n) = s[first]
      BY <1>3 DEF Find
    <2>2. \E m \in named : \A x \in named : m <= x
      <3>1. named \in SUBSET Nodes
        BY <1>1
      <3> HIDE DEF named
      <3> QED
        BY <1>3, <3>1, FirstNode
    <2>3. first \in named
      BY <2>2
    <2> HIDE DEF first
    <2> QED
      BY <1>1, <2>1, <2>3 DEF s
  <1>4. CASE n \notin DOMAIN s /\ named = {}
    BY <1>4 DEF Find, s
  <1> QED
    BY <1>2, <1>3, <1>4

\* build_daily_summary_details gives figures to the nodes of the report.
LEMMA FiguresType ==
    ASSUME NEW h, IsHistory(h), NEW d, NEW details0 \in Snapshots
    PROVE  /\ DOMAIN Figures(h, d, details0) = DOMAIN details0
           /\ \A n \in DOMAIN details0 :
                 Figures(h, d, details0)[n] \in [daily : Figure, monthly : Figure]
  <1>1. \A n \in DOMAIN details0 : details0[n] \in Nat
    BY SnapshotShape, QuantitiesAssumption
  <1>2. \A q \in Nat, p \in Nat \cup {None} : Delta(q, p) \in Figure
    BY DEF Delta, Figure
  <1>3. ASSUME NEW n \in DOMAIN details0
        PROVE  Figures(h, d, details0)[n] \in [daily : Figure, monthly : Figure]
    <2>1. /\ Find(SnapshotFor(h, d - 1), n) \in Nat \cup {None}
          /\ Find(SnapshotFor(h, MonthStart(d)), n) \in Nat \cup {None}
      BY FindType
    <2> QED
      BY <1>1, <1>2, <2>1 DEF Figures
  <1> QED
    BY <1>3 DEF Figures

\* The types with what they rest on: a replacement that is under way keeps to
\* the limit.
TInv ==
    /\ TypeOK
    /\ IInv
    /\ Cardinality(DOMAIN store) <= HistoryLimit

\* The types hold at the start.
LEMMA InitTInv == Init => TypeOK /\ Cardinality(DOMAIN store) <= HistoryLimit
  <1> SUFFICES ASSUME Init PROVE TypeOK /\ Cardinality(DOMAIN store) <= HistoryLimit
    OBVIOUS
  <1>1. Contents = NoHistory /\ store = NoHistory /\ recorded = NoHistory
    BY DEF Init, FileInit, Contents
  <1>2. Cardinality(DOMAIN NoHistory) <= HistoryLimit /\ IsHistory(NoHistory)
    BY NoHistoryFaithful, FS_EmptySet, HistoryLimitAssumption
  <1>3. FileTypeOK
    BY <1>1, <1>2 DEF Init, FileInit, FileTypeOK
  <1>4. details \in UNION {[S -> Detail] : S \in SUBSET Nodes}
    <2>1. details \in [{} -> Detail]
      BY DEF Init, NoDetails
    <2> QED
      BY <2>1
  <1>5. today \in Dates /\ schedule \in 2..LastDate + 1
    BY DatesAssumption DEF Init, Dates
  <1>6. DOMAIN figures = {}
    BY DEF Init, NoDetails
  <1>7. report \in Snapshots
    BY NoSnapshotShape DEF Init
  <1> QED
    BY <1>1, <1>2, <1>3, <1>4, <1>5, <1>6, <1>7 DEF Init, TypeOK

\* What the daily loop knows keeps its type.
DailyTypeOK ==
    /\ schedule \in 2..LastDate + 1
    /\ daily \in {"waiting", "figures", "save", "saving", "notify"}
    /\ DOMAIN figures = (IF daily \in {"save", "saving"} THEN DOMAIN report ELSE {})
    /\ \A n \in DOMAIN figures : figures[n] \in [daily : Figure, monthly : Figure]
    /\ lost \in BOOLEAN

\* What the file and its replacement are keeps to the limit.
BoundOK ==
    /\ step \in {"none", "write", "remove", "rename"}
    /\ step = "none" => store = NoHistory
    /\ Cardinality(DOMAIN Contents) <= HistoryLimit
    /\ Cardinality(DOMAIN store) <= HistoryLimit

\* Together with the invariant they are the types.
LEMMA TypeOKParts ==
    /\ IInv /\ DailyTypeOK /\ BoundOK /\ refresh \in {"details", "rankings", "resting"} => TInv
    /\ TInv => DailyTypeOK /\ BoundOK /\ refresh \in {"details", "rankings", "resting"}
  <1>1. ASSUME IInv, DailyTypeOK, BoundOK, refresh \in {"details", "rankings", "resting"}
        PROVE  TInv
    <2>1. FileTypeOK
      BY <1>1 DEF FileTypeOK, IInv, HistoryInStep, BoundOK
    <2>2. details \in UNION {[S -> Detail] : S \in SUBSET Nodes}
      BY <1>1 DEF IInv, DetailsInStep
    <2> QED
      BY <1>1, <2>1, <2>2
      DEF TInv, TypeOK, IInv, DetailsInStep, HistoryInStep, DailyTypeOK, BoundOK
  <1> QED
    BY <1>1 DEF TInv, TypeOK, FileTypeOK, DailyTypeOK, BoundOK

\* The daily loop keeps the type of what it knows.
LEMMA DailyTypeStep ==
    ASSUME TInv, [Next]_vars
    PROVE  DailyTypeOK'
  <1>1. DailyTypeOK /\ IInv
    BY TypeOKParts DEF TInv
  <1>2. today \in 1..LastDate /\ today + 1 \in 2..LastDate + 1
    <2>1. today \in Dates
      BY <1>1 DEF IInv, DetailsInStep
    <2> QED
      BY <2>1, DatesAssumption DEF Dates
  <1>3. CASE \/ StartRefresh \/ DetailsJoined \/ RankingsFail \/ NextDay \/ UNCHANGED vars
             \/ \E n \in Nodes : DetailFails(n) \/ \E q \in Answers[n][today] : DetailArrives(n, q)
             \/ \E listed \in Lists : RankingsArrive(listed)
    <2>1. UNCHANGED <<dailyVars, ghostVars>>
      BY <1>3 DEF StartRefresh, DetailsJoined, RankingsFail, NextDay, vars, DetailFails,
                  DetailArrives, RankingsArrive
    <2> QED
      BY <1>1, <2>1 DEF DailyTypeOK, dailyVars, ghostVars
  <1>4. CASE ReadDetails
    BY <1>1, <1>4 DEF ReadDetails, DailyTypeOK, ghostVars
  <1>5. CASE ComputeFigures
    <2>1. PICK h \in ReadStore : figures' = Figures(h, schedule, report)
                                 /\ lost' = (lost \/ h # Contents)
      BY <1>5 DEF ComputeFigures
    <2>2. IsHistory(h) /\ report \in Snapshots
      BY <1>1, <2>1, ReadStoreShape, NoHistoryFaithful DEF IInv, HistoryInStep
    <2>3. /\ DOMAIN figures' = DOMAIN report
          /\ \A n \in DOMAIN report : figures'[n] \in [daily : Figure, monthly : Figure]
      BY <2>1, <2>2, FiguresType
    <2> QED
      BY <1>1, <1>5, <2>1, <2>3 DEF ComputeFigures, DailyTypeOK
  <1>6. ASSUME HandOver, UNCHANGED schedule, lost' \in BOOLEAN
        PROVE  DailyTypeOK'
    <2>1. DOMAIN figures' = {}
      BY <1>6 DEF HandOver, NoDetails
    <2> QED
      BY <1>1, <1>6, <2>1 DEF HandOver, DailyTypeOK
  <1>7. CASE Save
    <2>1. lost' \in BOOLEAN /\ UNCHANGED schedule
      BY <1>1, <1>7 DEF Save, DailyTypeOK
    <2>2. CASE report = NoSnapshot
      BY <1>6, <1>7, <2>1, <2>2 DEF Save
    <2>3. CASE report # NoSnapshot
      BY <1>1, <1>7, <2>1, <2>3 DEF Save, DailyTypeOK
    <2> QED
      BY <2>2, <2>3
  <1>8. CASE SaveStep
    BY <1>1, <1>8 DEF SaveStep, DailyTypeOK, dailyVars, ghostVars
  <1>9. CASE Saved \/ SaveFailed
    BY <1>1, <1>6, <1>9 DEF Saved, SaveFailed, DailyTypeOK
  <1>10. CASE Notified
    BY <1>1, <1>2, <1>10 DEF Notified, DailyTypeOK, ghostVars
  <1>11. CASE Restart
    <2>1. DOMAIN figures' = {}
      BY <1>11 DEF Restart, NoDetails
    <2> QED
      BY <1>1, <1>2, <1>11, <2>1 DEF Restart, DailyTypeOK
  <1> QED
    BY <1>3, <1>4, <1>5, <1>7, <1>8, <1>9, <1>10, <1>11 DEF Next

\* The file never holds more days than the limit.
LEMMA BoundStep ==
    ASSUME TInv, [Next]_vars
    PROVE  BoundOK'
  <1>1. BoundOK /\ IInv
    BY TypeOKParts DEF TInv
  <1>2. ASSUME UNCHANGED fileVars PROVE BoundOK'
    BY <1>1, <1>2 DEF BoundOK, Contents, fileVars
  <1>3. Cardinality(DOMAIN NoHistory) <= HistoryLimit
    BY NoHistoryFaithful, FS_EmptySet, HistoryLimitAssumption
  <1>4. ASSUME SaveEnds, UNCHANGED file PROVE BoundOK'
    BY <1>1, <1>3, <1>4 DEF BoundOK, SaveEnds, Contents
  <1>5. CASE Save
    <2>1. PICK h \in ReadStore : BeginSave(h, schedule, report)
      BY <1>5 DEF Save
    <2>2. CASE report = NoSnapshot
      BY <1>1, <2>1, <2>2 DEF BeginSave, BoundOK, Contents
    <2>3. CASE report # NoSnapshot
      <3> DEFINE u == Upsert(h, schedule, report)
      <3>1. store' = Prune(u) /\ step' = "write" /\ UNCHANGED file
        BY <2>1, <2>3 DEF BeginSave
      <3>2. DOMAIN u \subseteq Dates
        <4>1. IsHistory(h)
          BY <1>1, <2>1, ReadStoreShape, NoHistoryFaithful DEF IInv, HistoryInStep
        <4>2. schedule \in Dates
          BY <1>1, <1>5 DEF IInv, HistoryInStep, Save
        <4> QED
          BY <4>1, <4>2 DEF Upsert, IsHistory
      <3> HIDE DEF u
      <3>3. Cardinality(DOMAIN Prune(u)) <= HistoryLimit
        BY <3>2, PruneBound
      <3> QED
        BY <1>1, <3>1, <3>3 DEF BoundOK, Contents
    <2> QED
      BY <2>2, <2>3
  <1>6. CASE SaveStep
    <2>1. CASE WriteTemp
      BY <1>1, <2>1 DEF WriteTemp, BoundOK, Contents
    <2>2. CASE RemoveOld
      BY <1>1, <1>3, <2>2 DEF RemoveOld, BoundOK, Contents
    <2> QED
      BY <1>6, <2>1, <2>2 DEF SaveStep
  <1>7. CASE Saved
    <2>1. file' = store /\ SaveEnds
      BY <1>7 DEF Saved, Rename
    <2>2. Contents' = store \/ Contents' = NoHistory
      BY <2>1 DEF Contents
    <2>3. step' = "none" /\ store' = NoHistory
      BY <2>1 DEF SaveEnds
    <2> QED
      BY <1>1, <1>3, <2>2, <2>3 DEF BoundOK
  <1>8. CASE SaveFailed
    BY <1>4, <1>8 DEF SaveFailed, SaveFails
  <1>9. CASE Restart
    BY <1>4, <1>9 DEF Restart, SaveEnds
  <1>10. CASE \/ StartRefresh \/ DetailsJoined \/ RankingsFail \/ NextDay \/ UNCHANGED vars
              \/ \E n \in Nodes : DetailFails(n) \/ \E q \in Answers[n][today] : DetailArrives(n, q)
              \/ \E listed \in Lists : RankingsArrive(listed)
              \/ ReadDetails \/ ComputeFigures \/ Notified
    <2>1. UNCHANGED fileVars
      BY <1>10 DEF StartRefresh, DetailsJoined, RankingsFail, NextDay, vars, DetailFails,
                   DetailArrives, RankingsArrive, ReadDetails, ComputeFigures, Notified
    <2> QED
      BY <1>2, <2>1
  <1> QED
    BY <1>5, <1>6, <1>7, <1>8, <1>9, <1>10 DEF Next

\* The types always hold, with the invariant they rest on.
LEMMA TInvAlways == Spec => []TInv
  <1>1. Init => TInv
    <2> SUFFICES ASSUME Init PROVE TInv
      OBVIOUS
    <2>1. IInv
      BY InitIInv
    <2> QED
      BY <2>1, InitTInv DEF TInv
  <1>2. ASSUME TInv, [Next]_vars
        PROVE  TInv'
    <2>1. refresh' \in {"details", "rankings", "resting"}
      <3>1. refresh \in {"details", "rankings", "resting"}
        BY <1>2, TypeOKParts
      <3> QED
        BY <1>2, <3>1 DEF Next, StartRefresh, DetailFails, DetailArrives, DetailsJoined,
            RankingsArrive, RankingsFail, NextDay, ReadDetails, ComputeFigures, Save, SaveStep,
            Saved, SaveFailed, Notified, Restart, refreshVars, vars
    <2>2. IInv'
      BY <1>2, DetailsStep, HistoryStep DEF TInv, IInv
    <2>3. DailyTypeOK' /\ BoundOK'
      BY <1>2, DailyTypeStep, BoundStep
    <2>4. FileTypeOK'
      BY <2>2, <2>3 DEF FileTypeOK, IInv, HistoryInStep, BoundOK
    <2>5. (details \in UNION {[S -> Detail] : S \in SUBSET Nodes})'
      BY <2>2 DEF IInv, DetailsInStep
    <2> QED
      BY <2>1, <2>2, <2>3, <2>4, <2>5
      DEF TInv, TypeOK, IInv, DetailsInStep, HistoryInStep, DailyTypeOK, BoundOK
  <1>3. TInv /\ [Next]_vars => TInv'
    BY <1>2
  <1> QED
    BY <1>1, <1>3, PTL DEF Spec

\* For any nodes, answers, months and faults the file keeps to its limit of
\* days, whatever is read of it, and a summary has figures for exactly the
\* nodes it reports (write_store, daily_summary_details).
THEOREM NodeDetailsTypeCorrect == Spec => []TypeOK
  <1>1. TInv => TypeOK
    BY DEF TInv
  <1> QED
    BY <1>1, TInvAlways, PTL

-----------------------------------------------------------------------------
(* No figure is missing without a reason.                                  *)

\* Every snapshot recorded within the limit before the scheduled date is in h.
InReach(h) == \A e \in DOMAIN recorded : schedule - e < HistoryLimit => e \in DOMAIN h

\* Unless a fault cost the history, the file and its replacement reach back as
\* far as the limit allows; dates are scheduled and recorded in their order.
ReachInStep ==
    /\ schedule <= today + 1
    /\ \A e \in DOMAIN recorded : e <= schedule
    /\ ~lost /\ step # "rename" => InReach(Contents)
    /\ ~lost /\ step # "none" => InReach(store) /\ schedule \in DOMAIN store

\* A replacement keeps what lies within the limit before its last day.
LEMMA ReplacementReach ==
    ASSUME NEW h, IsHistory(h), schedule \in Dates, \A x \in DOMAIN h : x <= schedule,
           NEW e \in DOMAIN h \cup {schedule}, schedule - e < HistoryLimit
    PROVE  e \in DOMAIN Replacement(h)
  <1> DEFINE D == DOMAIN h \cup {schedule}
             up == {x \in D : x >= e}
  <1>1. D \subseteq Nat /\ schedule \in Nat /\ e \in Nat /\ HistoryLimit \in Nat
    BY DatesAssumption, HistoryLimitAssumption DEF IsHistory, Dates
  <1>2. \A x \in D : x <= schedule
    BY <1>1
  <1>3. up \in SUBSET (e..schedule)
    BY <1>1, <1>2
  <1>4. IsFiniteSet(e..schedule) /\ Cardinality(e..schedule) = schedule - e + 1
    <2>1. e \in Int /\ schedule \in Int /\ ~ (e > schedule)
      BY <1>1, <1>2
    <2> QED
      BY <2>1, FS_Interval
  <1>5. Cardinality(up) <= Cardinality(e..schedule) /\ IsFiniteSet(up)
    <2> HIDE DEF up
    <2> QED
      BY <1>3, <1>4, FS_Subset
  <1>6. Cardinality(up) <= HistoryLimit
    <2>1. Cardinality(up) \in Nat
      BY <1>5, FS_CardinalityType
    <2> HIDE DEF up
    <2> QED
      BY <1>1, <1>4, <1>5, <2>1
  <1>7. DOMAIN Replacement(h) = {d \in D : Cardinality({x \in D : x >= d}) <= HistoryLimit}
    BY DEF Replacement, Prune, Upsert
  <1> QED
    BY <1>6, <1>7

\* What is not found in a history that holds the day was not recorded.
LEMMA MissingHasNoBasis ==
    ASSUME IsHistory(recorded), NEW h, Faithful(h), NEW d, NEW n,
           d \in DOMAIN recorded => d \in DOMAIN h,
           Find(SnapshotFor(h, d), n) = None
    PROVE  Basis(n, d) = {}
  <1> DEFINE s == SnapshotFor(recorded, d)
             named == {m \in DOMAIN s : NameOf[m] = NameOf[n]}
  <1>1. CASE d \notin DOMAIN recorded
    <2>1. DOMAIN s = {}
      BY <1>1, NoSnapshotShape DEF SnapshotFor
    <2> QED
      BY <2>1 DEF Basis
  <1>2. CASE d \in DOMAIN recorded
    <2>1. SnapshotFor(h, d) = s
      BY <1>2 DEF SnapshotFor, Faithful
    <2>2. DOMAIN s \subseteq Nodes /\ \A m \in DOMAIN s : s[m] \in Nat
      <3>1. s \in Snapshots
        BY <1>2 DEF SnapshotFor, IsHistory
      <3> HIDE DEF s
      <3> QED
        BY <3>1, SnapshotShape, QuantitiesAssumption
    <2> HIDE DEF s
    <2>3. n \notin DOMAIN s
      <3>1. n \in DOMAIN s => Find(s, n) = s[n] /\ s[n] \in Nat
        BY <2>2 DEF Find
      <3> QED
        BY <2>1, <3>1, QuantitiesAssumption
    <2>4. named = {}
      <3> SUFFICES ASSUME named # {} PROVE FALSE
        OBVIOUS
      <3> DEFINE first == CHOOSE m \in named : \A x \in named : m <= x
      <3>1. Find(s, n) = s[first]
        BY <2>3 DEF Find
      <3>2. named \in SUBSET Nodes
        BY <2>2
      <3>3. \E m \in named : \A x \in named : m <= x
        <4> HIDE DEF named
        <4> QED
          BY <3>2, FirstNode
      <3>4. first \in named
        BY <3>3
      <3> HIDE DEF first
      <3>5. s[first] \in Nat
        BY <2>2, <3>4
      <3> QED
        BY <2>1, <3>1, <3>5, QuantitiesAssumption
    <2> QED
      BY <2>3, <2>4 DEF Basis, s
  <1> QED
    BY <1>1, <1>2

\* The first of the month before lies within the limit.
LEMMA MonthStartReach ==
    ASSUME NEW d \in Dates
    PROVE  MonthStart(d) = 0 \/ d - MonthStart(d) < HistoryLimit
  <1> DEFINE before == {e \in FirstDays : e < d}
  <1>1. CASE d \in FirstDays /\ \E e \in FirstDays : e < d
    <2>1. FirstDays \in SUBSET Nat /\ d \in Nat /\ HistoryLimit \in Nat
      BY DatesAssumption, HistoryLimitAssumption DEF Dates
    <2>2. PICK e \in FirstDays : e < d /\ d - e < HistoryLimit
      BY <1>1, HistoryLimitAssumption
    <2> DEFINE m == CHOOSE x \in FirstDays : x < d /\ \A z \in FirstDays : z < d => z <= x
    <2>3. \E x \in FirstDays : x < d /\ \A z \in FirstDays : z < d => z <= x
      <3>1. before \in SUBSET Nat /\ e \in before
        BY <2>1, <2>2
      <3>2. \A x \in before : x <= d
        BY <2>1
      <3> HIDE DEF before
      <3>3. PICK x \in before : \A z \in before : z <= x
        BY <2>1, <3>1, <3>2, Greatest
      <3> QED
        BY <3>3 DEF before
    <2>4. m \in FirstDays /\ m < d /\ e <= m
      BY <2>2, <2>3
    <2>5. MonthStart(d) = m
      BY <1>1 DEF MonthStart
    <2> HIDE DEF m
    <2>6. m \in Nat /\ e \in Nat
      BY <2>1, <2>4
    <2>7. d - m < HistoryLimit
      BY <2>1, <2>2, <2>4, <2>6
    <2> QED
      BY <2>5, <2>7
  <1>2. CASE ~ (d \in FirstDays /\ \E e \in FirstDays : e < d)
    BY <1>2 DEF MonthStart
  <1> QED
    BY <1>1, <1>2

\* A later schedule reaches back less far.
LEMMA LaterReach ==
    ASSUME InReach(Contents), IsHistory(recorded), schedule \in Nat, schedule' \in Nat,
           schedule <= schedule', UNCHANGED <<file, recorded>>
    PROVE  InReach(Contents)'
  <1>1. DOMAIN recorded \subseteq Nat /\ HistoryLimit \in Nat
    BY HistoryLimitAssumption DEF IsHistory, Dates
  <1>2. \A e \in DOMAIN recorded : schedule' - e < HistoryLimit => schedule - e < HistoryLimit
    BY <1>1
  <1> QED
    BY <1>2 DEF InReach, Contents

\* What the refresh loop does and the days that pass leave the reach alone.
LEMMA ReachUntouched ==
    ASSUME ReachInStep, today \in Nat, today' \in Nat, schedule \in Nat, today <= today',
           UNCHANGED <<fileVars, schedule, ghostVars>>
    PROVE  ReachInStep'
  <1>1. UNCHANGED <<file, step, store, schedule, recorded, lost>>
    BY DEF fileVars, ghostVars
  <1>2. schedule' <= today' + 1
    <2>1. schedule <= today + 1 /\ schedule' = schedule
      BY <1>1 DEF ReachInStep
    <2>2. \A s, t, u \in Nat : s <= t + 1 /\ t <= u => s <= u + 1
      OBVIOUS
    <2> QED
      BY <2>1, <2>2
  <1> QED
    BY <1>1, <1>2 DEF ReachInStep, InReach, Contents

\* A save that begins without a fault has all that is in reach to put in place.
LEMMA SaveReach ==
    ASSUME TInv, ReachInStep, Save
    PROVE  ReachInStep'
  <1>1. PICK h \in ReadStore : BeginSave(h, schedule, report) /\ lost' = (lost \/ h # Contents)
    BY DEF Save
  <1>2. IInv /\ lost \in BOOLEAN /\ step = "none"
    BY <1>1 DEF TInv, TypeOK, BeginSave
  <1>3. UNCHANGED <<file, today, schedule, recorded>> /\ (~ lost' => ~ lost /\ h = Contents)
    BY <1>1, <1>2 DEF Save, BeginSave
  <1>4. /\ schedule' <= today' + 1
        /\ \A e \in DOMAIN recorded' : e <= schedule'
        /\ ~ lost' /\ step' # "rename" => InReach(Contents)'
    BY <1>2, <1>3 DEF ReachInStep, InReach, Contents
  <1>5. ASSUME ~ lost', step' # "none"
        PROVE  InReach(store)' /\ schedule' \in DOMAIN store'
    <2>1. store' = Replacement(Contents)
      BY <1>1, <1>2, <1>3, <1>5 DEF BeginSave, Replacement
    <2>2. IsHistory(Contents) /\ Faithful(Contents) /\ schedule \in Dates
      BY <1>2 DEF Save, IInv, HistoryInStep
    <2>3. \A x \in DOMAIN Contents : x <= schedule
      BY <2>2 DEF ReachInStep, Faithful
    <2>4. schedule \in Nat /\ HistoryLimit \in Nat \ {0}
      BY <2>2, HistoryLimitAssumption DEF Dates
    <2>5. schedule \in DOMAIN Replacement(Contents)
      <3>1. schedule - schedule < HistoryLimit
        BY <2>4
      <3> QED
        BY <2>2, <2>3, <3>1, ReplacementReach
    <2>6. ASSUME NEW e \in DOMAIN recorded, schedule - e < HistoryLimit
          PROVE  e \in DOMAIN Replacement(Contents)
      <3>1. e \in DOMAIN Contents
        BY <1>2, <1>3, <1>5, <2>6 DEF ReachInStep, InReach
      <3> QED
        BY <2>2, <2>3, <2>6, <3>1, ReplacementReach
    <2> QED
      BY <1>3, <2>1, <2>5, <2>6 DEF InReach
  <1> QED
    BY <1>4, <1>5 DEF ReachInStep

\* Only a fault or a kill while the old file is out of the way costs the
\* history its reach.
LEMMA ReachStep ==
    ASSUME TInv, ReachInStep, [Next]_vars, TInv'
    PROVE  ReachInStep'
  <1>1. /\ IInv /\ lost \in BOOLEAN
        /\ today \in Nat /\ today' \in Nat /\ schedule \in Nat /\ schedule' \in Nat
    BY DatesAssumption DEF TInv, TypeOK, Dates
  <1>2. CASE \/ StartRefresh \/ DetailsJoined \/ RankingsFail \/ NextDay \/ UNCHANGED vars
             \/ \E n \in Nodes : DetailFails(n) \/ \E q \in Answers[n][today] : DetailArrives(n, q)
             \/ \E listed \in Lists : RankingsArrive(listed)
             \/ ReadDetails
    <2>1. UNCHANGED <<fileVars, schedule, ghostVars>>
      BY <1>2 DEF StartRefresh, DetailsJoined, RankingsFail, NextDay, vars, DetailFails,
                  DetailArrives, RankingsArrive, ReadDetails, dailyVars
    <2>2. today' = today \/ today' = today + 1
      BY <1>2 DEF StartRefresh, DetailsJoined, RankingsFail, NextDay, vars, DetailFails,
                  DetailArrives, RankingsArrive, ReadDetails
    <2>3. today <= today'
      BY <1>1, <2>2
    <2> QED
      BY <1>1, <2>1, <2>3, ReachUntouched
  <1>3. CASE ComputeFigures
    <2>1. UNCHANGED <<fileVars, today, schedule, recorded>> /\ (~ lost' => ~ lost)
      BY <1>1, <1>3 DEF ComputeFigures
    <2> QED
      BY <2>1 DEF ReachInStep, InReach, Contents, fileVars
  <1>4. CASE Save
    BY <1>4, SaveReach
  <1>5. CASE SaveStep
    <2>1. UNCHANGED <<today, schedule, recorded, lost, store>> /\ step # "none"
      BY <1>5 DEF SaveStep, WriteTemp, RemoveOld, dailyVars, ghostVars
    <2>2. \/ step # "rename" /\ UNCHANGED file
          \/ step' = "rename"
      BY <1>5 DEF SaveStep, WriteTemp, RemoveOld
    <2> QED
      BY <2>1, <2>2 DEF ReachInStep, InReach, Contents
  <1>6. CASE Saved
    <2>1. /\ file' = store /\ recorded' = Upsert(recorded, schedule, report)
          /\ UNCHANGED <<today, schedule, lost>> /\ step' = "none" /\ step # "none"
      BY <1>6 DEF Saved, Rename, SaveEnds
    <2>2. store # None
      <3>1. DOMAIN store \in SUBSET Dates /\ store \in [DOMAIN store -> Snapshots]
        BY <1>1 DEF IInv, HistoryInStep, IsHistory
      <3> QED
        BY <3>1, NoneAssumption
    <2>3. Contents' = store
      BY <2>1, <2>2 DEF Contents
    <2>4. DOMAIN recorded' = DOMAIN recorded \cup {schedule}
      BY <2>1 DEF Upsert
    <2>5. ~ lost' => InReach(Contents)'
      BY <2>1, <2>3, <2>4 DEF ReachInStep, InReach
    <2>6. \A e \in DOMAIN recorded' : e <= schedule'
      BY <1>1, <2>1, <2>4 DEF ReachInStep
    <2> QED
      BY <2>1, <2>5, <2>6 DEF ReachInStep
  <1>7. CASE SaveFailed
    <2>1. /\ UNCHANGED <<file, today, schedule, recorded>> /\ step' = "none"
          /\ (~ lost' => ~ lost /\ step # "rename")
      BY <1>1, <1>7 DEF SaveFailed, SaveFails, SaveEnds
    <2> QED
      BY <2>1 DEF ReachInStep, InReach, Contents
  <1>8. CASE Notified \/ Restart
    <2>1. /\ UNCHANGED <<file, today, recorded>> /\ schedule' = today + 1 /\ step' = "none"
          /\ (~ lost' => ~ lost /\ step # "rename")
      <3>1. CASE Notified
        <4>1. step = "none"
          BY <1>1, <3>1 DEF Notified, IInv, HistoryInStep
        <4> QED
          BY <3>1, <4>1 DEF Notified, fileVars, ghostVars
      <3>2. CASE Restart
        BY <1>1, <3>2 DEF Restart
      <3> QED
        BY <1>8, <3>1, <3>2
    <2>2. schedule <= schedule' /\ IsHistory(recorded)
      BY <1>1, <2>1 DEF ReachInStep, IInv, HistoryInStep
    <2>3. ~ lost' => InReach(Contents)'
      BY <1>1, <2>1, <2>2, LaterReach DEF ReachInStep
    <2>4. \A e \in DOMAIN recorded : e <= schedule'
      <3>1. DOMAIN recorded \subseteq Nat
        BY <2>2 DEF IsHistory, Dates
      <3> QED
        BY <1>1, <2>2, <3>1 DEF ReachInStep
    <2> QED
      BY <1>1, <2>1, <2>3, <2>4 DEF ReachInStep
  <1> QED
    BY <1>2, <1>3, <1>4, <1>5, <1>6, <1>7, <1>8 DEF Next

\* A difference is missing only if there is nothing to compare with.
LEMMA NoDelta ==
    ASSUME NEW h, IsHistory(h), report \in Snapshots, NEW n \in DOMAIN report, NEW d,
           Delta(report[n], Find(SnapshotFor(h, d), n)) = None
    PROVE  Find(SnapshotFor(h, d), n) = None
  <1> DEFINE b == Find(SnapshotFor(h, d), n)
  <1>1. report[n] \in Nat
    BY SnapshotShape, QuantitiesAssumption
  <1>2. SnapshotFor(h, d) \in Snapshots
    BY NoSnapshotShape DEF SnapshotFor, IsHistory
  <1>3. b \in Nat \cup {None}
    BY <1>2, FindType DEF Figure
  <1> HIDE DEF b
  <1>4. b \in Nat => Delta(report[n], b) \in Nat
    BY <1>1, QuantitiesAssumption DEF Delta
  <1>5. Delta(report[n], b) = None
    BY DEF b
  <1>6. b = None
    BY <1>3, <1>4, <1>5, QuantitiesAssumption
  <1> QED
    BY <1>6 DEF b

\* The figures of a report: what was recorded the day before or on the first of
\* the month before is within reach.
LEMMA FiguresReach ==
    ASSUME TInv, ReachInStep, ComputeFigures
    PROVE  FiguresComplete'
  <1> SUFFICES ASSUME ~ lost' PROVE FiguresComplete'
    BY DEF FiguresComplete
  <1>1. /\ IInv /\ lost \in BOOLEAN /\ step = "none" /\ schedule \in Dates
        /\ IsHistory(recorded) /\ report \in Snapshots /\ IsHistory(Contents) /\ Faithful(Contents)
    BY DEF TInv, TypeOK, IInv, HistoryInStep, ComputeFigures
  <1>2. figures' = Figures(Contents, schedule, report) /\ ~ lost
    BY <1>1 DEF ComputeFigures
  <1>3. UNCHANGED <<report, schedule, recorded>>
    BY DEF ComputeFigures
  <1>4. \A n, d : Basis(n, d)' = Basis(n, d)
    BY <1>3 DEF Basis
  <1>5. /\ DOMAIN figures' = DOMAIN report
        /\ \A n \in DOMAIN report :
              /\ figures'[n].daily =
                    Delta(report[n], Find(SnapshotFor(Contents, schedule - 1), n))
              /\ figures'[n].monthly =
                    Delta(report[n], Find(SnapshotFor(Contents, MonthStart(schedule)), n))
    BY <1>2 DEF Figures
  <1>6. InReach(Contents)
    BY <1>1, <1>2 DEF ReachInStep
  <1>7. schedule - 1 \in DOMAIN recorded => schedule - 1 \in DOMAIN Contents
    <2>1. schedule \in Nat /\ HistoryLimit \in Nat \ {0, 1}
      BY <1>1, HistoryLimitAssumption DEF Dates
    <2>2. schedule - (schedule - 1) < HistoryLimit
      BY <2>1
    <2> QED
      BY <1>6, <2>2 DEF InReach
  <1>8. MonthStart(schedule) \in DOMAIN recorded => MonthStart(schedule) \in DOMAIN Contents
    <2>1. CASE MonthStart(schedule) = 0
      BY <1>1, <2>1 DEF IsHistory, Dates
    <2>2. CASE schedule - MonthStart(schedule) < HistoryLimit
      BY <1>6, <2>2 DEF InReach
    <2> QED
      BY <1>1, <2>1, <2>2, MonthStartReach
  <1>9. ASSUME NEW n \in DOMAIN figures', figures'[n].daily = None
        PROVE  Basis(n, schedule - 1) = {}
    BY <1>1, <1>5, <1>7, <1>9, NoDelta, MissingHasNoBasis
  <1>10. ASSUME NEW n \in DOMAIN figures', figures'[n].monthly = None
         PROVE  Basis(n, MonthStart(schedule)) = {}
    BY <1>1, <1>5, <1>8, <1>10, NoDelta, MissingHasNoBasis
  <1>11. UNCHANGED <<schedule - 1, MonthStart(schedule)>>
    BY <1>3 DEF MonthStart
  <1> QED
    BY <1>4, <1>9, <1>10, <1>11 DEF FiguresComplete

\* A report keeps its figures until it is handed over.
LEMMA FiguresStep ==
    ASSUME TInv, ReachInStep, FiguresComplete, [Next]_vars
    PROVE  FiguresComplete'
  <1>1. ASSUME UNCHANGED <<figures, schedule, recorded>>, Reported' => Reported,
               ~ lost' => ~ lost
        PROVE  FiguresComplete'
    BY <1>1 DEF FiguresComplete, Basis
  <1>2. CASE ~ Reported'
    BY <1>2 DEF FiguresComplete
  <1>3. CASE ComputeFigures
    BY <1>3, FiguresReach
  <1>4. CASE Save
    <2>1. CASE report = NoSnapshot
      BY <1>2, <1>4, <2>1 DEF Save, HandOver, Reported
    <2>2. CASE report # NoSnapshot
      <3>1. ~ lost' => ~ lost
        BY <1>4 DEF Save, TInv, TypeOK
      <3> QED
        BY <1>1, <1>4, <2>2, <3>1 DEF Save, Reported
    <2> QED
      BY <2>1, <2>2
  <1>5. CASE SaveStep
    BY <1>1, <1>5 DEF SaveStep, dailyVars, ghostVars, Reported
  <1>6. CASE ReadDetails \/ Saved \/ SaveFailed \/ Notified \/ Restart
    BY <1>2, <1>6 DEF ReadDetails, Saved, SaveFailed, HandOver, Notified, Restart, Reported
  <1>7. CASE \/ StartRefresh \/ DetailsJoined \/ RankingsFail \/ NextDay \/ UNCHANGED vars
             \/ \E n \in Nodes : DetailFails(n) \/ \E q \in Answers[n][today] : DetailArrives(n, q)
             \/ \E listed \in Lists : RankingsArrive(listed)
    <2>1. UNCHANGED <<dailyVars, ghostVars>>
      BY <1>7 DEF StartRefresh, DetailsJoined, RankingsFail, NextDay, vars, DetailFails,
                  DetailArrives, RankingsArrive
    <2> QED
      BY <1>1, <2>1 DEF dailyVars, ghostVars, Reported
  <1> QED
    BY <1>3, <1>4, <1>5, <1>6, <1>7 DEF Next

\* For any nodes, answers, months and faults: unless a fault cost the history,
\* a figure is missing only if nothing was recorded on the day it is compared
\* with, across restarts (daily_summary_details, write_store).
THEOREM FiguresAreComplete == Spec => []FiguresComplete
  <1>1. Init => ReachInStep /\ FiguresComplete
    <2> SUFFICES ASSUME Init PROVE ReachInStep /\ FiguresComplete
      OBVIOUS
    <2>1. Contents = NoHistory /\ recorded = NoHistory /\ DOMAIN NoHistory = {}
      BY NoHistoryFaithful DEF Init, FileInit, Contents
    <2> QED
      BY <2>1 DEF Init, FileInit, ReachInStep, InReach, FiguresComplete, Reported
  <1>2. /\ TInv /\ TInv' /\ ReachInStep /\ FiguresComplete /\ [Next]_vars
        => ReachInStep' /\ FiguresComplete'
    BY ReachStep, FiguresStep
  <1> QED
    BY <1>1, <1>2, TInvAlways, PTL DEF Spec
=============================================================================
