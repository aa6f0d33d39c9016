---------------------------- MODULE NodeDetails -----------------------------
(***************************************************************************)
(* Node details (collect/node_detail.rs, the detail store of               *)
(* collect/data.rs): the refresh of details and rankings, and the daily    *)
(* loop that reports the cached details at midnight and records them in    *)
(* the file of DailySnapshots.  The two loops take turns in one task; each *)
(* action ends where the code awaits or unlocks.  The process may be       *)
(* killed at any point and started again.                                  *)
(***************************************************************************)
EXTENDS DailySnapshots

CONSTANTS
    Answers,        \* the counts of blocks the explorer may give for a node on a date
    Rankings,       \* rankings the explorer lists a node at
    ClockSkew       \* the wall clock may be behind the timer at midnight

ASSUME AnswersAssumption == Answers \in [Nodes -> [Dates -> SUBSET Quantities]]
ASSUME RankingsAssumption == Rankings \subseteq Nat \ {0} /\ ClockSkew \in BOOLEAN

VARIABLES
    details,        \* NodeDetailStore: the nodes that have a detail
    refresh,        \* "details", "rankings", or "resting" until the next tick
    fetching,       \* the requests for details under way
    failures,       \* the nodes whose last request failed
    today,          \* the local date
    schedule,       \* DailySummarySchedule.date
    daily,          \* the daily loop's next step
    report,         \* the blocks of each node, as read from the store
    figures,        \* DailyNodeSummaryDetail of each node
    recorded,       \* every snapshot that reached the disk
    lost            \* the disk or a kill has cost the history

refreshVars == <<details, refresh, fetching, failures>>
dailyVars == <<schedule, daily, report, figures>>
ghostVars == <<recorded, lost>>
vars == <<fileVars, refreshVars, today, dailyVars, ghostVars>>

Detail == [qty : Quantities, ranking : Rankings \cup {0}]
NoDetails == [n \in {} |-> None]
Figure == Nat \cup {None}

TypeOK ==
    /\ FileTypeOK
    /\ details \in UNION {[S -> Detail] : S \in SUBSET Nodes}
    /\ refresh \in {"details", "rankings", "resting"}
    /\ fetching \subseteq Nodes
    /\ refresh # "details" => fetching = {}
    /\ failures \subseteq Nodes \ fetching
    /\ today \in Dates
    /\ schedule \in 2..LastDate + 1
    /\ daily \in {"waiting", "figures", "save", "saving", "notify"}
    /\ report \in Snapshots
    /\ DOMAIN figures = (IF daily \in {"save", "saving"} THEN DOMAIN report ELSE {})
    /\ \A n \in DOMAIN figures : figures[n] \in [daily : Figure, monthly : Figure]
    /\ IsHistory(recorded)
    /\ lost \in BOOLEAN

Init ==
    /\ FileInit
    /\ details = NoDetails
    /\ refresh = "details"
    /\ fetching = Nodes
    /\ failures = {}
    /\ daily = "waiting"
    /\ report = NoSnapshot
    /\ figures = NoDetails
    /\ today = 1
    /\ schedule = 2
    /\ recorded = NoHistory
    /\ lost = FALSE

-----------------------------------------------------------------------------
(* The refresh loop.                                                       *)

\* join! polls both loops in one task: while the daily loop reads and writes
\* files it does not await, and the refresh loop stands still.
Polled == daily \in {"waiting", "notify"}

\* The interval's tick.
StartRefresh ==
    /\ Polled /\ refresh = "resting"
    /\ refresh' = "details"
    /\ fetching' = Nodes
    /\ failures' = {}
    /\ UNCHANGED <<fileVars, details, today, dailyVars, ghostVars>>

\* Mutant: parse_node_detail's ranking is stored as it is.
MergeDetailUnranked(n, q) ==
    details' = [m \in DOMAIN details \cup {n} |->
                   IF m = n THEN [qty |-> q, ranking |-> 0] ELSE details[m]]

\* merge_node_detail_for: a detail has no ranking of its own and keeps the one
\* of the detail it replaces.
MergeDetail(n, q) ==
    details' = [m \in DOMAIN details \cup {n} |->
                   IF m # n THEN details[m]
                   ELSE [qty |-> q,
                         ranking |-> IF n \in DOMAIN details THEN details[n].ranking ELSE 0]]

RemoveDetail(n) == details' = [m \in DOMAIN details \ {n} |-> details[m]]

\* An answer is merged under the lock.
DetailArrives(n, q) ==
    /\ Polled /\ n \in fetching
    /\ fetching' = fetching \ {n}
    /\ MergeDetail(n, q)
    /\ UNCHANGED <<fileVars, refresh, failures, today, dailyVars, ghostVars>>

\* Mutant: the cached detail survives the failure.
DetailFailsQuietly(n) ==
    /\ Polled /\ n \in fetching
    /\ fetching' = fetching \ {n}
    /\ failures' = failures \cup {n}
    /\ UNCHANGED <<fileVars, details, refresh, today, dailyVars, ghostVars>>

\* An error, or 30 seconds without an answer: the request is dropped.
DetailFails(n) ==
    /\ Polled /\ n \in fetching
    /\ fetching' = fetching \ {n}
    /\ failures' = failures \cup {n}
    /\ RemoveDetail(n)
    /\ UNCHANGED <<fileVars, refresh, today, dailyVars, ghostVars>>

DetailsJoined ==
    /\ Polled /\ refresh = "details" /\ fetching = {}
    /\ refresh' = "rankings"
    /\ UNCHANGED <<fileVars, details, fetching, failures, today, dailyVars, ghostVars>>

\* merge_node_ranking_for, for every node in one locked section: a node that
\* is not listed, or has no detail, is left alone.
MergeRankings(listed) ==
    details' = [n \in DOMAIN details |->
                   IF n \in DOMAIN listed THEN [details[n] EXCEPT !.ranking = listed[n]]
                   ELSE details[n]]

RankingsArrive(listed) ==
    /\ Polled /\ refresh = "rankings"
    /\ refresh' = "resting"
    /\ MergeRankings(listed)
    /\ UNCHANGED <<fileVars, fetching, failures, today, dailyVars, ghostVars>>

\* An error, or 30 seconds without an answer.
RankingsFail ==
    /\ Polled /\ refresh = "rankings"
    /\ refresh' = "resting"
    /\ UNCHANGED <<fileVars, details, fetching, failures, today, dailyVars, ghostVars>>

-----------------------------------------------------------------------------
(* The daily loop.                                                         *)

\* Whether midnight passes while files are read and written or right after
\* makes no difference to anyone.
NextDay ==
    /\ Polled /\ today < LastDate
    /\ today' = today + 1
    /\ UNCHANGED <<fileVars, refreshVars, dailyVars, ghostVars>>

\* The timer has counted down to the midnight that was next when it was set.
DeadlineReached == today >= schedule \/ (ClockSkew /\ today + 1 = schedule)

ReadDetails ==
    /\ daily = "waiting" /\ DeadlineReached /\ schedule \in Dates
    /\ report' = [n \in DOMAIN details |-> details[n].qty]
    /\ daily' = "figures"
    /\ UNCHANGED <<fileVars, refreshVars, today, schedule, figures, ghostVars>>

\* daily_summary_details, for the scheduled date.
ComputeFigures ==
    /\ daily = "figures"
    /\ \E h \in ReadStore :
          /\ figures' = Figures(h, schedule, report)
          /\ lost' = (lost \/ h # Contents)
    /\ daily' = "save"
    /\ UNCHANGED <<fileVars, refreshVars, today, schedule, report, recorded>>

\* The summary is handed to the notifier.
HandOver == daily' = "notify" /\ report' = NoSnapshot /\ figures' = NoDetails

Save ==
    /\ daily = "save"
    /\ \E h \in ReadStore :
          /\ BeginSave(h, schedule, report)
          /\ lost' = (lost \/ h # Contents)
    /\ IF report = NoSnapshot THEN HandOver ELSE daily' = "saving" /\ UNCHANGED <<report, figures>>
    /\ UNCHANGED <<refreshVars, today, schedule, recorded>>

SaveStep ==
    /\ daily = "saving"
    /\ WriteTemp \/ RemoveOld
    /\ UNCHANGED <<refreshVars, today, dailyVars, ghostVars>>

Saved ==
    /\ daily = "saving"
    /\ Rename
    /\ recorded' = Upsert(recorded, schedule, report)
    /\ HandOver
    /\ UNCHANGED <<refreshVars, today, schedule, lost>>

\* The error becomes a warning in the status bar; the summary goes out.
SaveFailed ==
    /\ daily = "saving"
    /\ SaveFails
    /\ lost' = (lost \/ step = "rename")
    /\ HandOver
    /\ UNCHANGED <<refreshVars, today, schedule, recorded>>

\* The notifier has posted the summary, however long that took; the next one
\* is due at the midnight after the present moment.
Notified ==
    /\ daily = "notify"
    /\ daily' = "waiting"
    /\ schedule' = today + 1
    /\ UNCHANGED <<fileVars, refreshVars, today, report, figures, ghostVars>>

\* The process is killed and started again: only the file is still there.
Restart ==
    /\ details' = NoDetails
    /\ refresh' = "details"
    /\ fetching' = Nodes
    /\ failures' = {}
    /\ daily' = "waiting"
    /\ report' = NoSnapshot
    /\ figures' = NoDetails
    /\ schedule' = today + 1
    /\ step' = "none" /\ store' = NoHistory
    /\ lost' = (lost \/ step = "rename")
    /\ UNCHANGED <<file, today, recorded>>

-----------------------------------------------------------------------------
Lists == UNION {[S -> Rankings] : S \in SUBSET Nodes}

Next ==
    \/ StartRefresh
    \/ \E n \in Nodes : DetailFails(n) \/ \E q \in Answers[n][today] : DetailArrives(n, q)
    \/ DetailsJoined
    \/ \E listed \in Lists : RankingsArrive(listed)
    \/ RankingsFail
    \/ NextDay
    \/ ReadDetails \/ ComputeFigures \/ Save \/ SaveStep \/ Saved \/ SaveFailed \/ Notified
    \/ Restart

Spec == Init /\ [][Next]_vars

-----------------------------------------------------------------------------
(* Correctness.                                                            *)

\* What the warning of a refresh names is what the panel and the summary lack:
\* no answer that came too late, and no detail of an earlier refresh
\* (fetch_all_node_details).
FailuresAreGaps == refresh # "details" => DOMAIN details = Nodes \ failures

\* A ranking outlives the detail it came with: as long as the node has a detail
\* only a listed ranking replaces it (merge_node_detail_for,
\* merge_node_ranking_for).
RankingsKept ==
    [][\A n \in DOMAIN details \cap DOMAIN details' :
          details'[n].ranking # details[n].ranking =>
              refresh = "rankings" /\ details'[n].ranking # 0]_vars

\* The count of blocks recorded of n on day d, if any: its own, or else a
\* namesake's.
Basis(n, d) ==
    LET s == SnapshotFor(recorded, d)
    IN IF n \in DOMAIN s THEN {s[n]} ELSE {s[m] : m \in {x \in DOMAIN s : NameOf[x] = NameOf[n]}}

Reported == daily \in {"save", "saving"}

\* Whatever fails and whenever the process is killed, a figure that is reported
\* is the difference to a snapshot that was recorded on the day it is meant
\* for (README.md: the day before, the first of the month before).
FiguresNeverWrong ==
    Reported => \A n \in DOMAIN figures :
        /\ figures[n].daily # None =>
              \E b \in Basis(n, schedule - 1) : figures[n].daily = Delta(report[n], b)
        /\ figures[n].monthly # None =>
              \E b \in Basis(n, MonthStart(schedule)) : figures[n].monthly = Delta(report[n], b)

\* Unless a fault cost the history, a figure is missing only if no snapshot was
\* recorded on that day: the history reaches back to the first of the month
\* before, across restarts (DAILY_NODE_SNAPSHOT_HISTORY_LIMIT).
FiguresComplete ==
    Reported /\ ~lost => \A n \in DOMAIN figures :
        /\ figures[n].daily = None => Basis(n, schedule - 1) = {}
        /\ figures[n].monthly = None => Basis(n, MonthStart(schedule)) = {}

\* The file implements a history that is at risk only between the removal of
\* the old file and the renaming of the new one (write_store).
H == INSTANCE DailyHistory WITH
        Limit <- HistoryLimit,
        MayMisread <- DiskFaults,
        history <- IF step = "rename" THEN store ELSE Contents,
        exposed <- step = "rename"

ImplementsDailyHistory == H!Spec
=============================================================================
