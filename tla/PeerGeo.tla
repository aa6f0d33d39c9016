------------------------------ MODULE PeerGeo ------------------------------
(***************************************************************************)
(* Peer geography end to end: the polling task and its enrichment tasks    *)
(* (collect/peer_geo.rs) write through the store of PeerGeoStore.tla, the  *)
(* UI thread (app.rs, widgets/countries.rs) reads it when woken or when a  *)
(* retry is armed, and main shuts them down in order.  The process may be  *)
(* killed at any moment and started again on the same database.            *)
(***************************************************************************)
EXTENDS PeerGeoStore

CONSTANTS
    Urls,           \* the monitored nodes that are polled for their peers
    Enrichable,     \* the IPs that may be looked up at IPinfo (is_enrichable)
    Slots,          \* identities for enrichment tasks
    Poll, Ui,       \* the other two clients of the store
    NoIp,           \* a free slot
    StoreKinds,     \* what opening the database can give: "sqlite", "null"
    MayCrash        \* whether the process may be killed

ASSUME ClientsAssumption ==
    /\ Clients = Slots \cup {Poll, Ui}
    /\ Poll \notin Slots /\ Ui \notin Slots /\ Poll # Ui
ASSUME IpAssumption ==
    Enrichable \subseteq IPs /\ NoIp \notin IPs /\ \A S \in SUBSET IPs : S # Failed
ASSUME KindsAssumption == StoreKinds \subseteq {"sqlite", "null"} /\ MayCrash \in BOOLEAN

VARIABLES
    stop,           \* the collector's stop_flag
    \* the polling task
    pollPc,
    round,          \* the nodes' answers of the round under way
    toEnrich,       \* what is left of the needs_enrichment of that round
    pending,        \* the IPs with an enrichment under way, behind a mutex
    \* the enrichment tasks
    task,           \* for each slot its IP, or NoIp
    taskPc,
    \* the UI thread
    uiPc,
    arm,            \* why it reads: "startup", "wake" or "retry"
    view,           \* the widget's snapshot
    retry,          \* geo_snapshot_retry
    kind            \* which store setup_geo_store returned

pollVars == <<pollPc, round, toEnrich>>
taskVars == <<task, taskPc>>
uiVars == <<uiPc, arm, view, retry, kind>>
vars == <<storeVars, stop, pollVars, pending, taskVars, uiVars>>

Answers == (SUBSET IPs) \cup {Failed}
NoRound == [u \in Urls |-> Failed]

TypeOK ==
    /\ StoreTypeOK
    /\ stop \in BOOLEAN
    /\ pollPc \in {"off", "tick", "fetch", "write", "enrich", "drain", "done"}
    /\ round \in [Urls -> Answers]
    /\ toEnrich \subseteq IPs
    /\ pending \subseteq IPs
    /\ task \in [Slots -> IPs \cup {NoIp}]
    /\ taskPc \in [Slots -> {"free", "lookup", "write"}]
    /\ uiPc \in {"load", "idle", "read", "stop", "join", "close", "closed"}
    /\ arm \in {"startup", "wake", "retry"}
    /\ view \in Views
    /\ retry \in BOOLEAN
    /\ kind \in {"sqlite", "null"}

Init ==
    /\ stop = FALSE
    /\ pollPc = "off" /\ round = NoRound /\ toEnrich = {}
    /\ pending = {}
    /\ task = [t \in Slots |-> NoIp] /\ taskPc = [t \in Slots |-> "free"]
    /\ uiPc = "load" /\ arm = "startup"
    /\ view = EmptyView /\ retry = FALSE
    /\ kind \in StoreKinds
    /\ StoreInit(kind = "sqlite")

-----------------------------------------------------------------------------
(* The polling task: collect_peer_geo.                                     *)

\* The one-second tick: leave the loop on stop, poll when a minute has passed.
PollTick ==
    /\ pollPc = "tick"
    /\ pollPc' = IF stop THEN "drain" ELSE "fetch"
    /\ UNCHANGED <<storeVars, stop, round, toEnrich, pending, taskVars, uiVars>>

\* Mutant: the nodes that answered make a snapshot of their own.
FetchRoundPartial ==
    /\ pollPc = "fetch"
    /\ \E answers \in [Urls -> Answers] :
          /\ round' = answers
          /\ Send(Poll, [op |-> "replace", from |-> Poll,
                         ips |-> UNION {answers[u] : u \in {v \in Urls : answers[v] # Failed}}])
          /\ pollPc' = "write"
    /\ UNCHANGED <<diskVars, fault, wake, worker, stop, toEnrich, pending, taskVars, uiVars>>

\* Every node is asked; merge_node_results needs all the answers, and one
\* failure retains the previous Peer Snapshot.
FetchRound ==
    /\ pollPc = "fetch"
    /\ \/ /\ pollPc' = "tick"
          /\ UNCHANGED <<round, queue, reply>>
       \/ \E answers \in [Urls -> SUBSET IPs] :
             /\ round' = answers
             /\ pollPc' = "write"
             /\ Send(Poll, [op |-> "replace", from |-> Poll,
                            ips |-> UNION {answers[u] : u \in Urls}])
    /\ UNCHANGED <<diskVars, fault, wake, worker, stop, toEnrich, pending, taskVars, uiVars>>

\* The reply: the enrichable IPs among those that need it are started one by one.
SnapshotWritten ==
    /\ pollPc = "write" /\ reply[Poll] # NoReply
    /\ round' = NoRound
    /\ IF reply[Poll] = Failed
       THEN pollPc' = "tick" /\ UNCHANGED toEnrich
       ELSE pollPc' = "enrich" /\ toEnrich' = reply[Poll].needs \cap Enrichable
    /\ Consume(Poll)
    /\ UNCHANGED <<diskVars, fault, queue, wake, worker, stop, pending, taskVars, uiVars>>

\* Mutant: the pending set is not consulted.
StartEnrichmentAlways(ip) ==
    /\ pollPc = "enrich" /\ ip \in toEnrich
    /\ toEnrich' = toEnrich \ {ip}
    /\ \E t \in Slots :
          /\ taskPc[t] = "free"
          /\ task' = [task EXCEPT ![t] = ip]
          /\ taskPc' = [taskPc EXCEPT ![t] = "lookup"]
    /\ pending' = pending \cup {ip}
    /\ UNCHANGED <<storeVars, stop, pollPc, round, uiVars>>

\* An IP whose enrichment is still under way is skipped, any other gets a task.
StartEnrichment(ip) ==
    /\ pollPc = "enrich" /\ ip \in toEnrich
    /\ toEnrich' = toEnrich \ {ip}
    /\ \/ /\ ip \in pending
          /\ UNCHANGED <<pending, taskVars>>
       \/ /\ ip \notin pending
          /\ pending' = pending \cup {ip}
          /\ \E t \in Slots :
                /\ taskPc[t] = "free"
                /\ task' = [task EXCEPT ![t] = ip]
                /\ taskPc' = [taskPc EXCEPT ![t] = "lookup"]
    /\ UNCHANGED <<storeVars, stop, pollPc, round, uiVars>>

RoundDone ==
    /\ pollPc = "enrich" /\ toEnrich = {}
    /\ pollPc' = "tick"
    /\ UNCHANGED <<storeVars, stop, round, toEnrich, pending, taskVars, uiVars>>

\* Mutant: the task returns without waiting for its enrichments.
DrainedAtOnce ==
    /\ pollPc = "drain"
    /\ pollPc' = "done"
    /\ UNCHANGED <<storeVars, stop, round, toEnrich, pending, taskVars, uiVars>>

\* join_next until every enrichment task has ended.
Drained ==
    /\ pollPc = "drain"
    /\ \A t \in Slots : taskPc[t] = "free"
    /\ pollPc' = "done"
    /\ UNCHANGED <<storeVars, stop, round, toEnrich, pending, taskVars, uiVars>>

-----------------------------------------------------------------------------
(* An enrichment task.                                                     *)

\* The lookup answers with a country, with a location only, or not at all.
Lookup(t) ==
    /\ taskPc[t] = "lookup"
    /\ taskPc' = [taskPc EXCEPT ![t] = "write"]
    /\ \E country \in Countries \cup {Unknown, Failed} :
          Send(t, [op |-> "update", from |-> t, ip |-> task[t], country |-> country])
    /\ UNCHANGED <<diskVars, fault, wake, worker, stop, pollVars, pending, task, uiVars>>

\* Mutant: a failed store write returns early and leaves the IP pending.
EnrichmentEndsEarly(t) ==
    /\ taskPc[t] = "write" /\ reply[t] # NoReply
    /\ taskPc' = [taskPc EXCEPT ![t] = "free"]
    /\ task' = [task EXCEPT ![t] = NoIp]
    /\ pending' = IF reply[t] = Failed THEN pending ELSE pending \ {task[t]}
    /\ Consume(t)
    /\ UNCHANGED <<diskVars, fault, queue, wake, worker, stop, pollVars, uiVars>>

\* Whatever the store replied, the IP may be looked up again.
EnrichmentEnds(t) ==
    /\ taskPc[t] = "write" /\ reply[t] # NoReply
    /\ taskPc' = [taskPc EXCEPT ![t] = "free"]
    /\ task' = [task EXCEPT ![t] = NoIp]
    /\ pending' = pending \ {task[t]}
    /\ Consume(t)
    /\ UNCHANGED <<diskVars, fault, queue, wake, worker, stop, pollVars, uiVars>>

-----------------------------------------------------------------------------
(* The UI thread: refresh_geo_snapshot at startup and from two arms.       *)

StartRead(why) ==
    /\ uiPc' = "read"
    /\ arm' = why
    /\ Send(Ui, [op |-> "snapshot", from |-> Ui])
    /\ UNCHANGED <<diskVars, fault, worker, stop, pollVars, pending, taskVars, view, retry, kind>>

LoadAtStartup ==
    /\ uiPc = "load"
    /\ StartRead("startup")
    /\ UNCHANGED wake

\* The channel of a store that could not be opened has lost its sender, and a
\* disconnected channel is always ready.
RecvWake ==
    /\ uiPc = "idle" /\ (wake \/ kind = "null")
    /\ wake' = FALSE
    /\ StartRead("wake")

RetryTick ==
    /\ uiPc = "idle" /\ retry
    /\ StartRead("retry")
    /\ UNCHANGED wake

\* Mutant: a failed read is not retried.
ReadEndsNoRetry ==
    /\ uiPc = "read" /\ reply[Ui] # NoReply
    /\ uiPc' = "idle"
    /\ IF reply[Ui] = Failed THEN UNCHANGED view ELSE view' = reply[Ui].view
    /\ retry' = FALSE
    /\ pollPc' = IF arm = "startup" THEN "tick" ELSE pollPc
    /\ Consume(Ui)
    /\ UNCHANGED <<diskVars, fault, queue, wake, worker, stop, round, toEnrich, pending,
                   taskVars, arm, kind>>

\* A failed read keeps the last snapshot and arms the retry.  After the one at
\* startup the collector is spawned.
ReadEnds ==
    /\ uiPc = "read" /\ reply[Ui] # NoReply
    /\ uiPc' = "idle"
    /\ IF reply[Ui] = Failed
       THEN retry' = TRUE /\ UNCHANGED view
       ELSE retry' = FALSE /\ view' = reply[Ui].view
    /\ pollPc' = IF arm = "startup" THEN "tick" ELSE pollPc
    /\ Consume(Ui)
    /\ UNCHANGED <<diskVars, fault, queue, wake, worker, stop, round, toEnrich, pending,
                   taskVars, arm, kind>>

-----------------------------------------------------------------------------
(* main after the event loop: stop, join the collector, close the store.   *)

LeaveLoop ==
    /\ uiPc = "idle"
    /\ uiPc' = "join"
    /\ stop' = TRUE
    /\ UNCHANGED <<storeVars, pollVars, pending, taskVars, arm, view, retry, kind>>

JoinCollector ==
    /\ uiPc = "join" /\ pollPc = "done"
    /\ uiPc' = "close"
    /\ SendShutdown
    /\ UNCHANGED <<diskVars, fault, reply, wake, worker, stop, pollVars, pending, taskVars,
                   arm, view, retry, kind>>

JoinWorker ==
    /\ uiPc = "close" /\ worker = "exited"
    /\ uiPc' = "closed"
    /\ UNCHANGED <<storeVars, stop, pollVars, pending, taskVars, arm, view, retry, kind>>

\* The process is killed and started again on the same database file.
Crash ==
    /\ MayCrash /\ kind = "sqlite"
    /\ stop' = FALSE
    /\ pollPc' = "off" /\ round' = NoRound /\ toEnrich' = {}
    /\ pending' = {}
    /\ task' = [t \in Slots |-> NoIp] /\ taskPc' = [t \in Slots |-> "free"]
    /\ uiPc' = "load" /\ arm' = "startup"
    /\ view' = EmptyView /\ retry' = FALSE
    /\ queue' = <<>> /\ reply' = [c \in Clients |-> NoReply] /\ wake' = FALSE
    /\ worker' = "running"
    /\ UNCHANGED <<diskVars, fault, kind>>

-----------------------------------------------------------------------------
StoreStep ==
    /\ Serve \/ DiskFault \/ \E ip \in IPs : CacheAges(ip)
    /\ UNCHANGED <<stop, pollVars, pending, taskVars, uiVars>>

PollStep ==
    \/ PollTick \/ FetchRound \/ SnapshotWritten \/ RoundDone \/ Drained
    \/ \E ip \in IPs : StartEnrichment(ip)

TaskStep(t) == Lookup(t) \/ EnrichmentEnds(t)

Next ==
    \/ StoreStep
    \/ PollStep
    \/ \E t \in Slots : TaskStep(t)
    \/ LoadAtStartup \/ RecvWake \/ RetryTick \/ ReadEnds
    \/ LeaveLoop \/ JoinCollector \/ JoinWorker
    \/ Crash

\* Threads and tasks keep running; RPC calls and lookups carry timeouts of ten
\* seconds, so they end.  select! picks at random among ready arms, hence
\* strong fairness for the two arms that read.  Nothing is assumed of the disk,
\* of crashes, or of the user ever leaving.
Fairness ==
    /\ WF_vars(Serve /\ UNCHANGED <<stop, pollVars, pending, taskVars, uiVars>>)
    /\ WF_vars(PollStep)
    /\ \A t \in Slots : WF_vars(TaskStep(t))
    /\ WF_vars(LoadAtStartup \/ ReadEnds \/ JoinCollector \/ JoinWorker)
    /\ SF_vars(RecvWake)
    /\ SF_vars(RetryTick)

Safety == Init /\ [][Next]_vars
Spec == Safety /\ Fairness

-----------------------------------------------------------------------------
(* Correctness.                                                            *)

\* A UI thread with neither a token nor a retry to wait for displays exactly
\* what the database holds: commits made while it reads, failed reads and
\* restarts never leave the panel stale for good (worker_loop, refresh_snapshot,
\* retry_geo_snapshot).
PanelCurrent == uiPc = "idle" /\ kind = "sqlite" /\ ~wake /\ ~retry => view = GeoView

\* An IP is pending exactly while one task enriches it: it is never looked up
\* by two tasks at once and never stays blocked after its task ended.
PendingExact ==
    /\ pending = {task[t] : t \in {u \in Slots : taskPc[u] # "free"}}
    /\ \A t, u \in Slots : taskPc[t] # "free" /\ task[t] = task[u] => t = u

\* Enrichments are drained before the store shuts down, so no write of theirs
\* is queued behind Shutdown or answered by a worker that is gone.
WritesLandBeforeShutdown ==
    uiPc \in {"close", "closed"} =>
        /\ \A i \in 1..Len(queue) : queue[i].op = "shutdown"
        /\ \A t \in Slots : taskPc[t] = "free"

\* The Peer Snapshot is only ever replaced by the union of one round in which
\* every node answered, across crashes, failed writes and stops.
SnapshotsComplete ==
    [][peers' # peers =>
          /\ \A u \in Urls : round[u] # Failed
          /\ peers' = UNION {round[u] : u \in Urls}]_vars

\* What a successful lookup stored survives failed ones: a row is never lost,
\* and its country changes only together with a fresh success.
SuccessesKept ==
    [][\A ip \in IPs : cache[ip] # NoRow =>
          /\ cache'[ip] # NoRow
          /\ cache[ip].age # "never" => cache'[ip].age # "never"
          /\ cache'[ip].country # cache[ip].country => cache'[ip].age = "fresh"]_vars

\* An enrichment always ends and frees its IP for the next round.
EnrichmentsEnd == \A ip \in Enrichable : ip \in pending ~> ip \notin pending

\* Once the disk works and the database no longer changes, the panel shows it.
PanelCatchesUp ==
    \A v \in Views :
        <>[](GeoView = v /\ ~fault)
            => <>[](view = v \/ uiPc \in {"join", "close", "closed"})

\* Leaving the event loop always ends with the collector joined and the worker
\* gone: nobody waits for a reply that never comes.
ShutdownCompletes == uiPc = "join" ~> uiPc = "closed"

\* The comments in geo/store.rs: the wake channel fires after a successful write
\* commit, and a dashboard without a database just keeps running with an empty
\* panel.
WokenByCommitsOnly ==
    [][uiPc = "idle" /\ uiPc' = "read" /\ arm' = "wake" => wake]_vars
=============================================================================
