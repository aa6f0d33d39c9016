---------------------------- MODULE PeerGeoProofs ----------------------------
(***************************************************************************)
(* For any peers, nodes, number of enrichment tasks and order of faults    *)
(* and kills: PeerGeo keeps its types, looks no IP up twice at once, shows *)
(* the database, replaces the Peer Snapshot by complete rounds only, keeps *)
(* what lookups found, and closes the store when nobody writes any more.   *)
(***************************************************************************)
EXTENDS PeerGeo, FiniteSetTheorems, TLAPS

\* The clients that block on their reply channel.
Waiters ==
    {c \in Clients : \/ c = Poll /\ pollPc = "write"
                     \/ c = Ui /\ uiPc = "read"
                     \/ c \in Slots /\ taskPc[c] = "write"}

\* The calls in the queue.
Calls == {i \in 1..Len(queue) : queue[i].op # "shutdown"}

\* A client has at most one call outstanding, which is a command in the queue
\* or a reply in its channel, and only while it waits.
CallsInStep ==
    /\ \A i \in Calls :
          /\ queue[i].from \in Waiters /\ reply[queue[i].from] = NoReply
          /\ \A j \in Calls : queue[j].from = queue[i].from => j = i
    /\ \A c \in Clients : reply[c] # NoReply => c \in Waiters

\* Who sends what; a snapshot on its way is the round just polled, complete.
Owned ==
    {cmd \in Commands :
        /\ cmd.op = "replace" =>
              /\ cmd.from = Poll
              /\ \A u \in Urls : round[u] # Failed
              /\ cmd.ips = UNION {round[u] : u \in Urls}
        /\ cmd.op = "update" => cmd.from \in Slots
        /\ cmd.op = "snapshot" => cmd.from = Ui}

CommandsOwned ==
    /\ \A i \in 1..Len(queue) : queue[i] \in Owned
    /\ reply[Poll] \in {NoReply, Failed} \cup [needs : SUBSET IPs]
    /\ reply[Ui] \in {NoReply, Failed} \cup [view : Views]

\* The order of startup and shutdown.
LifeCycle ==
    /\ uiPc = "load" => pollPc = "off"
    /\ uiPc = "read" /\ arm = "startup" => pollPc = "off"
    /\ uiPc \in {"close", "closed"} => pollPc = "done"
    /\ pollPc = "done" => \A t \in Slots : taskPc[t] = "free"

\* A slot is free exactly when it has no IP.
TasksHaveIps == \A t \in Slots : taskPc[t] = "free" <=> task[t] = NoIp

\* A panel that may be stale has a token, a retry or a later read ahead of it.
PanelFresh ==
    kind = "sqlite" =>
        /\ uiPc = "idle" /\ ~wake /\ ~retry => view = GeoView
        /\ uiPc = "read" /\ reply[Ui] \notin {NoReply, Failed} => wake \/ reply[Ui].view = GeoView

IInv ==
    /\ TypeOK /\ CallsInStep /\ CommandsOwned /\ LifeCycle
    /\ TasksHaveIps /\ PendingExact /\ PanelFresh

-----------------------------------------------------------------------------
(* Lemmas on the queue and the view.                                       *)

\* Taking the first command off the queue.
LEMMA TailFacts ==
    ASSUME NEW S, NEW q \in Seq(S), q # <<>>
    PROVE  /\ Tail(q) \in Seq(S) /\ Head(q) \in S /\ Head(q) = q[1] /\ 1 \in 1..Len(q)
           /\ Len(Tail(q)) = Len(q) - 1
           /\ \A i \in 1..Len(Tail(q)) : Tail(q)[i] = q[i + 1] /\ i + 1 \in 1..Len(q)
  OBVIOUS

\* Putting a command behind the others.
LEMMA AppendFacts ==
    ASSUME NEW S, NEW q \in Seq(S), NEW e \in S
    PROVE  /\ Append(q, e) \in Seq(S) /\ Len(Append(q, e)) = Len(q) + 1
           /\ Append(q, e)[Len(q) + 1] = e
           /\ \A i \in 1..Len(q) : Append(q, e)[i] = q[i]
           /\ \A i \in 1..Len(Append(q, e)) : i \in 1..Len(q) \/ i = Len(q) + 1
  OBVIOUS

\* Every client is who it says (setup_geo_store and the clones of its handle).
LEMMA ClientCases ==
    /\ Poll \in Clients /\ Ui \in Clients /\ Slots \subseteq Clients
    /\ \A c \in Clients : c = Poll \/ c = Ui \/ c \in Slots
  BY ClientsAssumption

\* What the database shows is a view (build_geo_view_snapshot).
LEMMA ViewType == TypeOK => GeoView \in Views
  <1> SUFFICES ASSUME TypeOK, NEW c \in Countries \cup {Unknown}
               PROVE  Cardinality({ip \in peers : CountryOf(ip) = c}) \in 0..Cardinality(IPs)
    BY DEF GeoView, Views
  <1> DEFINE S == {ip \in peers : CountryOf(ip) = c}
  <1>1. S \subseteq IPs
    BY DEF TypeOK, StoreTypeOK
  <1>2. IsFiniteSet(S) /\ Cardinality(S) <= Cardinality(IPs)
    BY <1>1, FS_Subset, StoreAssumption
  <1>3. Cardinality(S) \in Nat /\ Cardinality(IPs) \in Nat
    BY <1>2, FS_CardinalityType, StoreAssumption
  <1> QED
    BY <1>2, <1>3

\* The panel starts with a view (GeoViewSnapshot::default).
LEMMA EmptyViewType == EmptyView \in Views
  BY FS_CardinalityType, StoreAssumption DEF EmptyView, Views

\* A command of each kind has the fields of its kind.
LEMMA CommandKinds ==
    ASSUME NEW cmd \in Commands
    PROVE  /\ cmd.op \in {"replace", "update", "snapshot", "shutdown"}
           /\ cmd.op # "shutdown" => cmd.from \in Clients
           /\ cmd.op = "replace" => cmd.ips \subseteq IPs
           /\ cmd.op = "update" => cmd.ip \in IPs /\ cmd.country \in Countries \cup {Unknown, Failed}
  BY DEF Commands

-----------------------------------------------------------------------------
(* Calls: what sending, serving and taking a reply do to CallsInStep.      *)

\* A client that was not waiting makes a call (the handle's send).
LEMMA SendKeepsCalls ==
    ASSUME TypeOK, CallsInStep, NEW c \in Clients, NEW cmd \in Commands,
           cmd.op # "shutdown", cmd.from = c, Send(c, cmd),
           c \notin Waiters, Waiters \cup {c} \subseteq Waiters'
    PROVE  CallsInStep'
  <1>1. reply[c] = NoReply /\ \A i \in Calls : queue[i].from # c
    BY DEF CallsInStep
  <1>2. CASE worker = "running"
    <2>1. queue' = Append(queue, cmd) /\ reply' = reply
      BY <1>2 DEF Send
    <2>2. /\ Len(queue') = Len(queue) + 1 /\ queue'[Len(queue) + 1] = cmd
          /\ \A i \in 1..Len(queue) : queue'[i] = queue[i]
          /\ \A i \in 1..Len(queue') : i \in 1..Len(queue) \/ i = Len(queue) + 1
          /\ Len(queue) \in Nat
      BY <2>1, AppendFacts DEF TypeOK, StoreTypeOK
    <2>3. \A i \in Calls' : \/ i \in Calls /\ queue'[i] = queue[i]
                            \/ i = Len(queue) + 1 /\ queue'[i] = cmd
      BY <2>2 DEF Calls
    <2>4. ASSUME NEW i \in Calls'
          PROVE  queue'[i].from \in Waiters' /\ reply'[queue'[i].from] = NoReply
      BY <1>1, <2>1, <2>3, <2>4 DEF CallsInStep
    <2>5. ASSUME NEW i \in Calls', NEW j \in Calls', queue'[j].from = queue'[i].from
          PROVE  j = i
      BY <1>1, <2>3, <2>5 DEF CallsInStep
    <2>6. \A d \in Clients : reply'[d] # NoReply => d \in Waiters'
      BY <2>1 DEF CallsInStep
    <2> QED
      BY <2>4, <2>5, <2>6 DEF CallsInStep
  <1>3. CASE worker # "running"
    <2>1. queue' = queue /\ reply' = [reply EXCEPT ![c] = Failed] /\ reply \in [Clients -> Replies]
      BY <1>3 DEF Send, TypeOK, StoreTypeOK
    <2>2. Calls' = Calls
      BY <2>1 DEF Calls
    <2>3. \A i \in Calls : queue[i].from \in Clients
      BY DEF CallsInStep, Waiters
    <2> QED
      BY <1>1, <2>1, <2>2, <2>3 DEF CallsInStep
  <1> QED
    BY <1>2, <1>3

\* The reply is taken and the client goes on (the handle's recv).
LEMMA ConsumeKeepsCalls ==
    ASSUME TypeOK, CallsInStep, NEW c \in Clients, reply[c] # NoReply, Consume(c),
           UNCHANGED queue, Waiters \ {c} \subseteq Waiters'
    PROVE  CallsInStep'
  <1>1. reply' = [reply EXCEPT ![c] = NoReply] /\ reply \in [Clients -> Replies]
    BY DEF Consume, TypeOK, StoreTypeOK
  <1>2. Calls' = Calls /\ \A i \in Calls : queue[i].from \in Waiters \ {c} /\ queue[i].from \in Clients
    BY DEF Calls, CallsInStep, Waiters
  <1> QED
    BY <1>1, <1>2 DEF CallsInStep

\* The worker answers the first command.
LEMMA AnswerKeepsCalls ==
    ASSUME TypeOK, CallsInStep, queue # <<>>, Head(queue).op # "shutdown",
           NEW value, reply' = [reply EXCEPT ![Head(queue).from] = value],
           queue' = Tail(queue), Waiters \subseteq Waiters'
    PROVE  CallsInStep'
  <1>1. /\ queue \in Seq(Commands) /\ reply \in [Clients -> Replies]
    BY DEF TypeOK, StoreTypeOK
  <1>2. /\ Head(queue) = queue[1] /\ 1 \in 1..Len(queue)
        /\ \A i \in 1..Len(queue') : queue'[i] = queue[i + 1] /\ i + 1 \in 1..Len(queue)
    BY <1>1, TailFacts
  <1>3. 1 \in Calls /\ queue[1].from \in Waiters
    BY <1>2 DEF Calls, CallsInStep
  <1>4. \A i \in Calls' : i \in Nat /\ i # 0 /\ i + 1 \in Calls /\ queue'[i] = queue[i + 1]
    BY <1>2 DEF Calls
  <1>5. ASSUME NEW i \in Calls'
        PROVE  /\ queue'[i].from \in Waiters' /\ reply'[queue'[i].from] = NoReply
               /\ \A j \in Calls' : queue'[j].from = queue'[i].from => j = i
    <2>1. i \in Nat /\ i # 0 /\ i + 1 \in Calls /\ queue'[i] = queue[i + 1]
      BY <1>4
    <2>2. i + 1 # 1
      BY <2>1
    <2>3. queue[i + 1].from \in Waiters /\ reply[queue[i + 1].from] = NoReply
      BY <2>1 DEF CallsInStep
    <2>4. queue[i + 1].from # queue[1].from /\ queue[i + 1].from \in Clients
      BY <1>3, <2>1, <2>3, <2>2 DEF CallsInStep, Waiters
    <2>5. ASSUME NEW j \in Calls', queue'[j].from = queue'[i].from PROVE j = i
      <3>1. j \in Nat /\ j + 1 \in Calls /\ queue'[j] = queue[j + 1]
        BY <1>4, <2>5
      <3>2. queue[j + 1].from = queue[i + 1].from
        BY <2>1, <2>5, <3>1
      <3>3. j + 1 = i + 1
        BY <2>1, <3>1, <3>2 DEF CallsInStep
      <3> QED
        BY <2>1, <3>1, <3>3
    <2> QED
      BY <1>1, <1>2, <2>1, <2>3, <2>4, <2>5
  <1>6. ASSUME NEW c \in Clients, reply'[c] # NoReply PROVE c \in Waiters'
    BY <1>1, <1>2, <1>3, <1>6 DEF CallsInStep
  <1> QED
    BY <1>5, <1>6 DEF CallsInStep

\* Nobody calls or is answered, and nobody stops waiting.
LEMMA IdleKeepsCalls ==
    ASSUME CallsInStep, UNCHANGED <<queue, reply>>, Waiters \subseteq Waiters'
    PROVE  CallsInStep'
  <1>1. Calls' = Calls
    BY DEF Calls
  <1> QED
    BY <1>1 DEF CallsInStep

-----------------------------------------------------------------------------
(* Types.                                                                  *)

\* What the store's commands do.
LEMMA ServeTypes ==
    ASSUME TypeOK, Serve
    PROVE  StoreTypeOK'
  <1>1. /\ queue \in Seq(Commands) /\ reply \in [Clients -> Replies]
        /\ cache \in [IPs -> Rows \cup {NoRow}] /\ peers \subseteq IPs
        /\ fault \in BOOLEAN /\ wake \in BOOLEAN /\ worker \in {"running", "exited"}
    BY DEF TypeOK, StoreTypeOK
  <1>2. queue # <<>>
    BY DEF Serve, ServeReplace, ServeUpdate, ServeSnapshot, ServeShutdown, Serves
  <1>3. Head(queue) \in Commands /\ Tail(queue) \in Seq(Commands)
    BY <1>1, <1>2, TailFacts
  <1>4. GeoView \in Views
    BY ViewType
  <1>5. Failed \in Replies /\ [done |-> TRUE] \in Replies /\ [view |-> GeoView] \in Replies
    BY <1>4 DEF Replies
  <1>6. CASE ServeReplace
    <2>1. Head(queue).from \in Clients /\ Head(queue).ips \subseteq IPs
      BY <1>3, <1>6, CommandKinds DEF ServeReplace, Serves
    <2>2. [needs |-> {ip \in Head(queue).ips : NeedsEnrichment(ip)}] \in Replies
      BY <2>1 DEF Replies
    <2> QED
      BY <1>1, <1>3, <1>5, <1>6, <2>1, <2>2
      DEF ServeReplace, StoreTypeOK, Commit, Rollback, diskVars
  <1>7. CASE ServeUpdate
    <2>1. /\ Head(queue).from \in Clients /\ Head(queue).ip \in IPs
          /\ Head(queue).country \in Countries \cup {Unknown, Failed}
      BY <1>3, <1>7, CommandKinds DEF ServeUpdate, Serves
    <2>2. Upsert(cache[Head(queue).ip], Head(queue).country) \in Rows \cup {NoRow}
      BY <1>1, <2>1 DEF Upsert, Rows, Ages
    <2> QED
      BY <1>1, <1>3, <1>5, <1>7, <2>1, <2>2
      DEF ServeUpdate, StoreTypeOK, Commit, Rollback, diskVars
  <1>8. CASE ServeSnapshot
    <2>1. Head(queue).from \in Clients
      BY <1>3, <1>8, CommandKinds DEF ServeSnapshot, Serves
    <2> QED
      BY <1>1, <1>3, <1>5, <1>8, <2>1 DEF ServeSnapshot, StoreTypeOK, Rollback, diskVars
  <1>9. CASE ServeShutdown
    BY <1>1, <1>5, <1>9 DEF ServeShutdown, StoreTypeOK, diskVars
  <1> QED
    BY <1>6, <1>7, <1>8, <1>9 DEF Serve

\* Time and the disk.
LEMMA EnvironmentTypes ==
    ASSUME TypeOK, DiskFault \/ \E ip \in IPs : CacheAges(ip)
    PROVE  StoreTypeOK'
  <1>1. CASE DiskFault
    BY <1>1 DEF TypeOK, StoreTypeOK, DiskFault, diskVars
  <1>2. ASSUME NEW ip \in IPs, CacheAges(ip) PROVE StoreTypeOK'
    <2>1. cache[ip] \in Rows
      BY <1>2 DEF TypeOK, StoreTypeOK, CacheAges
    <2>2. [cache[ip] EXCEPT !.age = "stale"] \in Rows
      BY <2>1 DEF Rows, Ages
    <2> QED
      BY <1>2, <2>2 DEF TypeOK, StoreTypeOK, CacheAges
  <1> QED
    BY <1>1, <1>2

\* A call changes the queue or the reply channel of its client.
LEMMA SendTypes ==
    ASSUME TypeOK, NEW c \in Clients, NEW cmd \in Commands, Send(c, cmd)
    PROVE  queue' \in Seq(Commands) /\ reply' \in [Clients -> Replies]
  <1>1. queue \in Seq(Commands) /\ reply \in [Clients -> Replies] /\ Failed \in Replies
    BY DEF TypeOK, StoreTypeOK, Replies
  <1>2. Append(queue, cmd) \in Seq(Commands)
    BY <1>1, AppendFacts
  <1> QED
    BY <1>1, <1>2 DEF Send

\* Taking a reply empties the channel of its client.
LEMMA ConsumeTypes ==
    ASSUME TypeOK, NEW c \in Clients, Consume(c)
    PROVE  reply' \in [Clients -> Replies]
  BY DEF TypeOK, StoreTypeOK, Consume, Replies

\* The polling task.
LEMMA PollTypes ==
    ASSUME TypeOK, CommandsOwned, PollStep
    PROVE  TypeOK'
  <1>1. CASE PollTick \/ RoundDone \/ Drained
    BY <1>1 DEF TypeOK, StoreTypeOK, PollTick, RoundDone, Drained, storeVars, diskVars, taskVars, uiVars
  <1>2. CASE FetchRound
    <2>1. CASE pollPc' = "tick" /\ UNCHANGED <<round, queue, reply>>
      BY <1>2, <2>1 DEF TypeOK, StoreTypeOK, FetchRound, diskVars, taskVars, uiVars
    <2>2. ASSUME NEW answers \in [Urls -> SUBSET IPs], round' = answers, pollPc' = "write",
                 Send(Poll, [op |-> "replace", from |-> Poll, ips |-> UNION {answers[u] : u \in Urls}])
          PROVE  TypeOK'
      <3>1. [op |-> "replace", from |-> Poll, ips |-> UNION {answers[u] : u \in Urls}] \in Commands
        BY ClientCases DEF Commands
      <3>2. queue' \in Seq(Commands) /\ reply' \in [Clients -> Replies]
        BY <2>2, <3>1, SendTypes, ClientCases
      <3>3. round' \in [Urls -> Answers]
        BY <2>2 DEF Answers
      <3> QED
        BY <1>2, <2>2, <3>2, <3>3 DEF TypeOK, StoreTypeOK, FetchRound, diskVars, taskVars, uiVars
    <2> QED
      BY <1>2, <2>1, <2>2 DEF FetchRound
  <1>3. CASE SnapshotWritten
    <2>1. reply' \in [Clients -> Replies]
      BY <1>3, ConsumeTypes, ClientCases DEF SnapshotWritten
    <2>2. NoRound \in [Urls -> Answers]
      BY DEF NoRound, Answers
    <2>3. reply[Poll] # Failed => reply[Poll].needs \subseteq IPs
      BY <1>3 DEF CommandsOwned, SnapshotWritten
    <2> QED
      BY <1>3, <2>1, <2>2, <2>3 DEF TypeOK, StoreTypeOK, SnapshotWritten, diskVars, taskVars, uiVars
  <1>4. ASSUME NEW ip \in IPs, StartEnrichment(ip) PROVE TypeOK'
    BY <1>4 DEF TypeOK, StoreTypeOK, StartEnrichment, storeVars, diskVars, taskVars, uiVars
  <1> QED
    BY <1>1, <1>2, <1>3, <1>4 DEF PollStep

\* The enrichment tasks.
LEMMA TaskTypes ==
    ASSUME TypeOK, TasksHaveIps, NEW t \in Slots, TaskStep(t)
    PROVE  TypeOK'
  <1>1. CASE Lookup(t)
    <2>1. task[t] \in IPs
      BY <1>1 DEF Lookup, TypeOK, TasksHaveIps
    <2>2. PICK country \in Countries \cup {Unknown, Failed} :
             Send(t, [op |-> "update", from |-> t, ip |-> task[t], country |-> country])
      BY <1>1 DEF Lookup
    <2>3. [op |-> "update", from |-> t, ip |-> task[t], country |-> country] \in Commands
      BY <2>1, ClientCases DEF Commands
    <2>4. queue' \in Seq(Commands) /\ reply' \in [Clients -> Replies]
      BY <2>2, <2>3, SendTypes, ClientCases
    <2> QED
      BY <1>1, <2>4 DEF TypeOK, StoreTypeOK, Lookup, diskVars, pollVars, uiVars
  <1>2. CASE EnrichmentEnds(t)
    <2>1. reply' \in [Clients -> Replies]
      BY <1>2, ConsumeTypes, ClientCases DEF EnrichmentEnds
    <2> QED
      BY <1>2, <2>1 DEF TypeOK, StoreTypeOK, EnrichmentEnds, diskVars, pollVars, uiVars
  <1> QED
    BY <1>1, <1>2 DEF TaskStep

\* The steps of the UI thread.
UiStep == LoadAtStartup \/ RecvWake \/ RetryTick \/ ReadEnds \/ LeaveLoop \/ JoinCollector \/ JoinWorker

\* The UI thread.
LEMMA UiTypes ==
    ASSUME TypeOK, CommandsOwned, UiStep
    PROVE  TypeOK'
  <1>1. CASE LoadAtStartup \/ RecvWake \/ RetryTick
    <2>1. Send(Ui, [op |-> "snapshot", from |-> Ui])
      BY <1>1 DEF LoadAtStartup, RecvWake, RetryTick, StartRead
    <2>2. [op |-> "snapshot", from |-> Ui] \in Commands
      BY ClientCases DEF Commands
    <2>3. queue' \in Seq(Commands) /\ reply' \in [Clients -> Replies]
      BY <2>1, <2>2, SendTypes, ClientCases
    <2> QED
      BY <1>1, <2>3
      DEF TypeOK, StoreTypeOK, LoadAtStartup, RecvWake, RetryTick, StartRead, diskVars, pollVars, taskVars
  <1>2. CASE ReadEnds
    <2>1. reply' \in [Clients -> Replies]
      BY <1>2, ConsumeTypes, ClientCases DEF ReadEnds
    <2>2. reply[Ui] # Failed => reply[Ui].view \in Views
      BY <1>2 DEF ReadEnds, CommandsOwned
    <2> QED
      BY <1>2, <2>1, <2>2 DEF TypeOK, StoreTypeOK, ReadEnds, diskVars, taskVars
  <1>3. CASE LeaveLoop \/ JoinWorker
    BY <1>3 DEF TypeOK, StoreTypeOK, LeaveLoop, JoinWorker, storeVars, diskVars, pollVars, taskVars
  <1>4. CASE JoinCollector
    <2>1. [op |-> "shutdown"] \in Commands
      BY DEF Commands
    <2>2. queue' \in Seq(Commands)
      BY <1>4, <2>1, AppendFacts DEF JoinCollector, SendShutdown, TypeOK, StoreTypeOK
    <2> QED
      BY <1>4, <2>2 DEF TypeOK, StoreTypeOK, JoinCollector, diskVars, pollVars, taskVars
  <1> QED
    BY <1>1, <1>2, <1>3, <1>4 DEF UiStep

\* A restart begins with empty channels and the old tables.
LEMMA CrashTypes == TypeOK /\ Crash => TypeOK'
  <1>1. EmptyView \in Views /\ NoRound \in [Urls -> Answers]
    BY EmptyViewType DEF NoRound, Answers
  <1>2. [c \in Clients |-> NoReply] \in [Clients -> Replies] /\ <<>> \in Seq(Commands)
    BY DEF Replies
  <1> QED
    BY <1>1, <1>2 DEF TypeOK, StoreTypeOK, Crash, diskVars

-----------------------------------------------------------------------------
(* Every step keeps CallsInStep.                                           *)

\* The worker answers whom it serves, and fails whom it leaves behind.
LEMMA StoreCalls ==
    ASSUME TypeOK, CallsInStep, StoreStep
    PROVE  CallsInStep'
  <1>1. Waiters' = Waiters
    BY DEF StoreStep, Waiters, pollVars, taskVars, uiVars
  <1>2. CASE DiskFault \/ \E ip \in IPs : CacheAges(ip)
    BY <1>1, <1>2, IdleKeepsCalls DEF DiskFault, CacheAges
  <1>3. CASE ServeReplace
    <2>1. /\ queue # <<>> /\ Head(queue).op # "shutdown" /\ queue' = Tail(queue)
          /\ \E value : reply' = [reply EXCEPT ![Head(queue).from] = value]
      BY <1>3 DEF ServeReplace, Serves, Commit, Rollback
    <2> QED
      BY <1>1, <2>1, AnswerKeepsCalls
  <1>4. CASE ServeUpdate
    <2>1. /\ queue # <<>> /\ Head(queue).op # "shutdown" /\ queue' = Tail(queue)
          /\ \E value : reply' = [reply EXCEPT ![Head(queue).from] = value]
      BY <1>4 DEF ServeUpdate, Serves, Commit, Rollback
    <2> QED
      BY <1>1, <2>1, AnswerKeepsCalls
  <1>5. CASE ServeSnapshot
    <2>1. /\ queue # <<>> /\ Head(queue).op # "shutdown" /\ queue' = Tail(queue)
          /\ \E value : reply' = [reply EXCEPT ![Head(queue).from] = value]
      BY <1>5 DEF ServeSnapshot, Serves, Rollback
    <2> QED
      BY <1>1, <2>1, AnswerKeepsCalls
  <1>6. CASE ServeShutdown
    <2>1. Calls' = {}
      BY <1>6 DEF ServeShutdown, Calls
    <2>2. ASSUME NEW c \in Clients, reply'[c] # NoReply PROVE c \in Waiters
      <3>1. CASE \E i \in 2..Len(queue) : queue[i].op # "shutdown" /\ queue[i].from = c
        <4>1. PICK i \in 2..Len(queue) : queue[i].op # "shutdown" /\ queue[i].from = c
          BY <3>1
        <4>2. i \in Calls
          BY <4>1 DEF Calls, TypeOK, StoreTypeOK
        <4> QED
          BY <4>1, <4>2 DEF CallsInStep
      <3>2. CASE ~ \E i \in 2..Len(queue) : queue[i].op # "shutdown" /\ queue[i].from = c
        BY <1>6, <2>2, <3>2 DEF ServeShutdown, CallsInStep
      <3> QED
        BY <3>1, <3>2
    <2> QED
      BY <1>1, <2>1, <2>2 DEF CallsInStep
  <1> QED
    BY <1>2, <1>3, <1>4, <1>5, <1>6 DEF StoreStep, Serve

\* The polling task makes one call per round.
LEMMA PollCalls ==
    ASSUME TypeOK, CallsInStep, PollStep
    PROVE  CallsInStep'
  <1>1. CASE PollTick \/ RoundDone \/ Drained
    <2>1. Waiters \subseteq Waiters'
      BY <1>1, ClientsAssumption DEF PollTick, RoundDone, Drained, Waiters, taskVars, uiVars
    <2> QED
      BY <1>1, <2>1, IdleKeepsCalls DEF PollTick, RoundDone, Drained, storeVars
  <1>2. CASE FetchRound
    <2>1. Poll \notin Waiters /\ Waiters \subseteq Waiters'
      BY <1>2, ClientsAssumption DEF FetchRound, Waiters, taskVars, uiVars
    <2>2. CASE UNCHANGED <<round, queue, reply>>
      BY <2>1, <2>2, IdleKeepsCalls
    <2>3. ASSUME NEW answers \in [Urls -> SUBSET IPs], pollPc' = "write",
                 Send(Poll, [op |-> "replace", from |-> Poll, ips |-> UNION {answers[u] : u \in Urls}])
          PROVE  CallsInStep'
      <3>1. [op |-> "replace", from |-> Poll, ips |-> UNION {answers[u] : u \in Urls}] \in Commands
        BY ClientCases DEF Commands
      <3>2. Poll \in Waiters'
        BY <2>3, ClientCases DEF Waiters
      <3> QED
        BY <2>1, <2>3, <3>1, <3>2, SendKeepsCalls, ClientCases
    <2> QED
      BY <1>2, <2>2, <2>3 DEF FetchRound
  <1>3. CASE SnapshotWritten
    <2>1. Waiters \ {Poll} \subseteq Waiters'
      BY <1>3 DEF SnapshotWritten, Waiters, taskVars, uiVars
    <2> QED
      BY <1>3, <2>1, ConsumeKeepsCalls, ClientCases DEF SnapshotWritten
  <1>4. ASSUME NEW ip \in IPs, StartEnrichment(ip) PROVE CallsInStep'
    <2>1. Waiters \subseteq Waiters'
      BY <1>4 DEF StartEnrichment, Waiters, taskVars, uiVars, TypeOK
    <2> QED
      BY <1>4, <2>1, IdleKeepsCalls DEF StartEnrichment, storeVars
  <1> QED
    BY <1>1, <1>2, <1>3, <1>4 DEF PollStep

\* An enrichment task makes one call.
LEMMA TaskCalls ==
    ASSUME TypeOK, TasksHaveIps, CallsInStep, NEW t \in Slots, TaskStep(t)
    PROVE  CallsInStep'
  <1>1. CASE Lookup(t)
    <2>1. task[t] \in IPs
      BY <1>1 DEF Lookup, TypeOK, TasksHaveIps
    <2>2. PICK country \in Countries \cup {Unknown, Failed} :
             Send(t, [op |-> "update", from |-> t, ip |-> task[t], country |-> country])
      BY <1>1 DEF Lookup
    <2>3. [op |-> "update", from |-> t, ip |-> task[t], country |-> country] \in Commands
      BY <2>1, ClientCases DEF Commands
    <2>4. t \notin Waiters /\ Waiters \cup {t} \subseteq Waiters'
      BY <1>1, ClientsAssumption DEF Lookup, Waiters, TypeOK, pollVars, uiVars
    <2> QED
      BY <2>2, <2>3, <2>4, SendKeepsCalls, ClientCases
  <1>2. CASE EnrichmentEnds(t)
    <2>1. Waiters \ {t} \subseteq Waiters'
      BY <1>2 DEF EnrichmentEnds, Waiters, TypeOK, pollVars, uiVars
    <2> QED
      BY <1>2, <2>1, ConsumeKeepsCalls, ClientCases DEF EnrichmentEnds
  <1> QED
    BY <1>1, <1>2 DEF TaskStep

\* The UI thread makes one call per read, none while the store is closed.
LEMMA UiCalls ==
    ASSUME TypeOK, CallsInStep, LifeCycle, UiStep
    PROVE  CallsInStep'
  <1>1. CASE LoadAtStartup \/ RecvWake \/ RetryTick
    <2>1. Send(Ui, [op |-> "snapshot", from |-> Ui])
      BY <1>1 DEF LoadAtStartup, RecvWake, RetryTick, StartRead
    <2>2. [op |-> "snapshot", from |-> Ui] \in Commands
      BY ClientCases DEF Commands
    <2>3. Ui \notin Waiters /\ Waiters \cup {Ui} \subseteq Waiters'
      BY <1>1, ClientsAssumption
      DEF LoadAtStartup, RecvWake, RetryTick, StartRead, Waiters, pollVars, taskVars
    <2> QED
      BY <2>1, <2>2, <2>3, SendKeepsCalls, ClientCases
  <1>2. CASE ReadEnds
    <2>1. Waiters \ {Ui} \subseteq Waiters'
      BY <1>2 DEF ReadEnds, Waiters, LifeCycle, taskVars
    <2> QED
      BY <1>2, <2>1, ConsumeKeepsCalls, ClientCases DEF ReadEnds
  <1>3. CASE LeaveLoop \/ JoinWorker
    <2>1. Waiters \subseteq Waiters'
      BY <1>3 DEF LeaveLoop, JoinWorker, Waiters, pollVars, taskVars
    <2> QED
      BY <1>3, <2>1, IdleKeepsCalls DEF LeaveLoop, JoinWorker, storeVars
  <1>4. CASE JoinCollector
    <2>1. Waiters \subseteq Waiters'
      BY <1>4 DEF JoinCollector, Waiters, pollVars, taskVars
    <2>2. Calls' = Calls /\ \A i \in Calls : queue'[i] = queue[i]
      <3>1. [op |-> "shutdown"] \in Commands /\ queue \in Seq(Commands)
        BY DEF Commands, TypeOK, StoreTypeOK
      <3>2. CASE queue' = queue
        BY <3>2 DEF Calls
      <3>3. CASE queue' = Append(queue, [op |-> "shutdown"])
        <4>1. /\ Len(queue) \in Nat /\ Len(queue') = Len(queue) + 1
              /\ queue'[Len(queue) + 1].op = "shutdown"
              /\ \A i \in 1..Len(queue) : queue'[i] = queue[i]
              /\ \A i \in 1..Len(queue') : i \in 1..Len(queue) \/ i = Len(queue) + 1
          BY <3>1, <3>3, AppendFacts
        <4>2. \A i \in 1..Len(queue) : i \in 1..Len(queue')
          BY <4>1
        <4> QED
          BY <4>1, <4>2 DEF Calls
      <3> QED
        BY <1>4, <3>2, <3>3 DEF JoinCollector, SendShutdown
    <2> QED
      BY <1>4, <2>1, <2>2 DEF JoinCollector, CallsInStep
  <1> QED
    BY <1>1, <1>2, <1>3, <1>4 DEF UiStep

\* A restart leaves no call outstanding.
LEMMA CrashCalls == Crash => CallsInStep'
  BY DEF Crash, CallsInStep, Calls

-----------------------------------------------------------------------------
(* Every step keeps CommandsOwned.                                         *)

\* While Poll has no call outstanding, no snapshot is on its way.
LEMMA NoReplaceQueued ==
    ASSUME CallsInStep, CommandsOwned, Poll \notin Waiters \/ reply[Poll] # NoReply
    PROVE  \A i \in 1..Len(queue) : queue[i].op # "replace"
  BY DEF CallsInStep, CommandsOwned, Owned, Calls

\* A call of its owner.
LEMMA SendOwned ==
    ASSUME TypeOK, CommandsOwned, NEW c \in Clients, NEW cmd \in Commands, Send(c, cmd),
           cmd \in Owned', \A i \in 1..Len(queue) : queue[i] \in Owned'
    PROVE  CommandsOwned'
  <1>1. queue \in Seq(Commands) /\ reply \in [Clients -> Replies]
    BY DEF TypeOK, StoreTypeOK
  <1>2. CASE worker = "running"
    <2>1. queue' = Append(queue, cmd) /\ reply' = reply
      BY <1>2 DEF Send
    <2>2. /\ \A i \in 1..Len(queue) : queue'[i] = queue[i]
          /\ queue'[Len(queue) + 1] = cmd
          /\ \A i \in 1..Len(queue') : i \in 1..Len(queue) \/ i = Len(queue) + 1
      BY <1>1, <2>1, AppendFacts
    <2> QED
      BY <2>1, <2>2 DEF CommandsOwned
  <1>3. CASE worker # "running"
    <2>1. queue' = queue /\ reply' = [reply EXCEPT ![c] = Failed]
      BY <1>3 DEF Send
    <2> QED
      BY <1>1, <2>1, ClientCases DEF CommandsOwned
  <1> QED
    BY <1>2, <1>3

\* A reply that is taken.
LEMMA ConsumeOwned ==
    ASSUME TypeOK, CommandsOwned, NEW c \in Clients, Consume(c), UNCHANGED queue,
           \A i \in 1..Len(queue) : queue[i] \in Owned'
    PROVE  CommandsOwned'
  <1>1. reply' = [reply EXCEPT ![c] = NoReply] /\ reply \in [Clients -> Replies]
    BY DEF Consume, TypeOK, StoreTypeOK
  <1> QED
    BY <1>1, ClientCases DEF CommandsOwned

\* The worker replies with what was asked for, or fails.
LEMMA StoreOwned ==
    ASSUME TypeOK, CommandsOwned, StoreStep
    PROVE  CommandsOwned'
  <1>1. Owned' = Owned /\ queue \in Seq(Commands) /\ reply \in [Clients -> Replies]
    BY DEF StoreStep, Owned, pollVars, TypeOK, StoreTypeOK
  <1>2. CASE DiskFault \/ \E ip \in IPs : CacheAges(ip)
    BY <1>1, <1>2 DEF CommandsOwned, DiskFault, CacheAges
  <1>3. ASSUME queue # <<>>
        PROVE  /\ Head(queue) \in Owned
               /\ queue' = Tail(queue) => \A i \in 1..Len(queue') : queue'[i] \in Owned'
    BY <1>1, <1>3, TailFacts DEF CommandsOwned
  <1>4. CASE ServeReplace
    <2>1. /\ queue # <<>> /\ queue' = Tail(queue)
          /\ Head(queue).op = "replace"
          /\ \/ reply' = [reply EXCEPT ![Head(queue).from] = Failed]
             \/ reply' = [reply EXCEPT ![Head(queue).from] =
                            [needs |-> {ip \in Head(queue).ips : NeedsEnrichment(ip)}]]
      BY <1>4 DEF ServeReplace, Serves, Commit, Rollback
    <2>2. Head(queue).from = Poll /\ Head(queue).ips \subseteq IPs
      BY <1>3, <2>1, CommandKinds DEF Owned
    <2>3. [needs |-> {ip \in Head(queue).ips : NeedsEnrichment(ip)}] \in [needs : SUBSET IPs]
      BY <2>2
    <2> QED
      BY <1>1, <1>3, <2>1, <2>2, <2>3, ClientsAssumption, ClientCases DEF CommandsOwned
  <1>5. CASE ServeUpdate
    <2>1. /\ queue # <<>> /\ queue' = Tail(queue)
          /\ Head(queue).op = "update"
          /\ \E value : reply' = [reply EXCEPT ![Head(queue).from] = value]
      BY <1>5 DEF ServeUpdate, Serves, Commit, Rollback
    <2>2. Head(queue).from \in Slots
      BY <1>3, <2>1 DEF Owned
    <2> QED
      BY <1>1, <1>3, <2>1, <2>2, ClientsAssumption DEF CommandsOwned
  <1>6. CASE ServeSnapshot
    <2>1. /\ queue # <<>> /\ queue' = Tail(queue)
          /\ Head(queue).op = "snapshot"
          /\ \/ reply' = [reply EXCEPT ![Head(queue).from] = Failed]
             \/ reply' = [reply EXCEPT ![Head(queue).from] = [view |-> GeoView]]
      BY <1>6 DEF ServeSnapshot, Serves, Rollback
    <2>2. Head(queue).from = Ui
      BY <1>3, <2>1 DEF Owned
    <2> QED
      BY <1>1, <1>3, <2>1, <2>2, ViewType, ClientsAssumption, ClientCases DEF CommandsOwned
  <1>7. CASE ServeShutdown
    <2>1. queue' = <<>> /\ \A c \in Clients : reply'[c] \in {Failed, reply[c]}
      BY <1>7 DEF ServeShutdown
    <2> QED
      BY <2>1, ClientCases DEF CommandsOwned
  <1> QED
    BY <1>2, <1>4, <1>5, <1>6, <1>7 DEF StoreStep, Serve

\* The round changes only while no snapshot is on its way.
LEMMA PollOwned ==
    ASSUME TypeOK, CallsInStep, CommandsOwned, PollStep
    PROVE  CommandsOwned'
  <1>1. CASE PollTick \/ RoundDone \/ Drained \/ \E ip \in IPs : StartEnrichment(ip)
    BY <1>1 DEF PollTick, RoundDone, Drained, StartEnrichment, storeVars, CommandsOwned, Owned
  <1>2. CASE FetchRound
    <2>1. Poll \notin Waiters
      BY <1>2, ClientsAssumption DEF FetchRound, Waiters
    <2>2. \A i \in 1..Len(queue) : queue[i] \in Owned'
      BY <2>1, NoReplaceQueued DEF CommandsOwned, Owned
    <2>3. CASE UNCHANGED <<round, queue, reply>>
      BY <2>3, <2>2 DEF CommandsOwned
    <2>4. ASSUME NEW answers \in [Urls -> SUBSET IPs], round' = answers,
                 Send(Poll, [op |-> "replace", from |-> Poll, ips |-> UNION {answers[u] : u \in Urls}])
          PROVE  CommandsOwned'
      <3> DEFINE cmd == [op |-> "replace", from |-> Poll, ips |-> UNION {answers[u] : u \in Urls}]
      <3>1. cmd \in Commands
        BY ClientCases DEF Commands
      <3>2. \A u \in Urls : answers[u] # Failed
        BY IpAssumption
      <3>3. cmd \in Owned'
        BY <2>4, <3>1, <3>2 DEF Owned
      <3> QED
        BY <2>2, <2>4, <3>1, <3>3, SendOwned, ClientCases
    <2> QED
      BY <1>2, <2>3, <2>4 DEF FetchRound
  <1>3. CASE SnapshotWritten
    <2>1. \A i \in 1..Len(queue) : queue[i] \in Owned'
      BY <1>3, NoReplaceQueued DEF SnapshotWritten, CommandsOwned, Owned
    <2> QED
      BY <1>3, <2>1, ConsumeOwned, ClientCases DEF SnapshotWritten
  <1> QED
    BY <1>1, <1>2, <1>3 DEF PollStep

\* Updates come from enrichment tasks.
LEMMA TaskOwned ==
    ASSUME TypeOK, TasksHaveIps, CommandsOwned, NEW t \in Slots, TaskStep(t)
    PROVE  CommandsOwned'
  <1>1. \A i \in 1..Len(queue) : queue[i] \in Owned'
    BY DEF TaskStep, Lookup, EnrichmentEnds, pollVars, CommandsOwned, Owned
  <1>2. CASE Lookup(t)
    <2>1. task[t] \in IPs
      BY <1>2 DEF Lookup, TypeOK, TasksHaveIps
    <2>2. PICK country \in Countries \cup {Unknown, Failed} :
             Send(t, [op |-> "update", from |-> t, ip |-> task[t], country |-> country])
      BY <1>2 DEF Lookup
    <2>3. [op |-> "update", from |-> t, ip |-> task[t], country |-> country] \in Commands
      BY <2>1, ClientCases DEF Commands
    <2>4. [op |-> "update", from |-> t, ip |-> task[t], country |-> country] \in Owned'
      BY <2>3 DEF Owned
    <2> QED
      BY <1>1, <2>2, <2>3, <2>4, SendOwned, ClientCases
  <1>3. CASE EnrichmentEnds(t)
    BY <1>1, <1>3, ConsumeOwned, ClientCases DEF EnrichmentEnds
  <1> QED
    BY <1>2, <1>3 DEF TaskStep

\* Reads come from the UI thread.
LEMMA UiOwned ==
    ASSUME TypeOK, CommandsOwned, UiStep
    PROVE  CommandsOwned'
  <1>1. Owned' = Owned
    BY DEF UiStep, LoadAtStartup, RecvWake, RetryTick, StartRead, ReadEnds, LeaveLoop, JoinCollector,
           JoinWorker, pollVars, Owned
  <1>2. \A i \in 1..Len(queue) : queue[i] \in Owned'
    BY <1>1 DEF CommandsOwned
  <1>3. CASE LoadAtStartup \/ RecvWake \/ RetryTick
    <2>1. Send(Ui, [op |-> "snapshot", from |-> Ui])
      BY <1>3 DEF LoadAtStartup, RecvWake, RetryTick, StartRead
    <2>2. [op |-> "snapshot", from |-> Ui] \in Commands
      BY ClientCases DEF Commands
    <2>3. [op |-> "snapshot", from |-> Ui] \in Owned'
      BY <2>2 DEF Owned
    <2> QED
      BY <1>2, <2>1, <2>2, <2>3, SendOwned, ClientCases
  <1>4. CASE ReadEnds
    BY <1>2, <1>4, ConsumeOwned, ClientCases DEF ReadEnds
  <1>5. CASE LeaveLoop \/ JoinWorker
    BY <1>2, <1>5 DEF LeaveLoop, JoinWorker, storeVars, CommandsOwned
  <1>6. CASE JoinCollector
    <2>1. [op |-> "shutdown"] \in Commands
      BY DEF Commands
    <2>2. [op |-> "shutdown"] \in Owned
      BY <2>1 DEF Owned
    <2>3. CASE queue' = queue
      BY <1>2, <1>6, <2>3 DEF JoinCollector, CommandsOwned
    <2>4. CASE queue' = Append(queue, [op |-> "shutdown"])
      <3>1. queue \in Seq(Commands)
        BY DEF TypeOK, StoreTypeOK
      <3>2. /\ \A i \in 1..Len(queue) : queue'[i] = queue[i]
            /\ queue'[Len(queue) + 1] = [op |-> "shutdown"]
            /\ \A i \in 1..Len(queue') : i \in 1..Len(queue) \/ i = Len(queue) + 1
        BY <2>1, <2>4, <3>1, AppendFacts
      <3> QED
        BY <1>1, <1>2, <1>6, <2>2, <3>2 DEF JoinCollector, CommandsOwned
    <2> QED
      BY <1>6, <2>3, <2>4 DEF JoinCollector, SendShutdown
  <1> QED
    BY <1>3, <1>4, <1>5, <1>6 DEF UiStep

\* A restart leaves no command behind.
LEMMA CrashOwned == TypeOK /\ Crash => CommandsOwned'
  BY ClientCases DEF Crash, CommandsOwned

-----------------------------------------------------------------------------
(* Every step keeps the order of shutdown and the slots.                   *)

\* The collector starts after the first read and is joined before the store closes.
LEMMA LifeCycleKept ==
    ASSUME TypeOK, LifeCycle, Next
    PROVE  LifeCycle'
  <1>1. CASE StoreStep
    BY <1>1 DEF StoreStep, LifeCycle, pollVars, taskVars, uiVars
  <1>2. CASE PollStep
    BY <1>2 DEF PollStep, PollTick, FetchRound, SnapshotWritten, RoundDone, Drained, StartEnrichment,
                LifeCycle, taskVars, uiVars
  <1>3. ASSUME NEW t \in Slots, TaskStep(t) PROVE LifeCycle'
    BY <1>3 DEF TaskStep, Lookup, EnrichmentEnds, LifeCycle, pollVars, uiVars
  <1>4. CASE LoadAtStartup \/ RecvWake \/ RetryTick
    BY <1>4 DEF LoadAtStartup, RecvWake, RetryTick, StartRead, LifeCycle, pollVars, taskVars
  <1>5. CASE ReadEnds
    BY <1>5 DEF ReadEnds, LifeCycle, taskVars
  <1>6. CASE LeaveLoop \/ JoinCollector \/ JoinWorker
    BY <1>6 DEF LeaveLoop, JoinCollector, JoinWorker, LifeCycle, pollVars, taskVars
  <1>7. CASE Crash
    BY <1>7 DEF Crash, LifeCycle
  <1> QED
    BY <1>1, <1>2, <1>3, <1>4, <1>5, <1>6, <1>7 DEF Next

\* A task starts with an IP that is not pending and removes it when it ends.
LEMMA SlotsKept ==
    ASSUME TypeOK, TasksHaveIps, PendingExact, Next
    PROVE  TasksHaveIps' /\ PendingExact'
  <1>1. CASE UNCHANGED <<pending, taskVars>>
    BY <1>1 DEF TasksHaveIps, PendingExact, taskVars
  <1>2. ASSUME NEW ip \in IPs, StartEnrichment(ip) PROVE TasksHaveIps' /\ PendingExact'
    <2>1. CASE UNCHANGED <<pending, taskVars>>
      BY <1>1, <2>1
    <2>2. ASSUME NEW t \in Slots, ip \notin pending, pending' = pending \cup {ip}, taskPc[t] = "free",
                 task' = [task EXCEPT ![t] = ip], taskPc' = [taskPc EXCEPT ![t] = "lookup"]
          PROVE  TasksHaveIps' /\ PendingExact'
      BY <2>2, IpAssumption DEF TypeOK, TasksHaveIps, PendingExact
    <2> QED
      BY <1>2, <2>1, <2>2 DEF StartEnrichment
  <1>3. ASSUME NEW t \in Slots, Lookup(t) PROVE TasksHaveIps' /\ PendingExact'
    BY <1>3 DEF Lookup, TypeOK, TasksHaveIps, PendingExact
  <1>4. ASSUME NEW t \in Slots, EnrichmentEnds(t) PROVE TasksHaveIps' /\ PendingExact'
    BY <1>4, IpAssumption DEF EnrichmentEnds, TypeOK, TasksHaveIps, PendingExact
  <1>5. CASE Crash
    BY <1>5 DEF Crash, TasksHaveIps, PendingExact
  <1> QED
    BY <1>1, <1>2, <1>3, <1>4, <1>5
    DEF Next, StoreStep, PollStep, TaskStep, PollTick, FetchRound, SnapshotWritten, RoundDone, Drained,
        LoadAtStartup, RecvWake, RetryTick, StartRead, ReadEnds, LeaveLoop, JoinCollector, JoinWorker

-----------------------------------------------------------------------------
(* Every step keeps the panel fresh.                                       *)

\* A row that ages, or that nobody writes, is counted as before.
LEMMA ViewKept ==
    ASSUME UNCHANGED peers, \A ip \in peers : CountryOf(ip)' = CountryOf(ip)
    PROVE  GeoView' = GeoView
  <1>1. \A c \in Countries \cup {Unknown} :
           {ip \in peers' : CountryOf(ip)' = c} = {ip \in peers : CountryOf(ip) = c}
    OBVIOUS
  <1> QED
    BY <1>1 DEF GeoView

\* The view depends on the two tables only.
LEMMA ViewOfDisk ==
    ASSUME UNCHANGED diskVars
    PROVE  GeoView' = GeoView
  BY ViewKept DEF diskVars, CountryOf

\* A row that ages keeps its country.
LEMMA ViewAges ==
    ASSUME TypeOK, NEW ip \in IPs, CacheAges(ip)
    PROVE  GeoView' = GeoView
  <1>1. cache \in [IPs -> Rows \cup {NoRow}] /\ peers \subseteq IPs /\ cache[ip] \in Rows
    BY DEF CacheAges, TypeOK, StoreTypeOK
  <1>2. /\ cache'[ip] \in Rows /\ cache'[ip].country = cache[ip].country
        /\ \A other \in IPs \ {ip} : cache'[other] = cache[other]
    BY <1>1 DEF CacheAges, Rows, Ages
  <1>3. \A other \in peers : CountryOf(other)' = CountryOf(other)
    BY <1>1, <1>2, StoreAssumption DEF CountryOf, Rows, Ages
  <1> QED
    BY <1>3, ViewKept DEF CacheAges

\* A commit that changes the tables leaves a token behind.
LEMMA StoreFresh ==
    ASSUME TypeOK, CommandsOwned, PanelFresh, StoreStep
    PROVE  PanelFresh'
  <1>1. /\ queue \in Seq(Commands) /\ reply \in [Clients -> Replies]
        /\ UNCHANGED <<uiPc, arm, view, retry, kind>>
    BY DEF StoreStep, uiVars, TypeOK, StoreTypeOK
  <1>2. CASE DiskFault
    BY <1>1, <1>2, ViewOfDisk DEF DiskFault, PanelFresh
  <1>3. ASSUME NEW ip \in IPs, CacheAges(ip) PROVE PanelFresh'
    <2>1. GeoView' = GeoView
      BY <1>3, ViewAges
    <2> QED
      BY <1>1, <1>3, <2>1 DEF CacheAges, PanelFresh
  <1>4. ASSUME queue # <<>> PROVE Head(queue) \in Owned
    BY <1>1, <1>4, TailFacts DEF CommandsOwned
  <1>5. CASE ServeReplace \/ ServeUpdate
    <2>1. CASE wake' = TRUE
      BY <1>1, <2>1 DEF PanelFresh
    <2>2. CASE Rollback(Head(queue))
      <3>1. queue # <<>> /\ Head(queue).op \in {"replace", "update"}
        BY <1>5 DEF ServeReplace, ServeUpdate, Serves
      <3>2. Head(queue).from # Ui
        BY <1>4, <3>1, ClientsAssumption DEF Owned
      <3>3. reply'[Ui] = reply[Ui]
        BY <1>1, <2>2, <3>2, ClientCases DEF Rollback
      <3>4. GeoView' = GeoView /\ wake' = wake
        BY <2>2, ViewOfDisk DEF Rollback
      <3> QED
        BY <1>1, <3>3, <3>4 DEF PanelFresh
    <2> QED
      BY <1>5, <2>1, <2>2 DEF ServeReplace, ServeUpdate, Commit
  <1>6. CASE ServeSnapshot
    <2>1. queue # <<>> /\ Head(queue).op = "snapshot"
      BY <1>6 DEF ServeSnapshot, Serves
    <2>2. Head(queue).from = Ui
      BY <1>4, <2>1 DEF Owned
    <2>3. UNCHANGED <<diskVars, wake>>
      BY <1>6 DEF ServeSnapshot, Rollback
    <2>4. GeoView' = GeoView
      BY <2>3, ViewOfDisk
    <2>5. reply'[Ui] = Failed \/ reply'[Ui] = [view |-> GeoView]
      BY <1>1, <1>6, <2>2, ClientCases DEF ServeSnapshot, Rollback
    <2> QED
      BY <1>1, <2>3, <2>4, <2>5 DEF PanelFresh
  <1>7. CASE ServeShutdown
    <2>1. UNCHANGED <<diskVars, wake>> /\ reply'[Ui] \in {Failed, reply[Ui]}
      BY <1>7, ClientCases DEF ServeShutdown
    <2>2. GeoView' = GeoView
      BY <2>1, ViewOfDisk
    <2> QED
      BY <1>1, <2>1, <2>2 DEF PanelFresh
  <1> QED
    BY <1>2, <1>3, <1>5, <1>6, <1>7 DEF StoreStep, Serve

\* The other tasks leave the panel, its reply and the database alone.
LEMMA TasksFresh ==
    ASSUME TypeOK, PanelFresh, PollStep \/ \E t \in Slots : TaskStep(t)
    PROVE  PanelFresh'
  <1>1. UNCHANGED <<diskVars, wake, uiVars>>
    BY DEF PollStep, TaskStep, PollTick, FetchRound, SnapshotWritten, RoundDone, Drained, StartEnrichment,
           Lookup, EnrichmentEnds, storeVars, diskVars
  <1>2. reply'[Ui] = reply[Ui]
    <2>1. reply \in [Clients -> Replies]
      BY DEF TypeOK, StoreTypeOK
    <2>2. UNCHANGED reply \/ \E c \in Clients \ {Ui}, value \in {Failed, NoReply} :
                                reply' = [reply EXCEPT ![c] = value]
      <3>1. Poll \in Clients \ {Ui} /\ Slots \subseteq Clients \ {Ui}
        BY ClientsAssumption
      <3>2. CASE PollStep
        BY <3>1, <3>2 DEF PollStep, PollTick, FetchRound, SnapshotWritten, RoundDone, Drained,
                          StartEnrichment, Send, Consume, storeVars
      <3>3. ASSUME NEW t \in Slots, TaskStep(t)
            PROVE  UNCHANGED reply \/ \E value \in {Failed, NoReply} : reply' = [reply EXCEPT ![t] = value]
        BY <3>3 DEF TaskStep, Lookup, EnrichmentEnds, Send, Consume
      <3> QED
        BY <3>1, <3>2, <3>3
    <2> QED
      BY <2>1, <2>2, ClientCases
  <1>3. GeoView' = GeoView
    BY <1>1, ViewOfDisk
  <1> QED
    BY <1>1, <1>2, <1>3 DEF PanelFresh, uiVars

\* A read that succeeds shows what the reply said, one that fails arms the retry.
LEMMA UiFresh ==
    ASSUME TypeOK, CallsInStep, PanelFresh, UiStep
    PROVE  PanelFresh'
  <1>1. GeoView' = GeoView
    <2>1. UNCHANGED diskVars
      BY DEF UiStep, LoadAtStartup, RecvWake, RetryTick, StartRead, ReadEnds, LeaveLoop,
             JoinCollector, JoinWorker, storeVars, diskVars
    <2> QED
      BY <2>1, ViewOfDisk
  <1>2. CASE LoadAtStartup \/ RecvWake \/ RetryTick
    <2>1. uiPc' = "read" /\ Send(Ui, [op |-> "snapshot", from |-> Ui]) /\ uiPc # "read"
      BY <1>2 DEF LoadAtStartup, RecvWake, RetryTick, StartRead
    <2>2. reply[Ui] = NoReply
      BY <2>1, ClientCases, ClientsAssumption DEF CallsInStep, Waiters
    <2>3. reply'[Ui] \in {NoReply, Failed}
      BY <2>1, <2>2, ClientCases DEF Send, TypeOK, StoreTypeOK
    <2> QED
      BY <2>1, <2>3 DEF PanelFresh
  <1>3. CASE ReadEnds
    BY <1>1, <1>3 DEF ReadEnds, PanelFresh
  <1>4. CASE LeaveLoop \/ JoinCollector \/ JoinWorker
    BY <1>4 DEF LeaveLoop, JoinCollector, JoinWorker, PanelFresh
  <1> QED
    BY <1>2, <1>3, <1>4 DEF UiStep

-----------------------------------------------------------------------------
\* The process starts idle, on an empty database.
LEMMA InitIInv == Init => IInv
  <1> SUFFICES ASSUME Init PROVE IInv
    OBVIOUS
  <1>1. TypeOK
    <2>1. EmptyView \in Views /\ NoRound \in [Urls -> Answers]
      BY EmptyViewType DEF NoRound, Answers
    <2>2. [c \in Clients |-> NoReply] \in [Clients -> Replies] /\ <<>> \in Seq(Commands)
      BY DEF Replies
    <2> QED
      BY <2>1, <2>2, KindsAssumption DEF Init, StoreInit, TypeOK, StoreTypeOK
  <1>2. CallsInStep
    BY DEF Init, StoreInit, CallsInStep, Calls
  <1>3. CommandsOwned
    BY ClientCases DEF Init, StoreInit, CommandsOwned
  <1>4. LifeCycle /\ TasksHaveIps /\ PendingExact /\ PanelFresh
    BY DEF Init, LifeCycle, TasksHaveIps, PendingExact, PanelFresh
  <1> QED
    BY <1>1, <1>2, <1>3, <1>4 DEF IInv

\* Every step keeps the invariant.
LEMMA StepIInv == IInv /\ [Next]_vars => IInv'
  <1> SUFFICES ASSUME IInv, [Next]_vars PROVE IInv'
    OBVIOUS
  <1>1. CASE UNCHANGED vars
    <2>1. GeoView' = GeoView /\ Owned' = Owned /\ Calls' = Calls /\ Waiters' = Waiters
      BY <1>1, ViewOfDisk
      DEF vars, storeVars, pollVars, taskVars, uiVars, diskVars, Owned, Calls, Waiters
    <2> QED
      BY <1>1, <2>1 DEF IInv, TypeOK, StoreTypeOK, CallsInStep, CommandsOwned, LifeCycle, TasksHaveIps,
                        PendingExact, PanelFresh, vars, storeVars, pollVars, taskVars, uiVars
  <1>2. CASE Next
    <2>1. LifeCycle' /\ TasksHaveIps' /\ PendingExact'
      BY <1>2, LifeCycleKept, SlotsKept DEF IInv
    <2>2. CASE StoreStep
      <3>1. TypeOK'
        BY <2>2, ServeTypes, EnvironmentTypes DEF IInv, StoreStep, TypeOK, pollVars, taskVars, uiVars
      <3> QED
        BY <2>1, <2>2, <3>1, StoreCalls, StoreOwned, StoreFresh DEF IInv
    <2>3. CASE PollStep
      BY <2>1, <2>3, PollTypes, PollCalls, PollOwned, TasksFresh DEF IInv
    <2>4. ASSUME NEW t \in Slots, TaskStep(t) PROVE IInv'
      BY <2>1, <2>4, TaskTypes, TaskCalls, TaskOwned, TasksFresh DEF IInv
    <2>5. CASE UiStep
      BY <2>1, <2>5, UiTypes, UiCalls, UiOwned, UiFresh DEF IInv
    <2>6. CASE Crash
      <3>1. PanelFresh'
        BY <2>6 DEF Crash, PanelFresh
      <3> QED
        BY <2>1, <2>6, <3>1, CrashTypes, CrashCalls, CrashOwned DEF IInv
    <2> QED
      BY <1>2, <2>2, <2>3, <2>4, <2>5, <2>6 DEF Next, UiStep
  <1> QED
    BY <1>1, <1>2

\* It holds in every reachable state.
LEMMA Invariance == Spec => []IInv
  BY InitIInv, StepIInv, PTL DEF Spec, Safety

-----------------------------------------------------------------------------
\* The store, its clients and the panel keep their types.
THEOREM TypeCorrect == Spec => []TypeOK
  <1>1. IInv => TypeOK
    BY DEF IInv
  <1> QED
    BY <1>1, Invariance, PTL

\* An IP is pending exactly while one task enriches it, however slow lookups
\* are and whatever the store replies (collect_peer_geo).
THEOREM NoDoubleEnrichment == Spec => []PendingExact
  <1>1. IInv => PendingExact
    BY DEF IInv
  <1> QED
    BY <1>1, Invariance, PTL

\* The panel shows the database, unless a token or a retry will make it read
\* again (worker_loop, refresh_snapshot, retry_geo_snapshot).
THEOREM PanelShowsDatabase == Spec => []PanelCurrent
  <1>1. IInv => PanelCurrent
    BY DEF IInv, PanelFresh, PanelCurrent
  <1> QED
    BY <1>1, Invariance, PTL

\* When main closes the store, all its clients have gone, and no write waits
\* behind Shutdown (main, collect_peer_geo).
THEOREM NoWriteLost == Spec => []WritesLandBeforeShutdown
  <1>1. IInv => WritesLandBeforeShutdown
    <2> SUFFICES ASSUME IInv, uiPc \in {"close", "closed"}
                 PROVE  /\ \A i \in 1..Len(queue) : queue[i].op = "shutdown"
                        /\ \A t \in Slots : taskPc[t] = "free"
      BY DEF WritesLandBeforeShutdown
    <2>1. pollPc = "done" /\ \A t \in Slots : taskPc[t] = "free"
      BY DEF IInv, LifeCycle
    <2>2. Waiters = {}
      BY <2>1 DEF Waiters
    <2> QED
      BY <2>1, <2>2 DEF IInv, CallsInStep, Calls
  <1> QED
    BY <1>1, Invariance, PTL

\* Only a round that every node answered replaces the Peer Snapshot
\* (merge_node_results, replace_current_peers).
THEOREM OnlyCompleteSnapshots == Spec => SnapshotsComplete
  <1>1. IInv /\ [Next]_vars =>
          (peers' # peers => /\ \A u \in Urls : round[u] # Failed
                             /\ peers' = UNION {round[u] : u \in Urls})
    <2> SUFFICES ASSUME IInv, [Next]_vars, peers' # peers
                 PROVE  /\ \A u \in Urls : round[u] # Failed
                        /\ peers' = UNION {round[u] : u \in Urls}
      OBVIOUS
    <2>1. ServeReplace /\ peers' = Head(queue).ips
      BY DEF Next, StoreStep, Serve, ServeReplace, ServeUpdate, ServeSnapshot, ServeShutdown, Rollback,
             DiskFault, CacheAges, PollStep, TaskStep, PollTick, FetchRound, SnapshotWritten, RoundDone,
             Drained, StartEnrichment, Lookup, EnrichmentEnds, LoadAtStartup, RecvWake, RetryTick,
             StartRead, ReadEnds, LeaveLoop, JoinCollector, JoinWorker, Crash, vars, storeVars, diskVars
    <2>2. queue # <<>> /\ Head(queue).op = "replace"
      BY <2>1 DEF ServeReplace, Serves
    <2>3. Head(queue) \in Owned
      BY <2>2, TailFacts DEF IInv, CommandsOwned, TypeOK, StoreTypeOK
    <2> QED
      BY <2>1, <2>2, <2>3 DEF Owned
  <1> QED
    BY <1>1, Invariance, PTL DEF Spec, Safety, SnapshotsComplete

\* What a successful lookup stored survives failed ones, aging and restarts
\* (update_location_cache_tx).
THEOREM SuccessesSurvive == Spec => SuccessesKept
  <1> DEFINE Kept(ip) ==
        cache[ip] # NoRow =>
          /\ cache'[ip] # NoRow
          /\ cache[ip].age # "never" => cache'[ip].age # "never"
          /\ cache'[ip].country # cache[ip].country => cache'[ip].age = "fresh"
  <1>1. ASSUME IInv, [Next]_vars PROVE \A ip \in IPs : Kept(ip)
    <2>1. cache \in [IPs -> Rows \cup {NoRow}] /\ queue \in Seq(Commands)
      BY <1>1 DEF IInv, TypeOK, StoreTypeOK
    <2>2. CASE UNCHANGED cache
      BY <2>2
    <2>3. ASSUME NEW aging \in IPs, CacheAges(aging) PROVE \A ip \in IPs : Kept(ip)
      <3>1. /\ cache[aging] \in Rows /\ cache' = [cache EXCEPT ![aging].age = "stale"]
            /\ \A other \in IPs \ {aging} : cache'[other] = cache[other]
        BY <2>1, <2>3 DEF CacheAges
      <3>2. /\ cache'[aging] \in Rows /\ cache'[aging].age = "stale"
            /\ cache'[aging].country = cache[aging].country
        BY <2>1, <3>1 DEF Rows, Ages
      <3>3. cache'[aging] # NoRow
        BY <3>2, StoreAssumption DEF Rows, Ages
      <3> QED
        BY <3>1, <3>2, <3>3
    <2>4. CASE ServeUpdate
      <3> DEFINE cmd == Head(queue)
      <3>1. cmd.ip \in IPs /\ cmd.country \in Countries \cup {Unknown, Failed}
        BY <2>1, <2>4, TailFacts, CommandKinds DEF ServeUpdate, Serves
      <3>2. CASE cache' = [cache EXCEPT ![cmd.ip] = Upsert(@, cmd.country)]
        <4>1. /\ cache'[cmd.ip] = Upsert(cache[cmd.ip], cmd.country)
              /\ \A other \in IPs \ {cmd.ip} : cache'[other] = cache[other]
          BY <2>1, <3>1, <3>2
        <4>2. CASE cmd.country = Failed
          BY <4>1, <4>2 DEF Upsert
        <4>3. CASE cmd.country # Failed
          <5>1. cache'[cmd.ip] = [country |-> cmd.country, age |-> "fresh"]
            BY <4>1, <4>3 DEF Upsert
          <5>2. cache'[cmd.ip] \in Rows /\ cache'[cmd.ip].age = "fresh"
            BY <3>1, <4>3, <5>1 DEF Rows, Ages
          <5>3. cache'[cmd.ip] # NoRow
            BY <5>2, StoreAssumption DEF Rows, Ages
          <5> QED
            BY <4>1, <5>2, <5>3
        <4> QED
          BY <4>2, <4>3
      <3>3. CASE UNCHANGED cache
        BY <3>3
      <3> QED
        BY <2>4, <3>2, <3>3 DEF ServeUpdate, Rollback, diskVars
    <2>5. UNCHANGED cache \/ ServeUpdate \/ \E ip \in IPs : CacheAges(ip)
      BY <1>1
      DEF Next, StoreStep, Serve, ServeReplace, ServeSnapshot, ServeShutdown, Rollback,
          DiskFault, PollStep, TaskStep, PollTick, FetchRound, SnapshotWritten, RoundDone,
          Drained, StartEnrichment, Lookup, EnrichmentEnds, LoadAtStartup, RecvWake, RetryTick,
          StartRead, ReadEnds, LeaveLoop, JoinCollector, JoinWorker, Crash, vars, storeVars, diskVars
    <2> QED
      BY <2>2, <2>3, <2>4, <2>5
  <1>2. IInv /\ [Next]_vars => \A ip \in IPs : Kept(ip)
    BY <1>1
  <1> QED
    BY <1>2, Invariance, PTL DEF Spec, Safety, SuccessesKept
=============================================================================
