---------------------------- MODULE PeerGeoStore ----------------------------
(***************************************************************************)
(* The SQLite worker of geo/store.rs: one thread owns the connection and   *)
(* serves commands from an unbounded channel.  Every client blocks on its  *)
(* own reply channel, so it has at most one command outstanding.  A write  *)
(* that commits also puts a token into a wake channel of capacity one.     *)
(*                                                                         *)
(* A transaction, the wake-up and the reply are one action: only the       *)
(* worker reads the database, so nobody can look between them.             *)
(***************************************************************************)
EXTENDS Naturals, FiniteSets, Sequences

CONSTANTS
    IPs,            \* the peers' addresses
    Countries,      \* normalised two-letter Country Codes
    Unknown,        \* a country value that is missing or invalid
    NoRow,          \* an IP the Location Cache has no row for
    Clients,        \* the threads and tasks that use the store handle
    NoReply,        \* nothing in a client's reply channel
    Failed          \* an error reply

ASSUME StoreAssumption ==
    /\ IsFiniteSet(IPs) /\ IsFiniteSet(Countries)
    /\ Unknown \notin Countries /\ Failed \notin Countries \cup {Unknown, NoReply}
    /\ NoRow \notin [country : Countries \cup {Unknown}, age : {"never", "fresh", "stale"}]

VARIABLES
    peers,          \* table current_peers: the Peer Snapshot
    cache,          \* table location_cache
    fault,          \* the environment makes statements and commits fail
    queue,          \* commands sent to the worker
    reply,          \* the reply channel of each client
    wake,           \* the wake channel holds a token
    worker          \* "running", or "exited" after Shutdown

diskVars == <<peers, cache>>
storeVars == <<peers, cache, fault, queue, reply, wake, worker>>

\* refreshed_at: 0 for a row only failures have touched, else whether it is
\* older than LOCATION_CACHE_TTL_SECONDS.
Ages == {"never", "fresh", "stale"}
Rows == [country : Countries \cup {Unknown}, age : Ages]

\* country_counts and unknown_country_count; total_peers is their sum.
Views == [Countries \cup {Unknown} -> 0..Cardinality(IPs)]
EmptyView == [c \in Countries \cup {Unknown} |-> 0]

Commands ==
    [op : {"replace"}, from : Clients, ips : SUBSET IPs]
        \cup [op : {"update"}, from : Clients, ip : IPs,
              country : Countries \cup {Unknown, Failed}]
        \cup [op : {"snapshot"}, from : Clients]
        \cup [op : {"shutdown"}]

Replies ==
    {NoReply, Failed} \cup [needs : SUBSET IPs] \cup [done : {TRUE}] \cup [view : Views]

StoreTypeOK ==
    /\ peers \subseteq IPs
    /\ cache \in [IPs -> Rows \cup {NoRow}]
    /\ fault \in BOOLEAN
    /\ queue \in Seq(Commands)
    /\ reply \in [Clients -> Replies]
    /\ wake \in BOOLEAN
    /\ worker \in {"running", "exited"}

\* A database that could not be opened has no worker behind it: calls fail.
StoreInit(opened) ==
    /\ peers = {}
    /\ cache = [ip \in IPs |-> NoRow]
    /\ fault = FALSE
    /\ queue = <<>>
    /\ reply = [c \in Clients |-> NoReply]
    /\ wake = FALSE
    /\ worker = IF opened THEN "running" ELSE "exited"

-----------------------------------------------------------------------------
(* What the statements compute.                                            *)

\* LEFT JOIN: no row, or a last success that is too old.
NeedsEnrichment(ip) == cache[ip] = NoRow \/ cache[ip].age # "fresh"

CountryOf(ip) == IF cache[ip] = NoRow THEN Unknown ELSE cache[ip].country

\* build_geo_view_snapshot and assemble_snapshot: each peer counted once.
GeoView ==
    [c \in Countries \cup {Unknown} |-> Cardinality({ip \in peers : CountryOf(ip) = c})]

\* Mutant: a failed lookup overwrites the row, as a success does.
UpsertOverwrites(row, country) ==
    IF country = Failed
    THEN [country |-> Unknown, age |-> "never"]
    ELSE [country |-> country, age |-> "fresh"]

\* Mutant: the outcome is stored as it came, a failed lookup included.
UpsertFailure(row, country) == [country |-> country, age |-> "fresh"]

\* update_location_cache_tx: a failure inserts a row but never changes one
\* (its last_error is not displayed).
Upsert(row, country) ==
    IF country = Failed
    THEN IF row = NoRow THEN [country |-> Unknown, age |-> "never"] ELSE row
    ELSE [country |-> country, age |-> "fresh"]

-----------------------------------------------------------------------------
(* The handle: send a command, then block on the reply.                    *)

\* With the worker gone the channel is disconnected and the call fails.
Send(c, cmd) ==
    IF worker = "running"
    THEN queue' = Append(queue, cmd) /\ UNCHANGED reply
    ELSE reply' = [reply EXCEPT ![c] = Failed] /\ UNCHANGED queue

Consume(c) == reply' = [reply EXCEPT ![c] = NoReply]

\* shutdown sends without waiting for a reply.
SendShutdown ==
    queue' = IF worker = "running" THEN Append(queue, [op |-> "shutdown"]) ELSE queue

-----------------------------------------------------------------------------
(* worker_loop: one action per command.                                    *)

Serves(op) == worker = "running" /\ queue # <<>> /\ Head(queue).op = op

\* Mutant: the worker forgets to wake the UI after a commit.
CommitQuietly(cmd, value) ==
    /\ reply' = [reply EXCEPT ![cmd.from] = value]
    /\ UNCHANGED wake

Commit(cmd, value) ==
    /\ wake' = TRUE
    /\ reply' = [reply EXCEPT ![cmd.from] = value]

\* A failing transaction rolls back: an error reply and no wake-up.
Rollback(cmd) ==
    /\ fault
    /\ reply' = [reply EXCEPT ![cmd.from] = Failed]
    /\ UNCHANGED <<diskVars, wake>>

ServeReplace ==
    /\ Serves("replace")
    /\ LET cmd == Head(queue) IN
          \/ /\ peers' = cmd.ips
             /\ Commit(cmd, [needs |-> {ip \in cmd.ips : NeedsEnrichment(ip)}])
             /\ UNCHANGED cache
          \/ Rollback(cmd)
    /\ queue' = Tail(queue)
    /\ UNCHANGED <<fault, worker>>

ServeUpdate ==
    /\ Serves("update")
    /\ LET cmd == Head(queue) IN
          \/ /\ cache' = [cache EXCEPT ![cmd.ip] = Upsert(@, cmd.country)]
             /\ Commit(cmd, [done |-> TRUE])
             /\ UNCHANGED peers
          \/ Rollback(cmd)
    /\ queue' = Tail(queue)
    /\ UNCHANGED <<fault, worker>>

ServeSnapshot ==
    /\ Serves("snapshot")
    /\ LET cmd == Head(queue) IN
          \/ /\ reply' = [reply EXCEPT ![cmd.from] = [view |-> GeoView]]
             /\ UNCHANGED <<diskVars, wake>>
          \/ Rollback(cmd)
    /\ queue' = Tail(queue)
    /\ UNCHANGED <<fault, worker>>

\* Mutant: Shutdown is served like any other command, and the loop goes on.
ServeShutdownGoesOn ==
    /\ Serves("shutdown")
    /\ queue' = Tail(queue)
    /\ UNCHANGED <<diskVars, fault, reply, wake, worker>>

\* The worker leaves its loop; commands behind Shutdown are dropped with their
\* reply senders, which fails the clients that wait for them.
ServeShutdown ==
    /\ Serves("shutdown")
    /\ worker' = "exited"
    /\ reply' = [c \in Clients |->
                    IF \E i \in 2..Len(queue) : queue[i].op # "shutdown" /\ queue[i].from = c
                    THEN Failed ELSE reply[c]]
    /\ queue' = <<>>
    /\ UNCHANGED <<diskVars, fault, wake>>

Serve == ServeReplace \/ ServeUpdate \/ ServeSnapshot \/ ServeShutdown

-----------------------------------------------------------------------------
(* The environment: time and the disk.                                     *)

CacheAges(ip) ==
    /\ cache[ip] # NoRow /\ cache[ip].age = "fresh"
    /\ cache' = [cache EXCEPT ![ip].age = "stale"]
    /\ UNCHANGED <<peers, fault, queue, reply, wake, worker>>

DiskFault ==
    /\ fault' = ~fault
    /\ UNCHANGED <<diskVars, queue, reply, wake, worker>>
=============================================================================
