------------------------------ MODULE Notifier ------------------------------
(***************************************************************************)
(* Telegram notifications (notify.rs) and the tasks that raise them: one   *)
(* node-state task per monitored node (collect/node_state.rs), the ranking *)
(* refresh and the daily summary loop (collect/node_detail.rs).            *)
(*                                                                         *)
(* A notification passes the mutex of NotificationState twice, first to    *)
(* note the new state of its subject, then to decide its delivery; the     *)
(* clock is read in between, and the requests to Telegram are awaited      *)
(* outside the lock, so the tasks interleave at each of these points.      *)
(***************************************************************************)
EXTENDS Naturals, FiniteSets, Sequences

CONSTANTS
    Monitors,       \* the node-state tasks there may be
    Keys,           \* connection keys, name@url
    KeyOf,          \* the key of each monitor
    Nodes,          \* the nodes whose ranking is watched
    Rankings,       \* the rankings they take
    Ranker, Daily,  \* the ranking refresh and the daily summary loop
    Today,          \* the subject of a daily summary
    Chats,          \* recipients
    Configs,        \* the configurations considered
    MaxBuffered     \* bound on the notifications buffered at a time

NotificationEventKind ==
    {"ConnectionFailed", "ConnectionRecovered", "RankingChanged", "DailySummary"}

ASSUME MonitorsAssumption ==
    /\ KeyOf \in [Monitors -> Keys]
    /\ Ranker \notin Monitors /\ Daily \notin Monitors /\ Ranker # Daily
ASSUME RankingsAssumption == Rankings \subseteq Nat \ {0}
\* The endpoints, the recipients in order, the kinds that pass the event
\* filter, and whether quiet hours and a rate limit are configured.
Config == [monitors : SUBSET Monitors, chatIds : Seq(Chats) \ {<<>>},
           enabled : SUBSET NotificationEventKind, quietHours : BOOLEAN, rateLimit : BOOLEAN]

ASSUME ConfigAssumption == Configs \subseteq Config /\ MaxBuffered \in Nat \ {0}

Callers == Monitors \cup {Ranker, Daily}
Buckets == NotificationEventKind \ {"DailySummary"}

Events ==
    [kind : {"ConnectionFailed", "ConnectionRecovered"}, subject : Keys]
        \cup [kind : {"RankingChanged"}, subject : Nodes]
        \cup {[kind |-> "DailySummary", subject |-> Today]}

NoEvent == [kind |-> "none"]

VARIABLES
    \* NotificationState, behind its mutex
    conn,           \* connection_states; "unknown" without an entry
    ranking,        \* last_rankings; 0 without an entry
    limited,        \* last_sent_at: the event keys sent less than the limit ago
    buffer,         \* quiet_summary: a bucket per kind
    quietNow,       \* the local time is within the quiet hours
    opts,           \* the configuration
    \* each caller's progress through a notification
    pc,
    event,          \* what it notifies of
    sawQuiet,       \* quiet_time_now, as it was read
    carried,        \* the quiet summary it took
    left,           \* the recipients it has still to post the current text to
    posted          \* the last connection message a request posted to each chat, by
                    \* key: an attempt, for a request that fails is only logged

stateVars == <<conn, ranking, limited, buffer>>
callVars == <<pc, event, sawQuiet, carried, left>>
givenVars == <<quietNow, opts>>
vars == <<stateVars, givenVars, callVars, posted>>

\* A buffer counts events by kind; the names it previews are left out.
Buffers == [Buckets -> 0..MaxBuffered]
NoBuffer == [k \in Buckets |-> 0]
Total(b) == b["ConnectionFailed"] + b["ConnectionRecovered"] + b["RankingChanged"]

TypeOK ==
    /\ conn \in [Keys -> {"unknown", "Healthy", "Unhealthy"}]
    /\ ranking \in [Nodes -> Rankings \cup {0}]
    /\ limited \subseteq Events
    /\ buffer \in Buffers
    /\ quietNow \in BOOLEAN /\ opts \in Configs
    /\ pc \in [Callers -> {"idle", "clock", "decide", "summary", "message"}]
    /\ event \in [Callers -> Events \cup {NoEvent}]
    /\ sawQuiet \in [Callers -> BOOLEAN]
    /\ carried \in [Callers -> Buffers]
    /\ left \in [Callers -> Seq(Chats)]
    /\ posted \in [Chats -> [Keys -> {"nothing", "failed", "recovered"}]]
    /\ \A c \in Callers :
          /\ event[c] = NoEvent <=> pc[c] = "idle"
          /\ carried[c] # NoBuffer <=> pc[c] = "summary"
          /\ left[c] # <<>> <=> pc[c] \in {"summary", "message"}

Init ==
    /\ conn = [k \in Keys |-> "unknown"]
    /\ ranking = [n \in Nodes |-> 0]
    /\ limited = {}
    /\ buffer = NoBuffer
    /\ opts \in Configs
    /\ quietNow \in {FALSE, opts.quietHours}
    /\ pc = [c \in Callers |-> "idle"]
    /\ event = [c \in Callers |-> NoEvent]
    /\ sawQuiet = [c \in Callers |-> FALSE]
    /\ carried = [c \in Callers |-> NoBuffer]
    /\ left = [c \in Callers |-> <<>>]
    /\ posted = [x \in Chats |-> [k \in Keys |-> "nothing"]]

-----------------------------------------------------------------------------
(* The first lock: what is new about the subject.                          *)

\* A notification that is due enters send_if_enabled unless it is filtered out.
Begin(c, kind, subject) ==
    IF kind \in opts.enabled
    THEN /\ event' = [event EXCEPT ![c] = [kind |-> kind, subject |-> subject]]
         /\ pc' = [pc EXCEPT ![c] = "clock"]
    ELSE UNCHANGED <<pc, event>>

\* The call returns and its locals are gone.
Return(c) ==
    /\ pc' = [pc EXCEPT ![c] = "idle"]
    /\ event' = [event EXCEPT ![c] = NoEvent]
    /\ sawQuiet' = [sawQuiet EXCEPT ![c] = FALSE]

\* Connecting or one of the two RPC calls failed.
NotifyFailed(m) ==
    /\ pc[m] = "idle"
    /\ conn' = [conn EXCEPT ![KeyOf[m]] = "Unhealthy"]
    /\ IF conn[KeyOf[m]] # "Unhealthy"
       THEN Begin(m, "ConnectionFailed", KeyOf[m])
       ELSE UNCHANGED <<pc, event>>
    /\ UNCHANGED <<ranking, limited, buffer, givenVars, sawQuiet, carried, left, posted>>

\* Mutant: a recovery is reported but not remembered.
NotifyRecoveredForgets(m) ==
    /\ pc[m] = "idle"
    /\ IF conn[KeyOf[m]] = "Unhealthy"
       THEN Begin(m, "ConnectionRecovered", KeyOf[m])
       ELSE UNCHANGED <<pc, event>>
    /\ UNCHANGED <<stateVars, givenVars, sawQuiet, carried, left, posted>>

\* Mutant: the first successful poll counts as a recovery.
NotifyRecoveredAlways(m) ==
    /\ pc[m] = "idle"
    /\ conn' = [conn EXCEPT ![KeyOf[m]] = "Healthy"]
    /\ IF conn[KeyOf[m]] # "Healthy"
       THEN Begin(m, "ConnectionRecovered", KeyOf[m])
       ELSE UNCHANGED <<pc, event>>
    /\ UNCHANGED <<ranking, limited, buffer, givenVars, sawQuiet, carried, left, posted>>

\* A poll succeeded; only the end of an outage is worth a message.
NotifyRecovered(m) ==
    /\ pc[m] = "idle"
    /\ conn' = [conn EXCEPT ![KeyOf[m]] = "Healthy"]
    /\ IF conn[KeyOf[m]] = "Unhealthy"
       THEN Begin(m, "ConnectionRecovered", KeyOf[m])
       ELSE UNCHANGED <<pc, event>>
    /\ UNCHANGED <<ranking, limited, buffer, givenVars, sawQuiet, carried, left, posted>>

\* An observed ranking: the first one of a node is only remembered.
NotifyRanking(n, r) ==
    /\ pc[Ranker] = "idle"
    /\ ranking' = [ranking EXCEPT ![n] = r]
    /\ IF ranking[n] \notin {0, r}
       THEN Begin(Ranker, "RankingChanged", n)
       ELSE UNCHANGED <<pc, event>>
    /\ UNCHANGED <<conn, limited, buffer, givenVars, sawQuiet, carried, left, posted>>

\* Local midnight.
NotifyDaily ==
    /\ pc[Daily] = "idle"
    /\ Begin(Daily, "DailySummary", Today)
    /\ UNCHANGED <<stateVars, givenVars, sawQuiet, carried, left, posted>>

-----------------------------------------------------------------------------
(* send_if_enabled: read the clock, lock, decide.                          *)

ReadClock(c) ==
    /\ pc[c] = "clock"
    /\ pc' = [pc EXCEPT ![c] = "decide"]
    /\ sawQuiet' = [sawQuiet EXCEPT ![c] = quietNow]
    /\ UNCHANGED <<stateVars, givenVars, event, carried, left, posted>>

\* QuietSummaryBuffer::record.
Record(b, e) == [b EXCEPT ![e.kind] = @ + 1]

\* The key of a daily summary contains its date.  The limit applies to it too, but
\* only a clock that is set back repeats a date, which is left out.
Suppressed(e) == opts.rateLimit /\ e \in limited

Charge(e) ==
    limited' = IF opts.rateLimit /\ e.kind # "DailySummary" THEN limited \cup {e} ELSE limited

SuppressByRateLimit(c) ==
    /\ pc[c] = "decide" /\ Suppressed(event[c])
    /\ Return(c)
    /\ UNCHANGED <<stateVars, givenVars, carried, left, posted>>

\* Mutant: quiet hours hold for daily summaries too.
BufferItAlways(c) == sawQuiet[c]

BufferIt(c) == sawQuiet[c] /\ event[c].kind # "DailySummary"

BufferByQuietHours(c) ==
    /\ pc[c] = "decide" /\ ~Suppressed(event[c]) /\ BufferIt(c)
    /\ Total(buffer) < MaxBuffered
    /\ Charge(event[c])
    /\ buffer' = Record(buffer, event[c])
    /\ Return(c)
    /\ UNCHANGED <<conn, ranking, givenVars, carried, left, posted>>

\* Mutant: the summary is rendered but stays in the buffer.
SendKeepingBuffer(c) ==
    /\ pc[c] = "decide" /\ ~Suppressed(event[c]) /\ ~BufferIt(c)
    /\ Charge(event[c])
    /\ carried' = [carried EXCEPT ![c] = buffer]
    /\ left' = [left EXCEPT ![c] = opts.chatIds]
    /\ pc' = [pc EXCEPT ![c] = IF Total(buffer) > 0 THEN "summary" ELSE "message"]
    /\ UNCHANGED <<conn, ranking, buffer, givenVars, event, sawQuiet, posted>>

\* The notification goes out, behind the quiet summary if there is one.
Send(c) ==
    /\ pc[c] = "decide" /\ ~Suppressed(event[c]) /\ ~BufferIt(c)
    /\ Charge(event[c])
    /\ carried' = [carried EXCEPT ![c] = buffer]
    /\ buffer' = NoBuffer
    /\ left' = [left EXCEPT ![c] = opts.chatIds]
    /\ pc' = [pc EXCEPT ![c] = IF Total(buffer) > 0 THEN "summary" ELSE "message"]
    /\ UNCHANGED <<conn, ranking, givenVars, event, sawQuiet, posted>>

-----------------------------------------------------------------------------
(* send_message: one request per recipient; a failed one is only logged.   *)

PostSummary(c) ==
    /\ pc[c] = "summary"
    /\ IF Len(left[c]) > 1
       THEN left' = [left EXCEPT ![c] = Tail(@)] /\ UNCHANGED <<pc, carried>>
       ELSE /\ left' = [left EXCEPT ![c] = opts.chatIds]
            /\ pc' = [pc EXCEPT ![c] = "message"]
            /\ carried' = [carried EXCEPT ![c] = NoBuffer]
    /\ UNCHANGED <<stateVars, givenVars, event, sawQuiet, posted>>

Says(e) ==
    CASE e.kind = "ConnectionFailed" -> "failed"
      [] e.kind = "ConnectionRecovered" -> "recovered"

PostMessage(c) ==
    /\ pc[c] = "message"
    /\ posted' = IF event[c].kind \in {"ConnectionFailed", "ConnectionRecovered"}
                 THEN [posted EXCEPT ![Head(left[c])][event[c].subject] = Says(event[c])]
                 ELSE posted
    /\ left' = [left EXCEPT ![c] = Tail(@)]
    /\ IF Len(left[c]) > 1 THEN UNCHANGED <<pc, event, sawQuiet>> ELSE Return(c)
    /\ UNCHANGED <<stateVars, givenVars, carried>>

\* Mutant: the interrupted task is resumed with the summary it was posting.
RankingTimeoutKeepsSummary ==
    /\ pc[Ranker] \in {"summary", "message"}
    /\ Return(Ranker)
    /\ left' = [left EXCEPT ![Ranker] = <<>>]
    /\ UNCHANGED <<stateVars, givenVars, carried, posted>>

\* The timeout of 30 seconds around a ranking refresh includes its
\* notifications: whatever the task was posting is dropped.
RankingTimeout ==
    /\ pc[Ranker] \in {"summary", "message"}
    /\ Return(Ranker)
    /\ carried' = [carried EXCEPT ![Ranker] = NoBuffer]
    /\ left' = [left EXCEPT ![Ranker] = <<>>]
    /\ UNCHANGED <<stateVars, givenVars, posted>>

-----------------------------------------------------------------------------
(* The environment: the clock.                                             *)

QuietBoundary ==
    /\ opts.quietHours
    /\ quietNow' = ~quietNow
    /\ UNCHANGED <<stateVars, opts, callVars, posted>>

LimitElapses(e) ==
    /\ e \in limited
    /\ limited' = limited \ {e}
    /\ UNCHANGED <<conn, ranking, buffer, givenVars, callVars, posted>>

-----------------------------------------------------------------------------
Deliver(c) ==
    \/ ReadClock(c)
    \/ SuppressByRateLimit(c) \/ BufferByQuietHours(c) \/ Send(c)
    \/ PostSummary(c) \/ PostMessage(c)

Next ==
    \/ \E m \in opts.monitors : NotifyFailed(m) \/ NotifyRecovered(m)
    \/ \E n \in Nodes, r \in Rankings : NotifyRanking(n, r)
    \/ NotifyDaily
    \/ \E c \in Callers : Deliver(c)
    \/ RankingTimeout
    \/ QuietBoundary
    \/ \E e \in Events : LimitElapses(e)

\* Midnight comes every day, and requests to Telegram end in an answer or an
\* error.  Nothing is assumed of the nodes or of the quiet hours.
Fairness ==
    /\ WF_vars(NotifyDaily)
    /\ \A c \in Callers : WF_vars(Deliver(c))

Safety == Init /\ [][Next]_vars
Spec == Safety /\ Fairness

-----------------------------------------------------------------------------
(* Correctness.                                                            *)

\* With neither quiet hours nor a rate limit, and a key of its own, a node that
\* is not being reported on was last posted to every chat as what its collector
\* last saw, requests that failed included (mark_connection_failed,
\* mark_connection_recovered, send_message).
Agrees(said, state) ==
    CASE state = "unknown" -> said = "nothing"
      [] state = "Unhealthy" -> said = "failed"
      [] state = "Healthy" -> said \in {"nothing", "recovered"}

Prompt == opts.enabled = NotificationEventKind /\ ~opts.quietHours /\ ~opts.rateLimit

RecipientsInStep ==
    Prompt => \A m \in opts.monitors : pc[m] = "idle" =>
        \A i \in DOMAIN opts.chatIds : Agrees(posted[opts.chatIds[i]][KeyOf[m]], conn[KeyOf[m]])

\* Under the same configuration a recovery is posted to a chat only after the
\* outage was posted to it, whatever the other tasks post in between.  Both are
\* attempts: whether the request of the outage succeeded is not asked
\* (mark_connection_recovered, send_message_to_chat).
RecoveriesFollowOutages ==
    [][\A x \in Chats, k \in Keys :
          Prompt /\ posted[x][k] # "recovered" /\ posted'[x][k] = "recovered"
              => posted[x][k] = "failed"]_vars

\* What quiet hours buffered is handed over whole and to one notification only:
\* no two concurrent ones report the same events, and none is dropped from the
\* buffer without a summary that counts it (take_quiet_summary_snapshot).
SummariesTakenOnce ==
    [][/\ (\E k \in Buckets : buffer'[k] < buffer[k]) =>
             \E c \in Callers : carried'[c] = buffer
       /\ \A c \in Callers :
             carried'[c] \notin {carried[c], NoBuffer} => buffer' = NoBuffer]_vars

\* Buffered events do not wait for ever: the daily summary ignores quiet hours,
\* has a key of its own every day, and takes them along (send_if_enabled).
BacklogReported == Total(buffer) > 0 ~> Total(buffer) = 0

\* README.md, on quiet hours: what falls into them is buffered, and the next
\* notification after they have ended is preceded by the summary.  A daily
\* summary is not buffered, and takes the summary along within quiet hours.
SummaryAfterQuietHours ==
    [][\A c \in Callers : carried'[c] \notin {carried[c], NoBuffer} => ~sawQuiet[c]]_vars

=============================================================================
