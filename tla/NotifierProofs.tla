---------------------------- MODULE NotifierProofs ----------------------------
(***************************************************************************)
(* For any configuration, nodes and recipients: the notifier keeps its     *)
(* types, quiet summaries are handed over once, and outages and recoveries *)
(* are posted to every chat in step with the recorded state.               *)
(***************************************************************************)
EXTENDS Notifier, TLAPS

Connection == {"ConnectionFailed", "ConnectionRecovered"}

-----------------------------------------------------------------------------
(* Types.                                                                  *)

\* What a caller has in its locals follows from where it is.
Locals(c) ==
    /\ event[c] = NoEvent <=> pc[c] = "idle"
    /\ carried[c] # NoBuffer <=> pc[c] = "summary"
    /\ left[c] # <<>> <=> pc[c] \in {"summary", "message"}

\* A notification that is due is an event.
LEMMA BeginType ==
    ASSUME TypeOK, NEW c \in Callers, NEW kind, NEW subject,
           [kind |-> kind, subject |-> subject] \in Events,
           pc[c] = "idle", Begin(c, kind, subject),
           UNCHANGED <<carried, left>>
    PROVE  /\ pc' \in [Callers -> {"idle", "clock", "decide", "summary", "message"}]
           /\ event' \in [Callers -> Events \cup {NoEvent}]
           /\ \A d \in Callers : Locals(d)'
  <1>1. [kind |-> kind, subject |-> subject] # NoEvent
    BY DEF Events, NoEvent
  <1>2. CASE kind \in opts.enabled
    <2>1. /\ event' = [event EXCEPT ![c] = [kind |-> kind, subject |-> subject]]
          /\ pc' = [pc EXCEPT ![c] = "clock"]
      BY <1>2 DEF Begin
    <2>2. \A d \in Callers : Locals(d)'
      BY <1>1, <2>1 DEF TypeOK, Locals
    <2> QED
      BY <2>1, <2>2 DEF TypeOK
  <1>3. CASE kind \notin opts.enabled
    BY <1>3 DEF TypeOK, Begin, Locals
  <1> QED
    BY <1>2, <1>3

\* The recipients that are left after one.
LEMMA Rest ==
    ASSUME NEW s \in Seq(Chats), s # <<>>
    PROVE  /\ Head(s) \in Chats /\ Tail(s) \in Seq(Chats) /\ Len(Tail(s)) = Len(s) - 1
           /\ Tail(s) # <<>> <=> Len(s) > 1
  <1>1. Len(s) \in Nat /\ Len(s) >= 1 /\ s[1] \in Chats /\ Head(s) = s[1]
    OBVIOUS
  <1>2. Tail(s) \in Seq(Chats) /\ Len(Tail(s)) = Len(s) - 1
    OBVIOUS
  <1>3. Tail(s) = <<>> <=> Len(Tail(s)) = 0
    BY <1>2
  <1> QED
    BY <1>1, <1>2, <1>3

\* Recording an event keeps the buffer within its bound.
LEMMA RecordType ==
    ASSUME NEW b \in Buffers, NEW e \in Events, e.kind # "DailySummary", Total(b) < MaxBuffered
    PROVE  Record(b, e) \in Buffers
  <1>1. e.kind \in Buckets
    BY DEF Events, Buckets, NotificationEventKind
  <1>2. \A k \in Buckets : b[k] <= Total(b) /\ b[k] \in Nat
    BY DEF Buffers, Buckets, NotificationEventKind, Total
  <1>3. MaxBuffered \in Nat /\ Total(b) \in Nat
    BY ConfigAssumption DEF Buffers, Buckets, NotificationEventKind, Total
  <1>4. b[e.kind] + 1 \in 0..MaxBuffered
    BY <1>1, <1>2, <1>3
  <1> QED
    BY <1>1, <1>4 DEF Record, Buffers

\* A buffer without events is the empty one.
LEMMA EmptyBuffer ==
    ASSUME NEW b \in Buffers
    PROVE  Total(b) > 0 <=> b # NoBuffer
  BY DEF Buffers, Buckets, NotificationEventKind, Total, NoBuffer

\* Every step keeps the types and what the locals say.
LEMMA StepType == TypeOK /\ [Next]_vars => TypeOK'
  <1> SUFFICES ASSUME TypeOK, [Next]_vars PROVE TypeOK'
    OBVIOUS
  <1> USE DEF TypeOK
  <1>1. ASSUME NEW m \in opts.monitors, NotifyFailed(m) \/ NotifyRecovered(m)
        PROVE  TypeOK'
    <2>1. m \in Callers /\ KeyOf[m] \in Keys
      BY MonitorsAssumption, ConfigAssumption DEF Callers, Config
    <2>2. /\ [kind |-> "ConnectionFailed", subject |-> KeyOf[m]] \in Events
          /\ [kind |-> "ConnectionRecovered", subject |-> KeyOf[m]] \in Events
      BY <2>1 DEF Events
    <2> QED
      BY <1>1, <2>1, <2>2, BeginType
         DEF NotifyFailed, NotifyRecovered, Locals, givenVars
  <1>2. ASSUME NEW n \in Nodes, NEW r \in Rankings, NotifyRanking(n, r)
        PROVE  TypeOK'
    <2>1. Ranker \in Callers /\ [kind |-> "RankingChanged", subject |-> n] \in Events
      BY DEF Callers, Events
    <2> QED
      BY <1>2, <2>1, BeginType DEF NotifyRanking, Locals, givenVars
  <1>3. CASE NotifyDaily
    <2>1. Daily \in Callers /\ [kind |-> "DailySummary", subject |-> Today] \in Events
      BY DEF Callers, Events
    <2> QED
      BY <1>3, <2>1, BeginType DEF NotifyDaily, Locals, givenVars, stateVars
  <1>4. ASSUME NEW c \in Callers, ReadClock(c)
        PROVE  TypeOK'
    BY <1>4 DEF ReadClock, stateVars, givenVars
  <1>5. ASSUME NEW c \in Callers, SuppressByRateLimit(c)
        PROVE  TypeOK'
    BY <1>5 DEF SuppressByRateLimit, Return, stateVars, givenVars
  <1>6. ASSUME NEW c \in Callers, BufferByQuietHours(c)
        PROVE  TypeOK'
    <2>1. event[c] \in Events /\ event[c].kind # "DailySummary"
      BY <1>6 DEF BufferByQuietHours, BufferIt
    <2>2. buffer' \in Buffers
      BY <1>6, <2>1, RecordType DEF BufferByQuietHours
    <2> QED
      BY <1>6, <2>1, <2>2 DEF BufferByQuietHours, Charge, Return, givenVars
  <1>7. ASSUME NEW c \in Callers, Send(c)
        PROVE  TypeOK'
    <2>1. event[c] \in Events
      BY <1>7 DEF Send
    <2>2. NoBuffer \in Buffers
      BY ConfigAssumption DEF NoBuffer, Buffers
    <2>3. opts.chatIds \in Seq(Chats) /\ opts.chatIds # <<>>
      BY ConfigAssumption DEF Config
    <2> QED
      BY <1>7, <2>1, <2>2, <2>3, EmptyBuffer DEF Send, Charge, givenVars
  <1>8. ASSUME NEW c \in Callers, PostSummary(c)
        PROVE  TypeOK'
    <2>1. NoBuffer \in Buffers
      BY ConfigAssumption DEF NoBuffer, Buffers
    <2>2. opts.chatIds \in Seq(Chats) /\ opts.chatIds # <<>>
      BY ConfigAssumption DEF Config
    <2>3. CASE Len(left[c]) > 1
      <3>1. Tail(left[c]) \in Seq(Chats) /\ Tail(left[c]) # <<>>
        BY <1>8, <2>3, Rest DEF PostSummary
      <3> QED
        BY <1>8, <2>3, <3>1 DEF PostSummary, stateVars, givenVars
    <2>4. CASE ~ (Len(left[c]) > 1)
      <3>1. /\ left' = [left EXCEPT ![c] = opts.chatIds]
            /\ pc' = [pc EXCEPT ![c] = "message"]
            /\ carried' = [carried EXCEPT ![c] = NoBuffer]
        BY <1>8, <2>4 DEF PostSummary
      <3>2. \A d \in Callers : Locals(d)'
        BY <1>8, <2>2, <3>1 DEF PostSummary, Locals
      <3> QED
        BY <1>8, <2>1, <2>2, <3>1, <3>2 DEF PostSummary, Locals, stateVars, givenVars
    <2> QED
      BY <2>3, <2>4
  <1>9. ASSUME NEW c \in Callers, PostMessage(c)
        PROVE  TypeOK'
    <2>1. left[c] \in Seq(Chats) /\ left[c] # <<>>
      BY <1>9 DEF PostMessage
    <2>2. posted' \in [Chats -> [Keys -> {"nothing", "failed", "recovered"}]]
      <3>1. Head(left[c]) \in Chats
        BY <2>1
      <3>2. CASE event[c].kind \in Connection
        <4>1. Says(event[c]) \in {"failed", "recovered"}
          BY <3>2 DEF Says, Connection
        <4> QED
          BY <1>9, <3>1, <3>2, <4>1 DEF PostMessage, Connection
      <3>3. CASE event[c].kind \notin Connection
        BY <1>9, <3>3 DEF PostMessage, Connection
      <3> QED
        BY <3>2, <3>3
    <2>3. Tail(left[c]) \in Seq(Chats) /\ (Len(left[c]) > 1 <=> Tail(left[c]) # <<>>)
      BY <2>1, Rest
    <2> QED
      BY <1>9, <2>2, <2>3 DEF PostMessage, Return, stateVars, givenVars
  <1>10. CASE RankingTimeout
    <2>1. Ranker \in Callers /\ NoBuffer \in Buffers
      BY ConfigAssumption DEF Callers, NoBuffer, Buffers
    <2> QED
      BY <1>10, <2>1 DEF RankingTimeout, Return, stateVars, givenVars
  <1>11. CASE QuietBoundary
    BY <1>11 DEF QuietBoundary, stateVars, callVars
  <1>12. ASSUME NEW e \in Events, LimitElapses(e)
         PROVE  TypeOK'
    BY <1>12 DEF LimitElapses, givenVars, callVars
  <1>13. CASE UNCHANGED vars
    BY <1>13 DEF vars, stateVars, givenVars, callVars
  <1> QED
    BY <1>1, <1>2, <1>3, <1>4, <1>5, <1>6, <1>7, <1>8, <1>9, <1>10, <1>11, <1>12, <1>13
       DEF Next, Deliver

\* The marks, the buffer and the callers' locals keep their types.
THEOREM TypeCorrect == Spec => []TypeOK
  <1>1. Init => TypeOK
    <2> SUFFICES ASSUME Init PROVE TypeOK
      OBVIOUS
    <2>1. NoBuffer \in Buffers
      BY ConfigAssumption DEF NoBuffer, Buffers
    <2>2. opts.quietHours \in BOOLEAN
      BY ConfigAssumption DEF Init, Config
    <2>3. quietNow \in BOOLEAN
      BY <2>2 DEF Init
    <2>4. /\ left \in [Callers -> Seq(Chats)]
          /\ \A c \in Callers : Locals(c)
      <3>1. <<>> \in Seq(Chats)
        OBVIOUS
      <3> QED
        BY <3>1 DEF Init, Locals
    <2>5. /\ conn \in [Keys -> {"unknown", "Healthy", "Unhealthy"}]
          /\ ranking \in [Nodes -> Rankings \cup {0}]
          /\ limited \subseteq Events
          /\ posted \in [Chats -> [Keys -> {"nothing", "failed", "recovered"}]]
      BY DEF Init
    <2> QED
      BY <2>1, <2>3, <2>4, <2>5 DEF Init, TypeOK, Locals
  <1> QED
    BY <1>1, StepType, PTL DEF Spec, Safety

-----------------------------------------------------------------------------
(* Quiet summaries.                                                        *)

\* Any two notifications that decide at the same time, and whatever is posted
\* meanwhile: what quiet hours buffered is handed over whole, and to one only
\* (take_quiet_summary_snapshot).
THEOREM SummariesOnce == Spec => SummariesTakenOnce
  <1> DEFINE Once ==
        /\ (\E k \in Buckets : buffer'[k] < buffer[k]) =>
              \E c \in Callers : carried'[c] = buffer
        /\ \A c \in Callers :
              carried'[c] \notin {carried[c], NoBuffer} => buffer' = NoBuffer
  <1>1. TypeOK /\ [Next]_vars => [Once]_vars
    <2> SUFFICES ASSUME TypeOK, Next PROVE Once
      OBVIOUS
    <2>1. \A k \in Buckets : buffer[k] \in Nat
      BY DEF TypeOK, Buffers
    <2>2. ASSUME UNCHANGED <<buffer, carried>>
          PROVE  Once
      BY <2>1, <2>2
    <2>3. ASSUME NEW c \in Callers, BufferByQuietHours(c)
          PROVE  Once
      <3>1. \A k \in Buckets : buffer'[k] >= buffer[k]
        BY <2>1, <2>3 DEF BufferByQuietHours, Record, TypeOK, Buffers
      <3>2. ~ \E k \in Buckets : buffer'[k] < buffer[k]
        <4>1. \A k \in Buckets : buffer'[k] \in Nat
          BY <2>1, <2>3 DEF BufferByQuietHours, Record, TypeOK, Buffers
        <4> QED
          BY <2>1, <3>1, <4>1
      <3> QED
        BY <2>3, <3>2 DEF BufferByQuietHours
    <2>4. ASSUME NEW c \in Callers, Send(c)
          PROVE  Once
      BY <2>4 DEF Send, TypeOK
    <2>5. ASSUME NEW c \in Callers, PostSummary(c)
          PROVE  Once
      <3>1. UNCHANGED buffer
        BY <2>5 DEF PostSummary, stateVars
      <3>2. \A d \in Callers : carried'[d] \in {carried[d], NoBuffer}
        BY <2>5 DEF PostSummary, TypeOK
      <3> QED
        BY <2>1, <3>1, <3>2
    <2>6. CASE RankingTimeout
      <3>1. UNCHANGED buffer
        BY <2>6 DEF RankingTimeout, stateVars
      <3>2. \A d \in Callers : carried'[d] \in {carried[d], NoBuffer}
        BY <2>6 DEF RankingTimeout, TypeOK
      <3> QED
        BY <2>1, <3>1, <3>2
    <2>7. ASSUME NEW c \in Callers, ReadClock(c) \/ SuppressByRateLimit(c) \/ PostMessage(c)
          PROVE  UNCHANGED <<buffer, carried>>
      BY <2>7 DEF ReadClock, SuppressByRateLimit, PostMessage, stateVars
    <2>8. ASSUME NEW m \in opts.monitors, NotifyFailed(m) \/ NotifyRecovered(m)
          PROVE  UNCHANGED <<buffer, carried>>
      BY <2>8 DEF NotifyFailed, NotifyRecovered
    <2>9. ASSUME \/ \E n \in Nodes, r \in Rankings : NotifyRanking(n, r)
                 \/ NotifyDaily \/ QuietBoundary \/ \E e \in Events : LimitElapses(e)
          PROVE  UNCHANGED <<buffer, carried>>
      BY <2>9 DEF NotifyRanking, NotifyDaily, QuietBoundary, LimitElapses, stateVars, callVars
    <2> QED
      BY <2>2, <2>3, <2>4, <2>5, <2>6, <2>7, <2>8, <2>9 DEF Next, Deliver
  <1>2. Spec => [][Once]_vars
    BY <1>1, TypeCorrect, PTL DEF Spec, Safety
  <1> QED
    BY <1>2 DEF SummariesTakenOnce

-----------------------------------------------------------------------------
(* Outages and recoveries.                                                 *)

\* No two endpoints share a connection key (connection_key: name@url).
DistinctKeys == \A m, n \in Monitors : KeyOf[m] = KeyOf[n] => m = n

\* A task reports on its own subject, and only configured endpoints have tasks.
OwnEvents ==
    /\ \A m \in Monitors : event[m] # NoEvent =>
          /\ m \in opts.monitors
          /\ event[m].kind \in Connection /\ event[m].subject = KeyOf[m]
    /\ event[Ranker].kind \notin Connection /\ event[Daily].kind \notin Connection

\* Without quiet hours no clock is read within them.
NeverQuiet == ~opts.quietHours => ~quietNow /\ \A c \in Callers : ~sawQuiet[c]

\* The recipients that are left are the last ones of the list.
LastOnes(c) ==
    LET done == Len(opts.chatIds) - Len(left[c])
    IN /\ done >= 0
       /\ \A i \in 1..Len(left[c]) : left[c][i] = opts.chatIds[done + i]

LeftInOrder == \A c \in Callers : LastOnes(c)

\* What was posted of m's endpoint: the last of it to every chat while m rests;
\* while it reports, to those before the ones left, and a recovery is posted where
\* the outage was.
WasPosted(m) ==
    LET said(i) == posted[opts.chatIds[i]][KeyOf[m]]
        state == conn[KeyOf[m]]
    IN /\ pc[m] = "idle" => \A i \in DOMAIN opts.chatIds : Agrees(said(i), state)
       /\ pc[m] # "idle" =>
             /\ event[m].kind = "ConnectionFailed" => state = "Unhealthy"
             /\ event[m].kind = "ConnectionRecovered" =>
                   /\ state = "Healthy"
                   /\ \A i \in DOMAIN opts.chatIds : said(i) \in {"failed", "recovered"}
       /\ pc[m] = "message" =>
             \A i \in 1..Len(opts.chatIds) - Len(left[m]) : said(i) = Says(event[m])

AllPosted == Prompt => \A m \in opts.monitors : WasPosted(m)

InStep == OwnEvents /\ NeverQuiet /\ LeftInOrder /\ AllPosted

\* The configuration is what Config says.
LEMMA OptsType ==
    ASSUME TypeOK
    PROVE  /\ opts.monitors \subseteq Monitors /\ opts.chatIds \in Seq(Chats)
           /\ opts.chatIds # <<>> /\ opts.quietHours \in BOOLEAN /\ opts.rateLimit \in BOOLEAN
  BY ConfigAssumption DEF TypeOK, Config

\* The callers are distinct.
LEMMA CallerTypes ==
    /\ Ranker \in Callers /\ Daily \in Callers /\ Monitors \subseteq Callers
    /\ Ranker \notin Monitors /\ Daily \notin Monitors /\ Ranker # Daily
  BY MonitorsAssumption DEF Callers

\* A step of a delivery either keeps the event or ends the call.
LEMMA DeliverKeepsEvents ==
    ASSUME TypeOK, NEW c \in Callers, Deliver(c)
    PROVE  /\ opts' = opts /\ conn' = conn /\ quietNow' = quietNow
           /\ event' \in {event, [event EXCEPT ![c] = NoEvent]}
           /\ \A d \in Callers \ {c} : pc'[d] = pc[d] /\ left'[d] = left[d]
           /\ \A d \in Callers : sawQuiet'[d] \in {sawQuiet[d], FALSE, quietNow}
  BY DEF TypeOK, Deliver, ReadClock, SuppressByRateLimit, BufferByQuietHours, Send, PostSummary,
         PostMessage, Return, stateVars, givenVars

\* The configuration is given at the start (TelegramNotifier::new).
LEMMA OptsKept == TypeOK /\ Next => opts' = opts
  BY DeliverKeepsEvents
  DEF Next, NotifyFailed, NotifyRecovered, NotifyRanking, NotifyDaily, RankingTimeout,
      QuietBoundary, LimitElapses, givenVars

\* Each task reports on its own subject.
LEMMA StepOwn == TypeOK /\ OwnEvents /\ Next => OwnEvents'
  <1> SUFFICES ASSUME TypeOK, OwnEvents, Next PROVE OwnEvents'
    OBVIOUS
  <1> USE CallerTypes DEF OwnEvents
  <1>1. ASSUME NEW m \in opts.monitors, NotifyFailed(m) \/ NotifyRecovered(m)
        PROVE  OwnEvents'
    <2>1. PICK kind \in Connection :
              event' \in {event, [event EXCEPT ![m] = [kind |-> kind, subject |-> KeyOf[m]]]}
      BY <1>1 DEF NotifyFailed, NotifyRecovered, Begin, Connection
    <2>2. m \in Monitors /\ opts' = opts
      BY <1>1, OptsType DEF NotifyFailed, NotifyRecovered, givenVars
    <2>3. /\ \A x \in Callers \ {m} : event'[x] = event[x]
          /\ event'[m] \in {event[m], [kind |-> kind, subject |-> KeyOf[m]]}
      BY <2>1, <2>2 DEF TypeOK
    <2> QED
      BY <2>2, <2>3
  <1>2. ASSUME NEW n \in Nodes, NEW r \in Rankings, NotifyRanking(n, r)
        PROVE  OwnEvents'
    <2>1. /\ event' \in {event, [event EXCEPT ![Ranker] = [kind |-> "RankingChanged", subject |-> n]]}
          /\ opts' = opts
      BY <1>2 DEF NotifyRanking, Begin, givenVars
    <2> QED
      BY <2>1 DEF TypeOK, Connection
  <1>3. CASE NotifyDaily
    <2>1. /\ event' \in {event, [event EXCEPT ![Daily] = [kind |-> "DailySummary", subject |-> Today]]}
          /\ opts' = opts
      BY <1>3 DEF NotifyDaily, Begin, givenVars
    <2> QED
      BY <2>1 DEF TypeOK, Connection
  <1>4. ASSUME NEW c \in Callers, opts' = opts,
               event' \in {event, [event EXCEPT ![c] = NoEvent]}
        PROVE  OwnEvents'
    <2>1. \A x \in Callers : event'[x] \in {event[x], NoEvent}
      BY <1>4 DEF TypeOK
    <2>2. NoEvent.kind \notin Connection
      BY DEF NoEvent, Connection
    <2> QED
      BY <1>4, <2>1, <2>2
  <1>5. ASSUME NEW c \in Callers, Deliver(c)
        PROVE  OwnEvents'
    BY <1>4, <1>5, DeliverKeepsEvents
  <1>6. CASE RankingTimeout
    BY <1>4, <1>6 DEF RankingTimeout, Return, givenVars
  <1>7. CASE QuietBoundary \/ \E e \in Events : LimitElapses(e)
    BY <1>4, <1>7 DEF QuietBoundary, LimitElapses, givenVars, callVars
  <1> QED
    BY <1>1, <1>2, <1>3, <1>5, <1>6, <1>7 DEF Next

\* The clock is never read within quiet hours there are none of.
LEMMA StepQuiet == TypeOK /\ NeverQuiet /\ Next => NeverQuiet'
  <1> SUFFICES ASSUME TypeOK, NeverQuiet, Next, ~opts'.quietHours
               PROVE  ~quietNow' /\ \A c \in Callers : ~sawQuiet'[c]
    BY DEF NeverQuiet
  <1>1. ASSUME NEW c \in Callers, Deliver(c)
        PROVE  ~quietNow' /\ \A d \in Callers : ~sawQuiet'[d]
    <2>1. opts' = opts /\ quietNow' = quietNow
      BY <1>1, DeliverKeepsEvents
    <2>2. ~quietNow /\ \A d \in Callers : ~sawQuiet[d]
      BY <2>1 DEF NeverQuiet
    <2>3. \A d \in Callers : sawQuiet'[d] \in {sawQuiet[d], FALSE, quietNow}
      BY <1>1, DeliverKeepsEvents
    <2> QED
      BY <2>1, <2>2, <2>3
  <1>2. CASE RankingTimeout
    <2>1. opts' = opts /\ quietNow' = quietNow
      BY <1>2 DEF RankingTimeout, givenVars
    <2>2. sawQuiet' = [sawQuiet EXCEPT ![Ranker] = FALSE]
      BY <1>2 DEF RankingTimeout, Return
    <2> QED
      BY <2>1, <2>2 DEF NeverQuiet, TypeOK
  <1>3. CASE QuietBoundary
    <2>1. opts.quietHours /\ opts' = opts
      BY <1>3 DEF QuietBoundary
    <2> QED
      BY <2>1
  <1>4. ASSUME UNCHANGED <<opts, quietNow, sawQuiet>>
        PROVE  ~quietNow' /\ \A d \in Callers : ~sawQuiet'[d]
    BY <1>4 DEF NeverQuiet
  <1>5. CASE \/ \E m \in opts.monitors : NotifyFailed(m) \/ NotifyRecovered(m)
             \/ \E n \in Nodes, r \in Rankings : NotifyRanking(n, r)
             \/ NotifyDaily \/ \E e \in Events : LimitElapses(e)
    BY <1>4, <1>5 DEF NotifyFailed, NotifyRecovered, NotifyRanking, NotifyDaily, LimitElapses,
                      givenVars, callVars
  <1> QED
    BY <1>1, <1>2, <1>3, <1>5 DEF Next

\* Without the first of the last ones, the others are still the last ones.
LEMMA StillLast ==
    ASSUME NEW s \in Seq(Chats), NEW t \in Seq(Chats), t # <<>>, Len(s) - Len(t) >= 0,
           \A i \in 1..Len(t) : t[i] = s[Len(s) - Len(t) + i]
    PROVE  /\ Len(s) - Len(Tail(t)) >= 0
           /\ \A i \in 1..Len(Tail(t)) : Tail(t)[i] = s[Len(s) - Len(Tail(t)) + i]
  <1> DEFINE r == Tail(t)
  <1>1. /\ Len(r) = Len(t) - 1
        /\ \A i \in 1..Len(r) : r[i] = t[i + 1]
    OBVIOUS
  <1>2. Len(s) \in Nat /\ Len(t) \in Nat
    OBVIOUS
  <1> HIDE DEF r
  <1>3. Len(s) - Len(r) = Len(s) - Len(t) + 1
    BY <1>1, <1>2
  <1>4. ASSUME NEW i \in 1..Len(r)
        PROVE  r[i] = s[Len(s) - Len(r) + i]
    <2>1. i + 1 \in 1..Len(t) /\ r[i] = t[i + 1]
      BY <1>1, <1>2
    <2>2. t[i + 1] = s[Len(s) - Len(t) + (i + 1)]
      BY <2>1
    <2>3. Len(s) - Len(t) + (i + 1) = Len(s) - Len(r) + i
      BY <1>2, <1>3
    <2> QED
      BY <2>1, <2>2, <2>3
  <1>5. Len(s) - Len(r) >= 0
    BY <1>2, <1>3
  <1> QED
    BY <1>4, <1>5 DEF r

\* Recipients are taken from the front, and only from there.
LEMMA StepLeft == TypeOK /\ LeftInOrder /\ Next => LeftInOrder'
  <1> SUFFICES ASSUME TypeOK, LeftInOrder, Next, NEW d \in Callers
               PROVE  LastOnes(d)'
    BY DEF LeftInOrder
  <1>1. opts' = opts
    BY OptsKept
  <1>2. \/ left'[d] \in {left[d], <<>>, opts.chatIds}
        \/ left[d] # <<>> /\ left'[d] = Tail(left[d])
    <2>1. ASSUME NEW c \in Callers, Deliver(c), c = d
          PROVE  \/ left'[d] \in {left[d], <<>>, opts.chatIds}
                 \/ left[d] # <<>> /\ left'[d] = Tail(left[d])
      BY <2>1
      DEF TypeOK, Deliver, ReadClock, SuppressByRateLimit, BufferByQuietHours, Send, PostSummary,
          PostMessage
    <2>2. ASSUME NEW c \in Callers, Deliver(c), c # d
          PROVE  left'[d] = left[d]
      BY <2>2, DeliverKeepsEvents
    <2>3. CASE RankingTimeout
      BY <2>3, CallerTypes DEF RankingTimeout, TypeOK
    <2>4. CASE \/ \E m \in opts.monitors : NotifyFailed(m) \/ NotifyRecovered(m)
               \/ \E n \in Nodes, r \in Rankings : NotifyRanking(n, r)
               \/ NotifyDaily \/ QuietBoundary \/ \E e \in Events : LimitElapses(e)
      BY <2>4 DEF NotifyFailed, NotifyRecovered, NotifyRanking, NotifyDaily, QuietBoundary,
                  LimitElapses, callVars
    <2> QED
      BY <2>1, <2>2, <2>3, <2>4 DEF Next
  <1>3. CASE left'[d] = left[d]
    BY <1>1, <1>3 DEF LeftInOrder, LastOnes
  <1>4. CASE left'[d] = <<>>
    BY <1>1, <1>4, OptsType DEF LastOnes
  <1>5. CASE left'[d] = opts.chatIds
    BY <1>1, <1>5, OptsType DEF LastOnes
  <1>6. CASE left[d] # <<>> /\ left'[d] = Tail(left[d])
    <2>1. left[d] \in Seq(Chats)
      BY DEF TypeOK
    <2>2. /\ Len(opts.chatIds) - Len(left[d]) >= 0
          /\ \A i \in 1..Len(left[d]) :
                left[d][i] = opts.chatIds[Len(opts.chatIds) - Len(left[d]) + i]
      BY DEF LeftInOrder, LastOnes
    <2>3. /\ Len(opts.chatIds) - Len(Tail(left[d])) >= 0
          /\ \A i \in 1..Len(Tail(left[d])) :
                Tail(left[d])[i] = opts.chatIds[Len(opts.chatIds) - Len(Tail(left[d])) + i]
      BY <1>6, <2>1, <2>2, OptsType, StillLast
    <2> QED
      BY <1>1, <1>6, <2>3 DEF LastOnes
  <1> QED
    BY <1>2, <1>3, <1>4, <1>5, <1>6

\* A step that neither belongs to m nor posts or marks its key leaves what was
\* posted of it.
LEMMA Unconcerned ==
    ASSUME NEW m \in Monitors, WasPosted(m), opts' = opts,
           pc'[m] = pc[m], event'[m] = event[m], left'[m] = left[m],
           conn'[KeyOf[m]] = conn[KeyOf[m]],
           \A x \in Chats : posted'[x][KeyOf[m]] = posted[x][KeyOf[m]],
           opts.chatIds \in Seq(Chats)
    PROVE  WasPosted(m)'
  <1>1. \A i \in DOMAIN opts.chatIds :
            posted'[opts.chatIds[i]][KeyOf[m]] = posted[opts.chatIds[i]][KeyOf[m]]
    OBVIOUS
  <1>2. pc[m] = "message" =>
            \A i \in 1..Len(opts.chatIds) - Len(left[m]) : i \in DOMAIN opts.chatIds
    OBVIOUS
  <1> QED
    BY <1>1, <1>2 DEF WasPosted

\* A message of m's own changes what was posted to one chat under its key.
LEMMA OwnMessage ==
    ASSUME TypeOK, InStep, NEW m \in Monitors, m \in opts.monitors, WasPosted(m), PostMessage(m)
    PROVE  WasPosted(m)'
  <1> DEFINE k == KeyOf[m]
             n == Len(opts.chatIds)
             done == n - Len(left[m])
             said(i) == posted[opts.chatIds[i]][k]
  <1>1. /\ m \in Callers /\ left[m] \in Seq(Chats) /\ left[m] # <<>>
        /\ k \in Keys /\ opts.chatIds \in Seq(Chats)
    BY CallerTypes, OptsType, MonitorsAssumption DEF TypeOK, PostMessage
  <1>2. /\ pc[m] = "message" /\ event[m].kind \in Connection /\ event[m].subject = k
        /\ opts' = opts /\ conn' = conn
    BY <1>1 DEF PostMessage, TypeOK, InStep, OwnEvents, givenVars, stateVars
  <1>3. posted' = [posted EXCEPT ![Head(left[m])][k] = Says(event[m])]
    BY <1>2 DEF PostMessage, Connection
  <1>4. /\ Len(left[m]) \in Nat /\ Len(left[m]) >= 1 /\ n \in Nat /\ Head(left[m]) = left[m][1]
        /\ Head(left[m]) \in Chats
    BY <1>1
  <1>5. done \in 0..n - 1 /\ Head(left[m]) = opts.chatIds[done + 1]
    <2>1. done >= 0 /\ \A i \in 1..Len(left[m]) : left[m][i] = opts.chatIds[done + i]
      BY <1>1 DEF InStep, LeftInOrder, LastOnes
    <2>2. done = n - Len(left[m])
      OBVIOUS
    <2> HIDE DEF done, n
    <2>3. 1 \in 1..Len(left[m])
      BY <1>4
    <2>4. left[m][1] = opts.chatIds[done + 1]
      BY <2>1, <2>3
    <2>5. done \in 0..n - 1
      BY <1>4, <2>1, <2>2
    <2> QED
      BY <1>4, <2>4, <2>5
  <1>6. \A i \in DOMAIN opts.chatIds : opts.chatIds[i] \in Chats
    BY <1>1
  <1>7. DOMAIN opts.chatIds = 1..n
    BY <1>1
  <1> HIDE DEF n, done
  <1>8. ASSUME NEW i \in 1..n
        PROVE  /\ said(i)' \in {said(i), Says(event[m])}
               /\ i <= done + 1 => said(i)' = Says(event[m])
    <2>1. opts.chatIds[i] \in Chats
      BY <1>6, <1>7
    <2>2. said(i)' = IF opts.chatIds[i] = Head(left[m]) THEN Says(event[m]) ELSE said(i)
      BY <1>1, <1>2, <1>3, <1>4, <2>1 DEF TypeOK
    <2>3. i <= done => said(i) = Says(event[m])
      <3>1. \A j \in 1..done : said(j) = Says(event[m])
        BY <1>2 DEF WasPosted, done, n
      <3> QED
        BY <1>4, <1>5, <3>1
    <2>4. i = done + 1 => opts.chatIds[i] = Head(left[m])
      BY <1>5
    <2> QED
      BY <1>4, <1>5, <2>2, <2>3, <2>4
  <1>9. /\ event[m].kind = "ConnectionFailed" =>
              conn[k] = "Unhealthy" /\ Says(event[m]) = "failed"
        /\ event[m].kind = "ConnectionRecovered" =>
              /\ conn[k] = "Healthy" /\ Says(event[m]) = "recovered"
              /\ \A i \in 1..n : said(i) \in {"failed", "recovered"}
    BY <1>2, <1>7 DEF WasPosted, Says
  <1>10. CASE Len(left[m]) > 1
    <2>1. pc'[m] = "message" /\ event'[m] = event[m] /\ left'[m] = Tail(left[m])
      BY <1>1, <1>10 DEF PostMessage, TypeOK
    <2>2. Len(opts.chatIds) - Len(left'[m]) = done + 1
      <3>1. Len(left'[m]) = Len(left[m]) - 1
        BY <1>1, <2>1, Rest
      <3>2. done = n - Len(left[m]) /\ n = Len(opts.chatIds)
        BY DEF done, n
      <3> QED
        BY <1>4, <3>1, <3>2
    <2>3. \A i \in 1..done + 1 : said(i)' = Says(event[m])
      BY <1>4, <1>5, <1>8
    <2>4. event[m].kind = "ConnectionRecovered" =>
              \A i \in 1..n : said(i)' \in {"failed", "recovered"}
      BY <1>8, <1>9
    <2> QED
      BY <1>2, <1>7, <1>9, <2>1, <2>2, <2>3, <2>4 DEF WasPosted
  <1>11. CASE ~ (Len(left[m]) > 1)
    <2>1. pc'[m] = "idle"
      BY <1>1, <1>11 DEF PostMessage, Return, TypeOK
    <2>2. done + 1 = n
      BY <1>4, <1>11 DEF done
    <2>3. \A i \in 1..n : said(i)' = Says(event[m])
      BY <1>4, <1>8, <2>2
    <2>4. Agrees(Says(event[m]), conn[k])
      BY <1>2, <1>9 DEF Agrees, Connection
    <2> QED
      BY <1>2, <1>7, <2>1, <2>3, <2>4 DEF WasPosted
  <1> QED
    BY <1>10, <1>11

\* With keys of their own, no task makes the recipients of another one lag.
LEMMA StepPosted == DistinctKeys /\ TypeOK /\ InStep /\ Next => AllPosted'
  <1> SUFFICES ASSUME DistinctKeys, TypeOK, InStep, Next, Prompt', NEW m \in opts'.monitors
               PROVE  WasPosted(m)'
    BY DEF AllPosted
  <1>1. /\ opts' = opts /\ Prompt /\ m \in opts.monitors /\ m \in Monitors
        /\ m \in Callers /\ m # Ranker /\ m # Daily
        /\ KeyOf[m] \in Keys /\ opts.chatIds \in Seq(Chats)
    BY OptsKept, OptsType, CallerTypes, MonitorsAssumption DEF Prompt
  <1>2. WasPosted(m)
    BY <1>1 DEF InStep, AllPosted
  <1>3. ASSUME UNCHANGED <<conn, posted>>,
               pc'[m] = pc[m], event'[m] = event[m], left'[m] = left[m]
        PROVE  WasPosted(m)'
    BY <1>1, <1>2, <1>3, Unconcerned
  <1>4. ASSUME NEW n \in opts.monitors, n # m, NotifyFailed(n) \/ NotifyRecovered(n)
        PROVE  WasPosted(m)'
    <2>1. n \in Monitors /\ KeyOf[n] # KeyOf[m]
      BY <1>1, <1>4, OptsType DEF DistinctKeys
    <2>2. /\ pc'[m] = pc[m] /\ event'[m] = event[m] /\ left'[m] = left[m]
          /\ conn'[KeyOf[m]] = conn[KeyOf[m]] /\ posted' = posted
      BY <1>1, <1>4, <2>1 DEF NotifyFailed, NotifyRecovered, Begin, TypeOK
    <2> QED
      BY <1>1, <1>2, <2>2, Unconcerned
  <1>5. CASE NotifyFailed(m)
    <2>1. pc[m] = "idle" /\ UNCHANGED <<posted, left>> /\ conn'[KeyOf[m]] = "Unhealthy"
      BY <1>1, <1>5 DEF NotifyFailed, TypeOK
    <2>2. CASE conn[KeyOf[m]] = "Unhealthy"
      BY <1>1, <1>2, <1>5, <2>1, <2>2, Unconcerned DEF NotifyFailed, TypeOK
    <2>3. CASE conn[KeyOf[m]] # "Unhealthy"
      <3>1. pc'[m] = "clock" /\ event'[m].kind = "ConnectionFailed"
        BY <1>1, <1>5, <2>3 DEF NotifyFailed, Begin, Prompt, NotificationEventKind, TypeOK
      <3> QED
        BY <2>1, <3>1 DEF WasPosted
    <2> QED
      BY <2>2, <2>3
  <1>6. CASE NotifyRecovered(m)
    <2>1. pc[m] = "idle" /\ UNCHANGED <<posted, left>> /\ conn'[KeyOf[m]] = "Healthy"
      BY <1>1, <1>6 DEF NotifyRecovered, TypeOK
    <2>2. \A i \in DOMAIN opts.chatIds :
              Agrees(posted[opts.chatIds[i]][KeyOf[m]], conn[KeyOf[m]])
      BY <1>2, <2>1 DEF WasPosted
    <2>3. CASE conn[KeyOf[m]] # "Unhealthy"
      <3>1. pc'[m] = "idle"
        BY <1>6, <2>1, <2>3 DEF NotifyRecovered
      <3>2. conn[KeyOf[m]] \in {"unknown", "Healthy"}
        BY <1>1, <2>3 DEF TypeOK
      <3> QED
        BY <1>1, <2>1, <2>2, <3>1, <3>2 DEF WasPosted, Agrees
    <2>4. CASE conn[KeyOf[m]] = "Unhealthy"
      <3>1. pc'[m] = "clock" /\ event'[m].kind = "ConnectionRecovered"
        BY <1>1, <1>6, <2>4 DEF NotifyRecovered, Begin, Prompt, NotificationEventKind, TypeOK
      <3>2. \A i \in DOMAIN opts.chatIds : posted[opts.chatIds[i]][KeyOf[m]] = "failed"
        BY <2>2, <2>4 DEF Agrees
      <3> QED
        BY <1>1, <2>1, <3>1, <3>2 DEF WasPosted
    <2> QED
      BY <2>3, <2>4
  <1>7. CASE \/ \E n \in Nodes, r \in Rankings : NotifyRanking(n, r)
             \/ NotifyDaily \/ RankingTimeout \/ QuietBoundary \/ \E e \in Events : LimitElapses(e)
    <2>1. /\ UNCHANGED <<conn, posted>>
          /\ pc'[m] = pc[m] /\ event'[m] = event[m] /\ left'[m] = left[m]
      BY <1>1, <1>7 DEF NotifyRanking, NotifyDaily, RankingTimeout, QuietBoundary, LimitElapses,
                        Begin, Return, stateVars, callVars, TypeOK
    <2> QED
      BY <1>3, <2>1
  <1>8. ASSUME NEW c \in Callers, c # m, Deliver(c)
        PROVE  WasPosted(m)'
    <2>1. /\ conn' = conn /\ event'[m] = event[m] /\ pc'[m] = pc[m] /\ left'[m] = left[m]
      <3>1. event' \in {event, [event EXCEPT ![c] = NoEvent]}
        BY <1>8, DeliverKeepsEvents
      <3>2. event'[m] = event[m]
        BY <1>1, <1>8, <3>1 DEF TypeOK
      <3>3. \A d \in Callers \ {c} : pc'[d] = pc[d] /\ left'[d] = left[d]
        BY <1>8, DeliverKeepsEvents
      <3>4. conn' = conn
        BY <1>8, DeliverKeepsEvents
      <3> QED
        BY <1>1, <1>8, <3>2, <3>3, <3>4
    <2>2. CASE PostMessage(c)
      <3>1. CASE event[c].kind \in Connection
        <4>1. c \in Monitors /\ event[c] # NoEvent
          BY <1>8, <3>1 DEF InStep, OwnEvents, Callers, NoEvent, Connection
        <4>2. event[c].subject = KeyOf[c] /\ KeyOf[c] # KeyOf[m]
          BY <1>1, <1>8, <4>1 DEF InStep, OwnEvents, DistinctKeys
        <4>3. \A x \in Chats : posted'[x][KeyOf[m]] = posted[x][KeyOf[m]]
          BY <1>1, <2>2, <4>2 DEF PostMessage, TypeOK
        <4> QED
          BY <1>1, <1>2, <2>1, <4>3, Unconcerned
      <3>2. CASE event[c].kind \notin Connection
        <4>1. posted' = posted
          BY <2>2, <3>2 DEF PostMessage, Connection
        <4> QED
          BY <1>3, <2>1, <4>1
      <3> QED
        BY <3>1, <3>2
    <2>3. CASE ~ PostMessage(c)
      <3>1. posted' = posted
        BY <1>8, <2>3 DEF Deliver, ReadClock, SuppressByRateLimit, BufferByQuietHours, Send,
                          PostSummary
      <3> QED
        BY <1>3, <2>1, <3>1
    <2> QED
      BY <2>2, <2>3
  <1>9. CASE Deliver(m)
    <2>1. ~ SuppressByRateLimit(m) /\ ~ BufferByQuietHours(m)
      BY <1>1 DEF Prompt, SuppressByRateLimit, Suppressed, BufferByQuietHours, BufferIt, InStep,
                  NeverQuiet
    <2>2. CASE PostMessage(m)
      BY <1>1, <1>2, <2>2, OwnMessage
    <2>3. CASE ReadClock(m) \/ Send(m) \/ PostSummary(m)
      <3>1. /\ UNCHANGED <<conn, posted, event>> /\ pc[m] # "idle" /\ pc'[m] # "idle"
            /\ pc'[m] = "message" => left'[m] = opts.chatIds
        BY <1>1, <2>3 DEF ReadClock, Send, PostSummary, stateVars, TypeOK
      <3>2. pc'[m] = "message" => 1..Len(opts.chatIds) - Len(left'[m]) = {}
        <4>1. Len(opts.chatIds) \in Nat
          BY <1>1
        <4>2. \A x \in Nat : x - x = 0 /\ 1..0 = {}
          OBVIOUS
        <4>3. pc'[m] = "message" => Len(opts.chatIds) - Len(left'[m]) = 0
          BY <3>1, <4>1, <4>2
        <4> QED
          BY <4>2, <4>3
      <3> QED
        BY <1>1, <1>2, <3>1, <3>2 DEF WasPosted
    <2> QED
      BY <1>9, <2>1, <2>2, <2>3 DEF Deliver
  <1> QED
    BY <1>4, <1>5, <1>6, <1>7, <1>8, <1>9 DEF Next

\* The strengthening is an invariant.
LEMMA Invariance ==
    ASSUME DistinctKeys
    PROVE  Spec => [](TypeOK /\ InStep)
  <1>1. Init => InStep
    <2> SUFFICES ASSUME Init PROVE InStep
      OBVIOUS
    <2>1. NoEvent.kind \notin Connection
      BY DEF NoEvent, Connection
    <2>2. OwnEvents
      BY <2>1, CallerTypes DEF Init, OwnEvents
    <2>3. NeverQuiet
      BY DEF Init, NeverQuiet
    <2>4. /\ opts.chatIds \in Seq(Chats) /\ opts.monitors \subseteq Monitors
          /\ \A c \in Callers : left[c] = <<>>
      BY ConfigAssumption DEF Init, Config
    <2>5. LeftInOrder
      <3>1. Len(opts.chatIds) \in Nat /\ Len(<<>>) = 0 /\ 1..0 = {}
        BY <2>4
      <3>2. ASSUME NEW c \in Callers
            PROVE  LastOnes(c)
        <4>1. Len(left[c]) = 0
          BY <2>4, <3>1
        <4>2. 1..Len(left[c]) = {} /\ Len(opts.chatIds) - Len(left[c]) >= 0
          BY <3>1, <4>1
        <4> QED
          BY <4>2 DEF LastOnes
      <3> QED
        BY <3>2 DEF LeftInOrder
    <2>6. ASSUME NEW m \in opts.monitors
          PROVE  WasPosted(m)
      <3>1. m \in Callers /\ KeyOf[m] \in Keys
        BY <2>4, CallerTypes, MonitorsAssumption
      <3>2. pc[m] = "idle" /\ conn[KeyOf[m]] = "unknown"
        BY <3>1 DEF Init
      <3>3. \A i \in DOMAIN opts.chatIds : posted[opts.chatIds[i]][KeyOf[m]] = "nothing"
        BY <2>4, <3>1 DEF Init
      <3> QED
        BY <3>2, <3>3 DEF WasPosted, Agrees
    <2> QED
      BY <2>2, <2>3, <2>5, <2>6 DEF InStep, AllPosted
  <1>2. TypeOK /\ InStep /\ [Next]_vars => InStep'
    <2>1. CASE UNCHANGED vars
      BY <2>1 DEF vars, stateVars, givenVars, callVars, InStep, OwnEvents, NeverQuiet,
                  LeftInOrder, LastOnes, AllPosted, WasPosted, Prompt
    <2>2. ASSUME TypeOK, InStep, Next
          PROVE  InStep'
      BY <2>2, StepOwn, StepQuiet, StepLeft, StepPosted DEF InStep
    <2> QED
      BY <2>1, <2>2
  <1> QED
    BY <1>1, <1>2, TypeCorrect, PTL DEF Spec, Safety

\* Without quiet hours or a rate limit, and with a key of its own for every
\* endpoint, a node that is not being reported on was last posted to every chat as
\* what its collector last saw, requests that failed included.
THEOREM LatestStatePosted ==
    ASSUME DistinctKeys
    PROVE  Spec => []RecipientsInStep
  <1>1. InStep => RecipientsInStep
    BY DEF InStep, AllPosted, WasPosted, RecipientsInStep
  <1> QED
    BY <1>1, Invariance, PTL

\* Under the same configuration a recovery is posted to a chat only after the
\* outage was: both are attempts, a request that fails is only logged.
THEOREM RecoveriesAnswerOutages ==
    ASSUME DistinctKeys
    PROVE  Spec => RecoveriesFollowOutages
  <1> DEFINE Follows ==
        \A x \in Chats, k \in Keys :
            Prompt /\ posted[x][k] # "recovered" /\ posted'[x][k] = "recovered"
                => posted[x][k] = "failed"
  <1>1. TypeOK /\ InStep /\ [Next]_vars => [Follows]_vars
    <2> SUFFICES ASSUME TypeOK, InStep, Next, Prompt, NEW x \in Chats, NEW k \in Keys,
                        posted[x][k] # "recovered", posted'[x][k] = "recovered"
                 PROVE  posted[x][k] = "failed"
      OBVIOUS
    <2>1. PICK c \in Callers : PostMessage(c) /\ event[c].kind \in Connection
      BY DEF Next, NotifyFailed, NotifyRecovered, NotifyRanking, NotifyDaily, RankingTimeout,
             QuietBoundary, LimitElapses, Deliver, ReadClock, SuppressByRateLimit,
             BufferByQuietHours, Send, PostSummary, PostMessage, Connection
    <2>2. c \in Monitors /\ event[c] # NoEvent
      BY <2>1 DEF InStep, OwnEvents, Callers, NoEvent, Connection
    <2>3. c \in opts.monitors /\ event[c].subject = KeyOf[c] /\ KeyOf[c] \in Keys
      BY <2>2, MonitorsAssumption DEF InStep, OwnEvents
    <2>4. posted' = [posted EXCEPT ![Head(left[c])][KeyOf[c]] = Says(event[c])]
      BY <2>1, <2>3 DEF PostMessage, Connection
    <2>5. x = Head(left[c]) /\ k = KeyOf[c] /\ Says(event[c]) = "recovered"
      BY <2>3, <2>4 DEF TypeOK
    <2>6. event[c].kind = "ConnectionRecovered"
      <3>1. event[c].kind = "ConnectionFailed" => Says(event[c]) = "failed"
        BY DEF Says
      <3>2. event[c].kind \in {"ConnectionFailed", "ConnectionRecovered"}
        BY <2>1 DEF Connection
      <3> QED
        BY <2>5, <3>1, <3>2
    <2>7. \A i \in DOMAIN opts.chatIds : posted[opts.chatIds[i]][k] \in {"failed", "recovered"}
      <3>1. WasPosted(c) /\ pc[c] = "message"
        BY <2>1, <2>3 DEF InStep, AllPosted, PostMessage
      <3> QED
        BY <2>5, <2>6, <3>1 DEF WasPosted
    <2>8. PICK i \in DOMAIN opts.chatIds : x = opts.chatIds[i]
      <3> DEFINE n == Len(opts.chatIds)
                 done == n - Len(left[c])
      <3>1. /\ left[c] \in Seq(Chats) /\ left[c] # <<>> /\ opts.chatIds \in Seq(Chats)
        BY <2>1, OptsType DEF TypeOK, PostMessage
      <3>2. done >= 0 /\ \A i \in 1..Len(left[c]) : left[c][i] = opts.chatIds[done + i]
        BY DEF InStep, LeftInOrder, LastOnes
      <3>3. /\ Len(left[c]) \in Nat /\ Len(left[c]) >= 1 /\ n \in Nat /\ DOMAIN opts.chatIds = 1..n
            /\ Head(left[c]) = left[c][1]
        BY <3>1
      <3>4. done = n - Len(left[c])
        OBVIOUS
      <3> HIDE DEF n, done
      <3>5. done + 1 \in 1..n /\ 1 \in 1..Len(left[c])
        BY <3>2, <3>3, <3>4
      <3>6. Head(left[c]) = opts.chatIds[done + 1]
        BY <3>2, <3>3, <3>5
      <3> QED
        BY <2>5, <3>3, <3>5, <3>6
    <2> QED
      BY <2>7, <2>8
  <1>2. Spec => [][Follows]_vars
    BY <1>1, Invariance, PTL DEF Spec, Safety
  <1> QED
    BY <1>2 DEF RecoveriesFollowOutages
=============================================================================
