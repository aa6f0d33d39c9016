------------------------- MODULE BlockSubscription --------------------------
(***************************************************************************)
(* The block subscription (collect/block_subscription.rs): endpoints are   *)
(* tried in order, blocks are sampled while the stream lasts, and after a  *)
(* failure everything starts again from the first endpoint.  Each action   *)
(* ends where the task awaits.                                             *)
(***************************************************************************)
EXTENDS ChainSamples

CONSTANTS
    EndpointCount,
    NoHead

HeadOf(b) == [number |-> b.number, time |-> b.time]
Heads == {HeadOf(b) : b \in Blocks}

ASSUME EndpointsAssumption == EndpointCount \in Nat \ {0} /\ NoHead \notin Heads

VARIABLES
    place,          \* "connecting", "subscribing", "streaming", "fetching", "pausing", "ended"
    endpoint,       \* the endpoint being tried or used
    head,           \* the block header whose block is being fetched
    stop,           \* the stop flag
    up              \* the endpoints that can be reached

taskVars == <<place, endpoint, head>>
vars == <<chainVars, taskVars, stop, up>>

Endpoints == 1..EndpointCount

TypeOK ==
    /\ ChainTypeOK
    /\ place \in {"connecting", "subscribing", "streaming", "fetching", "pausing", "ended"}
    /\ endpoint \in Endpoints
    /\ head \in Heads \cup {NoHead}
    /\ head # NoHead <=> place = "fetching"
    /\ stop \in BOOLEAN
    /\ up \subseteq Endpoints

Init ==
    /\ ChainInit
    /\ place = "connecting"
    /\ endpoint = 1
    /\ head = NoHead
    /\ stop = FALSE
    /\ up \in SUBSET Endpoints

-----------------------------------------------------------------------------
\* Mutant: the stop flag is read in the stream only.
AgainAlways == endpoint' = 1 /\ place' = "connecting"

\* The top of the loop, where the stop flag is read.
Again == endpoint' = 1 /\ place' = IF stop THEN "ended" ELSE "connecting"

Pause == place' = "pausing" /\ UNCHANGED endpoint

\* Mutant: after the last endpoint there is no further attempt.
NextEndpointGivesUp ==
    IF endpoint < EndpointCount
    THEN endpoint' = endpoint + 1 /\ place' = "connecting"
    ELSE place' = "ended" /\ UNCHANGED endpoint

\* A warning, and on to the next endpoint; after the last one, a pause.
NextEndpoint ==
    IF endpoint < EndpointCount
    THEN endpoint' = endpoint + 1 /\ place' = "connecting"
    ELSE Pause

Connect ==
    /\ place = "connecting"
    /\ IF endpoint \in up
       THEN place' = "subscribing" /\ UNCHANGED endpoint
       ELSE NextEndpoint
    /\ UNCHANGED <<chainVars, head, stop, up>>

\* Subscribing answers, or fails although the connection stands.
Subscribe ==
    /\ place = "subscribing" /\ endpoint \in up
    /\ place' = "streaming"
    /\ UNCHANGED <<chainVars, endpoint, head, stop, up>>

SubscribeFails ==
    /\ place = "subscribing" /\ endpoint \notin up
    /\ NextEndpoint
    /\ UNCHANGED <<chainVars, head, stop, up>>

\* The stop flag is read before each wait, and after each retry delay.
StopSeen ==
    /\ place = "streaming" /\ stop
    /\ place' = "ended"
    /\ UNCHANGED <<chainVars, endpoint, head, stop, up>>

HeadArrives(h) ==
    /\ place = "streaming" /\ endpoint \in up
    /\ head' = h
    /\ place' = "fetching"
    /\ UNCHANGED <<chainVars, endpoint, stop, up>>

\* The stream ends, or the block cannot be fetched: a warning and a pause,
\* unless the stop flag is seen first.
ConnectionFails ==
    /\ \/ place = "streaming" /\ endpoint \notin up
       \/ place = "fetching"
    /\ head' = NoHead
    /\ IF stop THEN place' = "ended" /\ UNCHANGED endpoint ELSE Pause
    /\ UNCHANGED <<chainVars, stop, up>>

\* Mutant: only the retry delay lets the stop flag be seen.
BackToStreamLate == place' = "streaming" /\ head' = NoHead

\* The next turn of the inner loop, which begins with the stop flag.
BackToStream ==
    /\ place' = IF stop THEN "ended" ELSE "streaming"
    /\ head' = NoHead

\* The node does not have the block: no sample.
SkipBlock ==
    /\ place = "fetching" /\ endpoint \in up
    /\ BackToStream
    /\ UNCHANGED <<chainVars, endpoint, stop, up>>

\* The block is fetched by the number of the header.
BlockArrives(b) ==
    /\ place = "fetching" /\ endpoint \in up
    /\ HeadOf(b) = head
    /\ RecordBlockSample(b)
    /\ BackToStream
    /\ UNCHANGED <<endpoint, stop, up>>

PauseEnds ==
    /\ place = "pausing"
    /\ Again
    /\ UNCHANGED <<chainVars, head, stop, up>>
-----------------------------------------------------------------------------
(* The environment: the event loop and the endpoints.                      *)

Widgets ==
    /\ UpdateTxsWidget \/ UpdateTimeWidget
    /\ UNCHANGED <<taskVars, stop, up>>

Quit ==
    /\ ~stop /\ stop' = TRUE
    /\ UNCHANGED <<chainVars, taskVars, up>>

EndpointChanges(e) ==
    /\ up' = IF e \in up THEN up \ {e} ELSE up \cup {e}
    /\ UNCHANGED <<chainVars, taskVars, stop>>

Next ==
    \/ Connect \/ Subscribe \/ SubscribeFails \/ StopSeen \/ ConnectionFails \/ PauseEnds
    \/ \E h \in Heads : HeadArrives(h)
    \/ SkipBlock
    \/ \E b \in Blocks : BlockArrives(b)
    \/ Widgets
    \/ Quit
    \/ \E e \in Endpoints : EndpointChanges(e)

\* Connection attempts, requests and delays end, a lost connection is noticed,
\* and the event loop goes on; nothing is assumed of the endpoints.
FetchEnds == SkipBlock \/ (place = "fetching" /\ ConnectionFails)

Fairness ==
    /\ WF_vars(Connect) /\ WF_vars(Subscribe \/ SubscribeFails)
    /\ WF_vars(StopSeen) /\ WF_vars(FetchEnds) /\ WF_vars(ConnectionFails)
    /\ WF_vars(PauseEnds)

Spec == Init /\ [][Next]_vars /\ Fairness

-----------------------------------------------------------------------------
(* Correctness.                                                            *)

\* A block recorded after the stop flag was set is the last one: nothing is
\* sampled into a dashboard that is shutting down.
LastSampleAfterStop == [][stop /\ samples' # samples => place' = "ended"]_vars

\* README.md: after an interruption the subscription is retried.  As long as
\* some endpoint can be reached from some time on, the stream is back again
\* and again, whichever endpoints fail (run_block_subscription_loop).
Reconnects ==
    \A e \in Endpoints :
        <>[](e \in up) => []<>(place \in {"streaming", "fetching"} \/ (place = "ended" /\ stop))

\* The loop ends after the stop flag is set, wherever it waits.
Ends == stop ~> place = "ended"
=============================================================================
