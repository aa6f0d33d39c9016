----------------------------- MODULE SystemStats -----------------------------
(***************************************************************************)
(* The system statistics (collect/system_stats.rs, SystemState of          *)
(* collect/data.rs) and the selection of a disk by key (app.rs).  Each     *)
(* action ends where the task awaits or unlocks; disks are mounted, filled *)
(* and unmounted at any time.                                              *)
(***************************************************************************)
EXTENDS Filters

CONSTANTS
    Mounts,             \* every mount point, in the order the system lists them
    Manual,             \* --disk-mount-points
    DiscoveryInterval,  \* in units of time between ticks
    Waits,              \* times that may lie between two ticks
    MaxTotal,           \* bound: the traffic counter
    None

Disks == {Mounts[i] : i \in DOMAIN Mounts}

ASSUME MountsAssumption ==
    /\ Mounts \in Seq(Disks)
    /\ \A i, j \in DOMAIN Mounts : Mounts[i] = Mounts[j] => i = j
ASSUME OptionsAssumption == Manual \subseteq Disks /\ DiscoveryInterval \in Nat /\ None \notin Nat
ASSUME BoundsAssumption == Waits \subseteq Nat /\ MaxTotal \in Nat

VARIABLES
    mounted,        \* the disks there are
    full,           \* those at or above the alert threshold
    total,          \* bytes received, by the interfaces there are
    stop,           \* the stop flag
    auto,           \* --disk-auto-discovery
    place,          \* "waiting", "discovering", "sampling", "publishing", "announcing", "ended"
    age,            \* time since the last successful discovery
    wait,           \* time since the last sample
    discovered,     \* the mount points found by discovery
    previous,       \* the traffic counter of the last sample, or None
    sample,         \* the snapshot on its way to the shared data
    stats,          \* SystemStats in the shared data
    wasAlert,       \* what replace_stats returned
    said,           \* the last message about disks: "none", "warn", "info"
    warned,         \* disks whose present alert a warning has counted
    unshown         \* bytes received that no rate has accounted for

machineVars == <<mounted, full, total>>
taskVars == <<place, age, wait, discovered, previous, sample, wasAlert>>
vars == <<machineVars, stop, auto, taskVars, stats, said, warned, unshown>>

\* Disks are listed in the order of their mount points.
Listed(S) == Filtered(Mounts, S)

Lists == {Listed(S) : S \in SUBSET Disks}
NoSample == [disks |-> <<>>, alerts |-> {}, total |-> 0]

TypeOK ==
    /\ mounted \subseteq Disks /\ full \subseteq Disks
    /\ total \in 0..MaxTotal /\ unshown \in Int
    /\ stop \in BOOLEAN /\ auto \in BOOLEAN
    /\ place \in {"waiting", "discovering", "sampling", "publishing", "announcing", "ended"}
    /\ age \in 0..DiscoveryInterval /\ wait \in Waits \cup {0}
    /\ discovered \subseteq Disks
    /\ previous \in 0..MaxTotal \cup {None}
    /\ sample \in [disks : Lists, alerts : SUBSET Disks, total : 0..MaxTotal]
    /\ stats \in [disks : Lists, alerts : SUBSET Disks, index : Nat, rate : Nat]
    /\ wasAlert \in BOOLEAN
    /\ said \in {"none", "warn", "info"} /\ warned \subseteq Disks
    /\ stats.index < Len(stats.disks) \/ stats.index = 0

Init ==
    /\ mounted \in SUBSET Disks
    /\ full \in SUBSET mounted
    /\ total = 0
    /\ stop = FALSE
    /\ auto \in BOOLEAN
    /\ place = "waiting"
    /\ age = 0 /\ wait = 0
    /\ discovered = {}
    /\ previous = None
    /\ sample = NoSample
    /\ stats = [disks |-> <<>>, alerts |-> {}, index |-> 0, rate |-> 0]
    /\ wasAlert = FALSE
    /\ said = "none" /\ warned = {}
    /\ unshown = 0

-----------------------------------------------------------------------------
(* The task.                                                               *)

StopSeen ==
    /\ place = "waiting" /\ stop
    /\ place' = "ended"
    /\ UNCHANGED <<machineVars, stop, auto, age, wait, discovered, previous, sample, stats,
                   wasAlert, said, warned, unshown>>

\* The stop flag is read before the wait: a stop during it is seen after the
\* next sample.
Tick(w) ==
    /\ place = "waiting"
    /\ wait' = w
    /\ age' = IF age + w < DiscoveryInterval THEN age + w ELSE DiscoveryInterval
    /\ place' = IF auto /\ age' = DiscoveryInterval THEN "discovering" ELSE "sampling"
    /\ UNCHANGED <<machineVars, stop, auto, discovered, previous, sample, stats, wasAlert,
                   said, warned, unshown>>

Discovered ==
    /\ place = "discovering"
    /\ discovered' = mounted
    /\ age' = 0
    /\ place' = "sampling"
    /\ UNCHANGED <<machineVars, stop, auto, wait, previous, sample, stats, wasAlert, said, warned, unshown>>

\* Mutant: what was found before is forgotten.
DiscoveryFailsEmpty ==
    /\ place = "discovering"
    /\ discovered' = {}
    /\ place' = "sampling"
    /\ UNCHANGED <<machineVars, stop, auto, age, wait, previous, sample, stats, wasAlert, said, warned, unshown>>

\* A warning; the old list stays, and the next tick tries again.
DiscoveryFails ==
    /\ place = "discovering"
    /\ place' = "sampling"
    /\ UNCHANGED <<machineVars, stop, auto, age, wait, discovered, previous, sample, stats,
                   wasAlert, said, warned, unshown>>

Monitored == IF auto THEN discovered \cup Manual ELSE Manual

\* The blocking task: the disks there are, of those to be monitored.
TakeSample ==
    /\ place = "sampling"
    /\ sample' = [disks |-> Listed(mounted \cap Monitored), alerts |-> full \cap Monitored,
                  total |-> total]
    /\ place' = "publishing"
    /\ UNCHANGED <<machineVars, stop, auto, age, wait, discovered, previous, stats, wasAlert,
                   said, warned, unshown>>

\* The blocking task panics: an error message, and the task ends.
SampleFails ==
    /\ place = "sampling"
    /\ place' = "ended"
    /\ UNCHANGED <<machineVars, stop, auto, age, wait, discovered, previous, sample, stats,
                   wasAlert, said, warned, unshown>>

\* compute_network_rates: interfaces may be gone, and no time may have passed.
Rate ==
    IF previous = None \/ wait = 0 \/ sample.total < previous THEN 0
    ELSE (sample.total - previous) \div wait

\* Mutant: the index of the sample is taken, which is always 0.
KeptIndexReset(disks) == 0

\* Mutant: the list may be shorter than the index.
KeptIndexUnclamped(disks) == stats.index

KeptIndex(disks) ==
    IF disks = <<>> THEN 0
    ELSE IF stats.index < Len(disks) THEN stats.index ELSE Len(disks) - 1

\* Mutant: the first sample stays the one that rates are taken from.
NextPreviousFirst == previous' = IF previous = None THEN sample.total ELSE previous

NextPrevious == previous' = sample.total

\* Mutant: the flag is read after the statistics were replaced.
AlertBeforeLate == wasAlert' = (sample.alerts # {})

AlertBefore == wasAlert' = (stats.alerts # {})

\* replace_system_stats, in one locked section.
Publish ==
    /\ place = "publishing"
    /\ stats' = [disks |-> sample.disks, alerts |-> sample.alerts,
                 index |-> KeptIndex(sample.disks), rate |-> Rate]
    /\ AlertBefore
    /\ NextPrevious
    /\ unshown' = unshown - Rate * wait
    /\ place' = "announcing"
    /\ wait' = 0
    /\ UNCHANGED <<machineVars, stop, auto, age, discovered, sample, said, warned>>

\* A message when the alert begins and when it ends, in a section of its own.
Announce ==
    /\ place = "announcing"
    /\ LET begins == sample.alerts # {} /\ ~wasAlert
           over == sample.alerts = {} /\ wasAlert
       IN /\ said' = IF begins THEN "warn" ELSE IF over THEN "info" ELSE said
          /\ warned' = IF begins THEN sample.alerts ELSE warned \cap sample.alerts
    /\ place' = "waiting"
    /\ sample' = NoSample
    /\ wasAlert' = FALSE
    /\ UNCHANGED <<machineVars, stop, auto, age, wait, discovered, previous, stats, unshown>>

-----------------------------------------------------------------------------
(* The keys.  The list is read and the index updated under one lock.       *)

Select(index) ==
    /\ Len(stats.disks) > 1
    /\ stats' = [stats EXCEPT !.index = index]
    /\ UNCHANGED <<machineVars, stop, auto, taskVars, said, warned, unshown>>

Tab == Select((stats.index + 1) % Len(stats.disks))

ShiftTab == Select(IF stats.index = 0 THEN Len(stats.disks) - 1 ELSE stats.index - 1)

Quit ==
    /\ ~stop /\ stop' = TRUE
    /\ UNCHANGED <<machineVars, auto, taskVars, stats, said, warned, unshown>>

-----------------------------------------------------------------------------
(* The machine.                                                            *)

Mount(d) ==
    /\ mounted' = IF d \in mounted THEN mounted \ {d} ELSE mounted \cup {d}
    /\ full' = full \ {d}
    /\ UNCHANGED <<total, stop, auto, taskVars, stats, said, warned, unshown>>

Fill(d) ==
    /\ d \in mounted
    /\ full' = IF d \in full THEN full \ {d} ELSE full \cup {d}
    /\ UNCHANGED <<mounted, total, stop, auto, taskVars, stats, said, warned, unshown>>

Receive ==
    /\ total < MaxTotal /\ unshown < MaxTotal
    /\ total' = total + 1
    /\ unshown' = unshown + 1
    /\ UNCHANGED <<mounted, full, stop, auto, taskVars, stats, said, warned>>

\* An interface goes away with its counter.
InterfaceLeaves ==
    /\ total > 0 /\ total' = 0
    /\ UNCHANGED <<mounted, full, stop, auto, taskVars, stats, said, warned, unshown>>

\* The machine is looked at by discovery and by the sample only.
Machine ==
    /\ place \in {"discovering", "sampling"}
    /\ \/ \E d \in Disks : Mount(d) \/ Fill(d)
       \/ Receive \/ InterfaceLeaves

Next ==
    \/ StopSeen
    \/ \E w \in Waits : Tick(w)
    \/ Discovered \/ DiscoveryFails
    \/ TakeSample \/ SampleFails
    \/ Publish \/ Announce
    \/ Tab \/ ShiftTab \/ Quit
    \/ Machine

\* Time passes and the blocking tasks end.
Passes == \E w \in Waits \ {0} : Tick(w)

Fairness ==
    /\ WF_vars(StopSeen) /\ SF_vars(Passes)
    /\ WF_vars(Discovered \/ DiscoveryFails)
    /\ WF_vars(TakeSample \/ SampleFails)
    /\ WF_vars(Publish) /\ WF_vars(Announce)

Spec == Init /\ [][Next]_vars /\ Fairness

-----------------------------------------------------------------------------
(* Correctness.                                                            *)

Shown == {stats.disks[i] : i \in DOMAIN stats.disks}

\* Only keys and a list that became too short move the selection: a refresh,
\* whose statistics carry index 0, keeps it (SystemState::replace_stats).
SelectionKept ==
    [][place = "publishing" /\ place' = "announcing" /\ stats.index < Len(stats'.disks)
          => stats'.index = stats.index]_vars

\* Whenever the task rests, the last message about disks says whether any disk
\* is over the threshold now (replace_system_stats and the messages after it).
AlertsAnnounced ==
    place = "waiting" => (stats.alerts # {} <=> said = "warn")

\* The rates shown never add up to more bytes than were received: none is
\* counted for two samples, or for an interface that left (compute_network_rates).
NoByteCountedTwice == unshown >= 0

\* A disk that stays mounted is shown in the end and remains so, if it was
\* named or discovery goes on succeeding, and one that stays away is not shown.
DisksTracked ==
    \A d \in Disks :
        /\ <>[](d \in mounted)
              /\ (d \in Manual \/ (auto /\ []<><<Discovered>>_vars))
              /\ []<><<Publish>>_vars
           => <>[](d \in Shown)
        /\ <>[](d \notin mounted) /\ []<><<Publish>>_vars => <>[](d \notin Shown)

\* README.md: when any disk reaches the threshold, the status bar shows an
\* alert (the warning after replace_system_stats).
EveryAlertAnnounced == place = "waiting" => stats.alerts \subseteq warned
=============================================================================
