-------------------------- MODULE SystemStatsProofs --------------------------
(***************************************************************************)
(* For any disks, options, waits and traffic: the last message about disks *)
(* agrees with the statistics whenever the task rests, and no byte is      *)
(* counted twice.                                                          *)
(***************************************************************************)
EXTENDS SystemStats, SequenceLemmas

Places == {"waiting", "discovering", "sampling", "publishing", "announcing", "ended"}

\* The part of TypeOK the proofs need: counters, flags and the shape of what is
\* published, whatever the disks are.
Types ==
    /\ total \in Nat /\ wait \in Nat
    /\ previous \in Nat \cup {None}
    /\ place \in Places
    /\ sample.total \in Nat
    /\ stats = [disks |-> stats.disks, alerts |-> stats.alerts,
                index |-> stats.index, rate |-> stats.rate]

\* The message lags behind the statistics between two locked sections only, and
\* there wasAlert still knows what it says.
AlertsInStep ==
    /\ place = "announcing" =>
          sample.alerts = stats.alerts /\ (wasAlert <=> said = "warn")
    /\ place # "announcing" => (stats.alerts # {} <=> said = "warn")

\* What no rate has accounted for covers what the next rate can count.
Unaccounted ==
    /\ unshown \in Int /\ unshown >= 0
    /\ previous # None => unshown >= total - previous
    /\ place = "publishing" => sample.total = total

IInv == Types /\ AlertsInStep /\ Unaccounted

\* A rate times the time it is taken over is at most what was received in it.
LEMMA QuotientBound ==
    ASSUME NEW a \in Nat, NEW b \in Nat, b # 0
    PROVE  a \div b \in Nat /\ (a \div b) * b <= a
  OBVIOUS

\* compute_network_rates never counts more than the new bytes.
LEMMA RateBound ==
    ASSUME Types, Unaccounted, place = "publishing"
    PROVE  Rate * wait \in Nat /\ Rate * wait <= unshown
  <1>1. CASE previous = None \/ wait = 0 \/ sample.total < previous
    <2>1. Rate = 0
      BY <1>1 DEF Rate
    <2> QED
      BY <2>1 DEF Types, Unaccounted
  <1>2. CASE ~(previous = None \/ wait = 0 \/ sample.total < previous)
    <2>1. Rate = (sample.total - previous) \div wait
      BY <1>2 DEF Rate
    <2>2. previous \in Nat /\ sample.total \in Nat /\ sample.total - previous \in Nat
      BY <1>2 DEF Types
    <2>3. /\ (sample.total - previous) \div wait \in Nat
          /\ ((sample.total - previous) \div wait) * wait <= sample.total - previous
      BY <1>2, <2>2, QuotientBound DEF Types
    <2>4. sample.total - previous <= unshown
      BY <1>2 DEF Unaccounted
    <2>5. ((sample.total - previous) \div wait) * wait \in Nat
      BY <2>3 DEF Types
    <2> QED
      BY <2>1, <2>2, <2>3, <2>4, <2>5 DEF Unaccounted
  <1> QED
    BY <1>1, <1>2

\* The task starts with nothing sampled, shown or received.
LEMMA InitIInv == Init => IInv
  BY OptionsAssumption DEF Init, IInv, Types, Places, AlertsInStep, Unaccounted, NoSample

\* The steps that replace nothing the invariant speaks of, except the place.
LEMMA WaitingSteps ==
    ASSUME IInv, StopSeen \/ (\E w \in Waits : Tick(w)) \/ Discovered \/ DiscoveryFails \/ SampleFails \/ Quit
    PROVE  IInv'
  <1>1. CASE StopSeen \/ SampleFails
    BY <1>1 DEF IInv, Types, Places, AlertsInStep, Unaccounted, StopSeen, SampleFails, machineVars
  <1>2. ASSUME NEW w \in Waits, Tick(w) PROVE IInv'
    BY <1>2, BoundsAssumption
    DEF IInv, Types, Places, AlertsInStep, Unaccounted, Tick, machineVars
  <1>3. CASE Discovered \/ DiscoveryFails
    BY <1>3 DEF IInv, Types, Places, AlertsInStep, Unaccounted, Discovered, DiscoveryFails, machineVars
  <1>4. CASE Quit
    BY <1>4 DEF IInv, Types, AlertsInStep, Unaccounted, Quit, machineVars, taskVars
  <1> QED
    BY <1>1, <1>2, <1>3, <1>4

\* The sample is taken while nothing can be received.
LEMMA TakeSampleStep == IInv /\ TakeSample => IInv'
  BY DEF IInv, Types, Places, AlertsInStep, Unaccounted, TakeSample, machineVars

\* The statistics and what preceded them change in one locked section.
LEMMA PublishStep == IInv /\ Publish => IInv'
  <1> SUFFICES ASSUME IInv, Publish PROVE IInv'
    OBVIOUS
  <1>1. Rate * wait \in Nat /\ Rate * wait <= unshown
    BY RateBound DEF IInv, Publish
  <1>2. Types'
    BY DEF IInv, Types, Places, Publish, NextPrevious, machineVars
  <1>3. AlertsInStep'
    BY DEF IInv, Types, AlertsInStep, Publish, AlertBefore
  <1>4. Unaccounted'
    BY <1>1 DEF IInv, Types, Unaccounted, Publish, NextPrevious, machineVars
  <1> QED
    BY <1>2, <1>3, <1>4 DEF IInv

\* The message catches up with the statistics.
LEMMA AnnounceStep == IInv /\ Announce => IInv'
  <1> SUFFICES ASSUME IInv, Announce PROVE IInv'
    OBVIOUS
  <1>1. Types'
    BY DEF IInv, Types, Places, Announce, machineVars, NoSample
  <1>2. AlertsInStep'
    BY DEF IInv, AlertsInStep, Announce
  <1>3. Unaccounted'
    BY DEF IInv, Unaccounted, Announce, machineVars
  <1> QED
    BY <1>1, <1>2, <1>3 DEF IInv

\* A key moves the selection only.
LEMMA KeyStep == IInv /\ (Tab \/ ShiftTab) => IInv'
  <1> SUFFICES ASSUME IInv, NEW index, Select(index) PROVE IInv'
    BY DEF Tab, ShiftTab
  <1>1. /\ stats'.disks = stats.disks /\ stats'.alerts = stats.alerts
        /\ stats' = [disks |-> stats'.disks, alerts |-> stats'.alerts,
                     index |-> stats'.index, rate |-> stats'.rate]
    BY DEF IInv, Types, Select
  <1> QED
    BY <1>1 DEF IInv, Types, AlertsInStep, Unaccounted, Select, machineVars, taskVars

\* Whatever is received is unaccounted for at first; a counter that falls
\* leaves nothing to be counted.
LEMMA MachineStep == IInv /\ Machine => IInv'
  <1> SUFFICES ASSUME IInv, Machine PROVE IInv'
    OBVIOUS
  <1>1. ASSUME NEW d \in Disks, Mount(d) \/ Fill(d) PROVE IInv'
    BY <1>1 DEF IInv, Types, AlertsInStep, Unaccounted, Mount, Fill, taskVars
  <1>2. CASE Receive
    BY <1>2 DEF IInv, Types, AlertsInStep, Unaccounted, Machine, Receive, taskVars
  <1>3. CASE InterfaceLeaves
    BY <1>3 DEF IInv, Types, AlertsInStep, Unaccounted, Machine, InterfaceLeaves, taskVars
  <1> QED
    BY <1>1, <1>2, <1>3 DEF Machine

\* Every step keeps the invariant.
LEMMA StepIInv == IInv /\ [Next]_vars => IInv'
  <1>1. IInv /\ UNCHANGED vars => IInv'
    BY DEF vars, machineVars, taskVars, IInv, Types, AlertsInStep, Unaccounted
  <1> QED
    BY <1>1, WaitingSteps, TakeSampleStep, PublishStep, AnnounceStep, KeyStep, MachineStep DEF Next

\* It holds in every reachable state.
LEMMA Invariance == Spec => []IInv
  BY InitIInv, StepIInv, PTL DEF Spec

-----------------------------------------------------------------------------
\* Whenever the task rests, the last message about disks says whether any disk
\* is over the threshold: for any disks, named or discovered, and any failures
\* (replace_system_stats and the messages after it).
THEOREM MessagesAgree == Spec => []AlertsAnnounced
  <1>1. IInv => AlertsAnnounced
    BY DEF IInv, AlertsInStep, AlertsAnnounced
  <1> QED
    BY <1>1, Invariance, PTL

\* No byte is counted twice, for any traffic and any times between the ticks
\* (compute_network_rates).
THEOREM BytesCountedOnce == Spec => []NoByteCountedTwice
  <1>1. IInv => NoByteCountedTwice
    BY DEF IInv, Unaccounted, NoByteCountedTwice
  <1> QED
    BY <1>1, Invariance, PTL

-----------------------------------------------------------------------------
(* Types and the selection.                                                *)

\* Both invariants together.
TInv == TypeOK /\ IInv

\* A list of disks is a sequence of them, and the empty one is a list.
LEMMA ListsType ==
    /\ Lists \subseteq Seq(Disks) /\ <<>> \in Lists
    /\ \A S \in SUBSET Disks : Listed(S) \in Lists
  <1>1. ASSUME NEW S \in SUBSET Disks
        PROVE  Listed(S) \in Seq(Disks \cap S)
    BY MountsAssumption, FilteredType DEF Listed
  <1>2. Lists \subseteq Seq(Disks)
    <2> SUFFICES ASSUME NEW S \in SUBSET Disks PROVE Listed(S) \in Seq(Disks)
      BY DEF Lists
    <2>1. Disks \cap S \subseteq Disks
      OBVIOUS
    <2> QED
      BY <1>1, <2>1
  <1>3. Listed({}) = <<>>
    <2>1. Listed({}) \in Seq({})
      BY <1>1
    <2> DEFINE l == Listed({})
    <2>2. l \in Seq({})
      BY <2>1
    <2> HIDE DEF l
    <2>3. l = <<>>
      BY <2>2
    <2> QED
      BY <2>3 DEF l
  <1>4. \A S \in SUBSET Disks : Listed(S) \in Lists
    BY DEF Lists
  <1>5. <<>> \in Lists
    BY <1>3, <1>4
  <1> QED
    BY <1>2, <1>4, <1>5

\* compute_network_rates returns a natural number.
LEMMA RateType ==
    ASSUME Types
    PROVE  Rate \in Nat
  <1>1. CASE previous = None \/ wait = 0 \/ sample.total < previous
    BY <1>1 DEF Rate
  <1>2. CASE ~(previous = None \/ wait = 0 \/ sample.total < previous)
    <2>1. previous \in Nat /\ sample.total - previous \in Nat /\ wait \in Nat /\ wait # 0
      BY <1>2 DEF Types
    <2>2. (sample.total - previous) \div wait \in Nat
      BY <2>1, QuotientBound
    <2> QED
      BY <1>2, <2>2 DEF Rate
  <1> QED
    BY <1>1, <1>2

\* replace_stats keeps an index that is still in the list, and chooses the last
\* disk otherwise.
LEMMA KeptIndexType ==
    ASSUME NEW disks \in Seq(Disks), stats.index \in Nat
    PROVE  /\ KeptIndex(disks) \in Nat
           /\ KeptIndex(disks) < Len(disks) \/ KeptIndex(disks) = 0
           /\ stats.index < Len(disks) => KeptIndex(disks) = stats.index
  <1>1. Len(disks) \in Nat /\ (disks = <<>> <=> Len(disks) = 0)
    OBVIOUS
  <1> QED
    BY <1>1 DEF KeptIndex

\* The types hold at the start.
LEMMA InitTypeOK == Init => TypeOK
  <1> SUFFICES ASSUME Init PROVE TypeOK
    OBVIOUS
  <1> USE OptionsAssumption, BoundsAssumption
  <1>1. /\ sample = NoSample /\ <<>> \in Lists /\ 0 \in 0..MaxTotal
        /\ 0 \in Int /\ 0 \in 0..DiscoveryInterval
    BY ListsType DEF Init
  <1>2. sample \in [disks : Lists, alerts : SUBSET Disks, total : 0..MaxTotal]
    BY <1>1 DEF NoSample
  <1>3. stats \in [disks : Lists, alerts : SUBSET Disks, index : Nat, rate : Nat]
    BY <1>1 DEF Init
  <1> QED
    BY <1>1, <1>2, <1>3 DEF Init, TypeOK

\* Every step of the task keeps them.
LEMMA TaskTypeOK ==
    ASSUME TInv, \/ StopSeen \/ (\E w \in Waits : Tick(w)) \/ Discovered \/ DiscoveryFails
                 \/ TakeSample \/ SampleFails \/ Publish \/ Announce
    PROVE  TypeOK'
  <1> USE OptionsAssumption, BoundsAssumption
  <1>1. TypeOK /\ Types /\ Unaccounted
    BY DEF TInv, IInv
  <1>2. CASE StopSeen \/ SampleFails \/ DiscoveryFails
    BY <1>1, <1>2 DEF TypeOK, StopSeen, SampleFails, DiscoveryFails, machineVars
  <1>3. ASSUME NEW w \in Waits, Tick(w)
        PROVE  TypeOK'
    <2>1. wait' \in Waits \cup {0} /\ w \in Nat
      BY <1>3 DEF Tick
    <2>2. age' \in 0..DiscoveryInterval
      BY <1>1, <1>3, <2>1 DEF TypeOK, Tick
    <2>3. place' \in {"discovering", "sampling"}
      BY <1>3 DEF Tick
    <2> QED
      BY <1>1, <1>3, <2>1, <2>2, <2>3 DEF TypeOK, Tick, machineVars
  <1>4. CASE Discovered
    BY <1>1, <1>4 DEF TypeOK, Discovered, machineVars
  <1>5. CASE TakeSample
    <2>1. Listed(mounted \cap Monitored) \in Lists /\ full \cap Monitored \in SUBSET Disks
      BY <1>1, ListsType DEF TypeOK
    <2> QED
      BY <1>1, <1>5, <2>1 DEF TypeOK, TakeSample, machineVars
  <1>6. CASE Publish
    <2>1. Rate \in Nat
      BY <1>1, RateType
    <2>2. sample.disks \in Lists /\ sample.disks \in Seq(Disks) /\ stats.index \in Nat
      BY <1>1, ListsType DEF TypeOK
    <2>3. /\ KeptIndex(sample.disks) \in Nat
          /\ KeptIndex(sample.disks) < Len(sample.disks) \/ KeptIndex(sample.disks) = 0
      BY <2>2, KeptIndexType
    <2>4. /\ stats' = [disks |-> sample.disks, alerts |-> sample.alerts,
                       index |-> KeptIndex(sample.disks), rate |-> Rate]
          /\ previous' = sample.total /\ wait' = 0 /\ place' = "announcing"
          /\ wasAlert' \in BOOLEAN /\ unshown' = unshown - Rate * wait
          /\ UNCHANGED <<machineVars, stop, auto, age, discovered, sample, said, warned>>
      BY <1>6 DEF Publish, NextPrevious, AlertBefore
    <2>5. /\ stats' \in [disks : Lists, alerts : SUBSET Disks, index : Nat, rate : Nat]
          /\ stats'.index < Len(stats'.disks) \/ stats'.index = 0
      BY <1>1, <2>1, <2>2, <2>3, <2>4 DEF TypeOK
    <2>6. unshown' \in Int
      <3>1. Rate * wait \in Nat /\ Rate * wait <= unshown
        BY <1>1, <1>6, RateBound DEF Publish
      <3> QED
        BY <1>1, <2>4, <3>1 DEF TypeOK
    <2>7. previous' \in 0..MaxTotal \cup {None}
      BY <1>1, <2>4 DEF TypeOK
    <2> QED
      BY <1>1, <2>4, <2>5, <2>6, <2>7 DEF TypeOK, machineVars
  <1>7. CASE Announce
    <2>1. sample' \in [disks : Lists, alerts : SUBSET Disks, total : 0..MaxTotal]
      BY <1>7, ListsType DEF Announce, NoSample
    <2>2. warned' \subseteq Disks
      BY <1>1, <1>7 DEF TypeOK, Announce
    <2>3. said' \in {"none", "warn", "info"}
      BY <1>1, <1>7 DEF TypeOK, Announce
    <2> QED
      BY <1>1, <1>7, <2>1, <2>2, <2>3 DEF TypeOK, Announce, machineVars
  <1> QED
    BY <1>2, <1>3, <1>4, <1>5, <1>6, <1>7

\* So do the keys and the machine.
LEMMA OthersTypeOK ==
    ASSUME TInv, Tab \/ ShiftTab \/ Quit \/ Machine \/ UNCHANGED vars
    PROVE  TypeOK'
  <1> USE OptionsAssumption, BoundsAssumption
  <1>1. TypeOK /\ Types /\ Unaccounted
    BY DEF TInv, IInv
  <1>2. stats.disks \in Lists /\ Len(stats.disks) \in Nat /\ stats.index \in Nat
    BY <1>1, ListsType DEF TypeOK
  <1>3. ASSUME NEW index \in Nat, index < Len(stats.disks), Select(index)
        PROVE  TypeOK'
    <2>1. /\ stats' = [stats EXCEPT !.index = index]
          /\ UNCHANGED <<machineVars, stop, auto, taskVars, said, warned, unshown>>
      BY <1>3 DEF Select
    <2>2. /\ stats' \in [disks : Lists, alerts : SUBSET Disks, index : Nat, rate : Nat]
          /\ stats'.index = index /\ stats'.disks = stats.disks
      BY <1>1, <2>1 DEF TypeOK
    <2> QED
      BY <1>1, <1>3, <2>1, <2>2 DEF TypeOK, machineVars, taskVars
  <1>4. CASE Tab
    <2> DEFINE i == (stats.index + 1) % Len(stats.disks)
    <2>1. i \in Nat /\ i < Len(stats.disks)
      BY <1>2, <1>4 DEF Tab, Select
    <2>2. Select(i)
      BY <1>4 DEF Tab
    <2> QED
      BY <1>3, <2>1, <2>2
  <1>5. CASE ShiftTab
    <2> DEFINE i == IF stats.index = 0 THEN Len(stats.disks) - 1 ELSE stats.index - 1
    <2>1. Len(stats.disks) > 1 /\ Select(i)
      BY <1>5 DEF ShiftTab, Select
    <2>2. stats.index < Len(stats.disks) \/ stats.index = 0
      BY <1>1 DEF TypeOK
    <2>3. i \in Nat /\ i < Len(stats.disks)
      BY <1>2, <2>1, <2>2
    <2> QED
      BY <1>3, <2>1, <2>3
  <1>6. CASE Quit
    BY <1>1, <1>6 DEF TypeOK, Quit, machineVars, taskVars
  <1>7. ASSUME NEW d \in Disks, Mount(d) \/ Fill(d)
        PROVE  TypeOK'
    BY <1>1, <1>7 DEF TypeOK, Mount, Fill, taskVars
  <1>8. CASE Receive
    <2>1. total' \in 0..MaxTotal /\ unshown' \in Int
      BY <1>1, <1>8 DEF TypeOK, Receive
    <2> QED
      BY <1>1, <1>8, <2>1 DEF TypeOK, Receive, taskVars
  <1>9. CASE InterfaceLeaves
    BY <1>1, <1>9 DEF TypeOK, InterfaceLeaves, taskVars
  <1>10. CASE UNCHANGED vars
    BY <1>1, <1>10 DEF TypeOK, vars, machineVars, taskVars
  <1> QED
    BY <1>4, <1>5, <1>6, <1>7, <1>8, <1>9, <1>10 DEF Machine

\* Both invariants always hold.
LEMMA TInvAlways == Spec => []TInv
  <1>1. Init => TInv
    BY InitTypeOK, InitIInv DEF TInv
  <1>2. TInv /\ [Next]_vars => TInv'
    BY StepIInv, TaskTypeOK, OthersTypeOK DEF TInv, Next
  <1> QED
    BY <1>1, <1>2, PTL DEF Spec

\* The list that is shown is one of the disks in their order, and the selected
\* index lies in it, whichever disks come and go between a key and a refresh.
THEOREM SystemTypeCorrect == Spec => []TypeOK
  <1>1. TInv => TypeOK
    BY DEF TInv
  <1> QED
    BY <1>1, TInvAlways, PTL

\* A refresh keeps the selected index whenever the new list still reaches it
\* (SystemState::replace_stats).
THEOREM SelectionSurvives == Spec => SelectionKept
  <1>1. TInv /\ [Next]_vars
          => [place = "publishing" /\ place' = "announcing" /\ stats.index < Len(stats'.disks)
                => stats'.index = stats.index]_vars
    <2> SUFFICES ASSUME TInv, [Next]_vars, place = "publishing", place' = "announcing",
                        stats.index < Len(stats'.disks)
                 PROVE  stats'.index = stats.index
      OBVIOUS
    <2>1. Publish \/ UNCHANGED stats
      BY DEF Next, StopSeen, Tick, Discovered, DiscoveryFails, TakeSample, SampleFails, Announce,
        Tab, ShiftTab, Select, Quit, Machine, Mount, Fill, Receive, InterfaceLeaves, taskVars, vars
    <2>2. CASE Publish
      <3>1. sample.disks \in Seq(Disks) /\ stats.index \in Nat
        BY ListsType DEF TInv, TypeOK
      <3>2. stats'.disks = sample.disks /\ stats'.index = KeptIndex(sample.disks)
        BY <2>2 DEF Publish
      <3> QED
        BY <3>1, <3>2, KeptIndexType
    <2> QED
      BY <2>1, <2>2
  <1> QED
    BY <1>1, TInvAlways, PTL DEF Spec, SelectionKept
=============================================================================
