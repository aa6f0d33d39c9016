---------------------------- MODULE ChainSamples ----------------------------
(***************************************************************************)
(* The chain statistics of the shared data (collect/data.rs, ChainStats)   *)
(* and the two widgets that draw them (widgets/txs.rs, widgets/time.rs).   *)
(* A block is recorded under one lock; each widget copies the figures and  *)
(* takes its own samples under another, so blocks arrive in between.       *)
(***************************************************************************)
EXTENDS Charts

CONSTANTS
    MsPerSecond,
    Blocks,         \* their number, timestamp in seconds and count of transactions
    MaxSamples      \* bound: how many blocks are recorded

ASSUME ChainAssumption ==
    /\ MsPerSecond \in Nat \ {0}
    /\ Blocks \subseteq [number : U64, time : U64, txs : U64]
    /\ MaxSamples \in Nat

VARIABLES
    chain,          \* ChainStats
    txsWidget,      \* TxsWidget: its copies and its chart
    timeWidget,     \* TimeWidget
    samples         \* every block recorded so far

chainVars == <<chain, txsWidget, timeWidget, samples>>

Chart == [points : Seq(Nat \X U64), count : Nat]

ChainTypeOK ==
    /\ chain \in [number : U64, time : U64, prevTime : U64, txs : U64, maxTxs : U64,
                  maxTxsBlock : U64, txns : Seq(U64), intervals : Seq(U64),
                  interval : U64, maxInterval : U64]
    /\ txsWidget \in [number : U64, current : U64, max : U64, maxBlock : U64, chart : Chart]
    /\ timeWidget \in [number : U64, current : U64, max : U64, chart : Chart]
    /\ samples \in Seq(Blocks)
    /\ Len(txsWidget.chart.points) <= MaxDataPoints
    /\ Len(timeWidget.chart.points) <= MaxDataPoints

ChainInit ==
    /\ chain = [number |-> 0, time |-> 0, prevTime |-> 0, txs |-> 0, maxTxs |-> 0,
                maxTxsBlock |-> 0, txns |-> <<0>>, intervals |-> <<0>>,
                interval |-> 0, maxInterval |-> 0]
    /\ txsWidget = [number |-> 0, current |-> 0, max |-> 0, maxBlock |-> 0, chart |-> EmptyChart]
    /\ timeWidget = [number |-> 0, current |-> 0, max |-> 0, chart |-> EmptyChart]
    /\ samples = <<>>

-----------------------------------------------------------------------------
\* A timestamp may repeat, fall or leap; the interval saturates.
IntervalBetween(time, previous) ==
    AtMost((IF time > previous THEN time - previous ELSE 0) * MsPerSecond, U64Max)

PreviousTime == IF chain.time > 0 THEN chain.time ELSE chain.prevTime

\* Mutant: an equal count moves the maximum.
RaisesMaximumEqual(b) == b.txs >= chain.maxTxs

RaisesMaximum(b) == b.txs > chain.maxTxs

\* ChainStats::record_block_sample.
RecordBlockSample(b) ==
    LET prev == PreviousTime
        interval == IntervalBetween(b.time, prev)
    IN /\ Len(samples) < MaxSamples
       /\ samples' = Append(samples, b)
       /\ chain' =
            [number |-> b.number,
             time |-> b.time,
             prevTime |-> prev,
             txs |-> b.txs,
             maxTxs |-> IF RaisesMaximum(b) THEN b.txs ELSE chain.maxTxs,
             maxTxsBlock |-> IF RaisesMaximum(b) THEN b.number ELSE chain.maxTxsBlock,
             txns |-> Append(chain.txns, b.txs),
             intervals |-> IF prev > 0 THEN Append(chain.intervals, interval) ELSE chain.intervals,
             interval |-> IF prev > 0 THEN interval ELSE chain.interval,
             maxInterval |-> IF prev > 0 /\ interval > chain.maxInterval
                             THEN interval ELSE chain.maxInterval]
       /\ UNCHANGED <<txsWidget, timeWidget>>

\* Mutant: the first widget to come takes the samples of both.
UpdateTxsWidgetTakesAll ==
    /\ txsWidget' = [number |-> chain.number, current |-> chain.txs, max |-> chain.maxTxs,
                     maxBlock |-> chain.maxTxsBlock,
                     chart |-> AppendSamples(txsWidget.chart, chain.txns)]
    /\ chain' = [chain EXCEPT !.txns = <<>>, !.intervals = <<>>]
    /\ UNCHANGED <<timeWidget, samples>>

\* TxsWidget::update, with txns_and_clear.
UpdateTxsWidget ==
    /\ txsWidget' = [number |-> chain.number, current |-> chain.txs, max |-> chain.maxTxs,
                     maxBlock |-> chain.maxTxsBlock,
                     chart |-> AppendSamples(txsWidget.chart, chain.txns)]
    /\ chain' = [chain EXCEPT !.txns = <<>>]
    /\ UNCHANGED <<timeWidget, samples>>

\* TimeWidget::update, with intervals_and_clear.
UpdateTimeWidget ==
    /\ timeWidget' = [number |-> chain.number, current |-> chain.interval,
                      max |-> chain.maxInterval,
                      chart |-> AppendSamples(timeWidget.chart, chain.intervals)]
    /\ chain' = [chain EXCEPT !.intervals = <<>>]
    /\ UNCHANGED <<txsWidget, samples>>

-----------------------------------------------------------------------------
(* Correctness.                                                            *)

\* The intervals the blocks define: from the latest block before that had a
\* time, for every block after the first one that had.
Timed(s) == {j \in DOMAIN s : s[j].time > 0}
FirstTimed(s) ==
    IF Timed(s) = {} THEN Len(s) ELSE CHOOSE j \in Timed(s) : \A x \in Timed(s) : j <= x
LatestTimedBefore(s, i) ==
    CHOOSE x \in Timed(s) : x < i /\ \A y \in Timed(s) : y < i => y <= x
IntervalAt(s, i) ==
    LET time == s[i].time
        previous == s[LatestTimedBefore(s, i)].time
    IN AtMost((IF time > previous THEN time - previous ELSE 0) * MsPerSecond, U64Max)
Intervals(s) == [k \in 1..Len(s) - FirstTimed(s) |-> IntervalAt(s, FirstTimed(s) + k)]

Counts(s) == [i \in DOMAIN s |-> s[i].txs]

\* A chart shows the latest samples up to some point, and what follows that
\* point is waiting to be taken.
ShowsLatest(c, waiting, log) ==
    LET taken == Len(log) - Len(waiting)
    IN /\ taken >= 1
       /\ waiting = SubSeq(log, taken + 1, Len(log))
       /\ Values(c) = LastOf(SubSeq(log, 1, taken), MaxDataPoints)
       /\ \A i \in 2..Len(c.points) : c.points[i][1] \in c.points[i - 1][1] .. c.points[i - 1][1] + 1

\* Each sample reaches each chart once and in order, whatever is recorded
\* between the two widgets' locks (txns_and_clear, intervals_and_clear).
ChartsComplete ==
    /\ ShowsLatest(txsWidget.chart, chain.txns, <<0, 0>> \o Counts(samples))
    /\ ShowsLatest(timeWidget.chart, chain.intervals, <<0, 0>> \o Intervals(samples))

\* The maxima are those of all recorded blocks, and the block named with the
\* busiest count is the first one that had it.
MaximaExact ==
    /\ chain.maxTxs = LargestOf(Counts(samples))
    /\ chain.maxInterval = LargestOf(Intervals(samples))
    /\ chain.maxTxs > 0 =>
          \E i \in DOMAIN samples :
              /\ samples[i].number = chain.maxTxsBlock /\ samples[i].txs = chain.maxTxs
              /\ \A j \in 1..i - 1 : samples[j].txs < chain.maxTxs

\* The axis reaches every point that is drawn, and the average of the recent
\* samples lies among them unless their sum overflows: intervals saturate at the
\* largest u64, the sum of two such wraps around (y_axis_upper_bound,
\* average_recent_nonzero_rounded).
AxisCovers ==
    \A c \in {txsWidget.chart, timeWidget.chart} :
        LET recent == LastOf(NonZero(c), AverageWindow)
        IN /\ \A i \in DOMAIN c.points : Floats(c)[i] <= AxisTop(c)
           /\ recent # <<>> /\ Total(recent) <= U64Max =>
                 /\ \E i \in DOMAIN recent : recent[i] <= Average(c)
                 /\ \E i \in DOMAIN recent : recent[i] >= Average(c)
=============================================================================
