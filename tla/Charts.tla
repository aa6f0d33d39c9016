------------------------------- MODULE Charts -------------------------------
(***************************************************************************)
(* What the two chart panels derive from their data (widgets/chart.rs):    *)
(* the bounded list of points, the upper end of the axis and the average.  *)
(* A point is <<x, y>> with y the sample, a u64.  The code keeps it as f64, *)
(* which is exact for small samples only: Float says what it keeps.        *)
(***************************************************************************)
EXTENDS Filters

CONSTANTS
    U64Max,             \* the largest u64
    Float,              \* the f64 a u64 is converted to, a whole number too
    MaxDataPoints,      \* MAX_DATA_POINTS
    AverageWindow,      \* AVERAGE_WINDOW_DATA_POINTS
    MinAxis,            \* MIN_Y_AXIS_MAX_*
    AxisSteps           \* Y_AXIS_STEPS_*: <<threshold, step>> by threshold

U64 == 0..U64Max

ASSUME ChartsAssumption ==
    /\ U64Max \in Nat
    /\ Float \in [U64 -> 0 .. U64Max + 1] /\ \A n \in U64 : Float[n] = 0 <=> n = 0
    /\ MaxDataPoints \in Nat \ {0}
    /\ AverageWindow \in Nat \ {0}
    /\ MinAxis \in Nat \ {0}
    /\ AxisSteps \in Seq(Nat \X (Nat \ {0})) /\ AxisSteps # <<>>

\* The first chart point is there before any sample.
EmptyChart == [points |-> <<<<0, 0>>>>, count |-> 0]

LastOf(s, n) == SubSeq(s, (IF Len(s) > n THEN Len(s) - n ELSE 0) + 1, Len(s))

\* Mutant: the points are counted before the new ones are there.
AppendSamplesUntrimmed(c, samples) ==
    [points |-> LastOf(c.points, MaxDataPoints)
                    \o [i \in DOMAIN samples |-> <<c.count + i - 1, samples[i]>>],
     count |-> c.count + Len(samples)]

\* append_u64_samples and trim_data_points.
AppendSamples(c, samples) ==
    [points |-> LastOf(c.points \o [i \in DOMAIN samples |-> <<c.count + i - 1, samples[i]>>],
                       MaxDataPoints),
     count |-> c.count + Len(samples)]

Values(c) == [i \in DOMAIN c.points |-> c.points[i][2]]

Floats(c) == [i \in DOMAIN c.points |-> Float[c.points[i][2]]]

LargestOf(s) ==
    CHOOSE m \in {0} \cup {s[i] : i \in DOMAIN s} : \A i \in DOMAIN s : s[i] <= m

CeilDiv(a, b) == (a + b - 1) \div b

\* Mutant: the step is that of the value without its headroom.
AxisTopTight(c) ==
    LET max == LargestOf(Floats(c))
        fits == {i \in DOMAIN AxisSteps : max <= AxisSteps[i][1]}
        step == AxisSteps[IF fits = {} THEN Len(AxisSteps)
                          ELSE CHOOSE i \in fits : \A j \in fits : i <= j][2]
    IN IF max <= MinAxis THEN MinAxis ELSE (max \div step) * step

\* y_axis_upper_bound: a tenth of headroom, rounded up to the step.
AxisTop(c) ==
    LET max == LargestOf(Floats(c))
        fits == {i \in DOMAIN AxisSteps : 11 * max <= 10 * AxisSteps[i][1]}
        step == AxisSteps[IF fits = {} THEN Len(AxisSteps)
                          ELSE CHOOSE i \in fits : \A j \in fits : i <= j][2]
    IN IF max <= MinAxis THEN MinAxis ELSE CeilDiv(11 * max, 10 * step) * step

AtMost(a, b) == IF a < b THEN a ELSE b

\* rounded_nonzero_values: the conversion back to u64 saturates.
NonZero(c) ==
    Filtered([i \in DOMAIN c.points |-> AtMost(Floats(c)[i], U64Max)], Nat \ {0})

Total(s) ==
    LET upTo[i \in 0..Len(s)] == IF i = 0 THEN 0 ELSE upTo[i - 1] + s[i]
    IN upTo[Len(s)]

\* A sum of u64, which wraps around in a release build.
Sum(s) == Total(s) % (U64Max + 1)

\* average_recent_nonzero_rounded.
Average(c) ==
    LET recent == LastOf(NonZero(c), AverageWindow)
    IN IF recent = <<>> THEN 0 ELSE Sum(recent) \div Len(recent)
=============================================================================
