----------------------------- MODULE ChainProofs -----------------------------
(***************************************************************************)
(* For any blocks, endpoints and charts: every sample reaches each chart   *)
(* once and in order, the maxima are those of all blocks, and the axis and *)
(* the average of a chart fit its points.                                  *)
(***************************************************************************)
EXTENDS BlockSubscription, SequenceLemmas

-----------------------------------------------------------------------------
(* The last elements of a sequence.                                        *)

\* What LastOf returns.
LEMMA LastOfIs ==
    ASSUME NEW T, NEW s \in Seq(T), NEW n \in Nat
    PROVE  /\ LastOf(s, n) \in Seq(T)
           /\ Len(LastOf(s, n)) = IF Len(s) > n THEN n ELSE Len(s)
           /\ \A i \in 1..Len(LastOf(s, n)) :
                 LastOf(s, n)[i] = s[Len(s) - Len(LastOf(s, n)) + i]
  <1> DEFINE first == IF Len(s) > n THEN Len(s) - n ELSE 0
  <1>1. Len(s) \in Nat /\ first \in 0..Len(s)
    OBVIOUS
  <1>2. LastOf(s, n) = SubSeq(s, first + 1, Len(s))
    BY DEF LastOf
  <1>3. Len(s) - first = IF Len(s) > n THEN n ELSE Len(s)
    BY <1>1
  <1> HIDE DEF first
  <1>4. /\ SubSeq(s, first + 1, Len(s)) \in Seq(T)
        /\ Len(SubSeq(s, first + 1, Len(s))) = Len(s) - first
        /\ \A i \in 1..Len(s) - first : SubSeq(s, first + 1, Len(s))[i] = s[first + i]
    BY <1>1
  <1>5. Len(s) - (Len(s) - first) = first
    BY <1>1
  <1> QED
    BY <1>2, <1>3, <1>4, <1>5

\* The same, by the lengths.
LEMMA LastOfAt ==
    ASSUME NEW T, NEW s \in Seq(T), NEW n \in Nat, NEW k \in Nat, NEW l \in Nat,
           Len(s) = k, Len(LastOf(s, n)) = l
    PROVE  \A i \in 1..l : LastOf(s, n)[i] = s[k - l + i]
  BY LastOfIs

\* Two sequences of the same length and elements are the same.
LEMMA SameSeq ==
    ASSUME NEW S, NEW T, NEW s \in Seq(S), NEW t \in Seq(T), Len(s) = Len(t),
           \A i \in 1..Len(s) : s[i] = t[i]
    PROVE  s = t
  OBVIOUS

\* A concatenation is the one sequence followed by the other.
LEMMA ConcatIs ==
    ASSUME NEW T, NEW s \in Seq(T), NEW t \in Seq(T)
    PROVE  /\ s \o t \in Seq(T) /\ Len(s \o t) = Len(s) + Len(t)
           /\ \A i \in 1..Len(s) : (s \o t)[i] = s[i]
           /\ \A i \in Len(s) + 1..Len(s) + Len(t) : (s \o t)[i] = t[i - Len(s)]
  OBVIOUS

\* It does not matter whether a sequence is cut before it is appended to.
LEMMA LastOfLast ==
    ASSUME NEW T, NEW s \in Seq(T), NEW t \in Seq(T), NEW n \in Nat
    PROVE  LastOf(LastOf(s, n) \o t, n) = LastOf(s \o t, n)
  <1> DEFINE cut == LastOf(s, n)
             l == LastOf(cut \o t, n)
             r == LastOf(s \o t, n)
  <1>1. /\ cut \in Seq(T) /\ Len(cut) = IF Len(s) > n THEN n ELSE Len(s)
        /\ \A i \in 1..Len(cut) : cut[i] = s[Len(s) - Len(cut) + i]
    BY LastOfIs
  <1> HIDE DEF cut
  <1>2. /\ cut \o t \in Seq(T) /\ Len(cut \o t) = Len(cut) + Len(t)
        /\ \A i \in 1..Len(cut) + Len(t) :
              (cut \o t)[i] = IF i <= Len(cut) THEN cut[i] ELSE t[i - Len(cut)]
    BY <1>1
  <1>3. /\ s \o t \in Seq(T) /\ Len(s \o t) = Len(s) + Len(t)
        /\ \A i \in 1..Len(s) + Len(t) :
              (s \o t)[i] = IF i <= Len(s) THEN s[i] ELSE t[i - Len(s)]
    OBVIOUS
  <1>4. /\ l \in Seq(T) /\ Len(l) = IF Len(cut \o t) > n THEN n ELSE Len(cut \o t)
        /\ \A i \in 1..Len(l) : l[i] = (cut \o t)[Len(cut \o t) - Len(l) + i]
    BY <1>2, LastOfIs
  <1>5. /\ r \in Seq(T) /\ Len(r) = IF Len(s \o t) > n THEN n ELSE Len(s \o t)
        /\ \A i \in 1..Len(r) : r[i] = (s \o t)[Len(s \o t) - Len(r) + i]
    BY <1>3, LastOfIs
  <1> HIDE DEF l, r
  <1>6. Len(s) \in Nat /\ Len(t) \in Nat /\ Len(cut) \in Nat
    BY <1>1
  <1>7. Len(l) = Len(r) /\ Len(l) \in Nat
    BY <1>1, <1>2, <1>3, <1>4, <1>5, <1>6
  <1>8. Len(l) <= Len(cut) + Len(t) /\ Len(r) <= Len(s) + Len(t)
    BY <1>2, <1>3, <1>4, <1>5, <1>6
  <1>9. ASSUME NEW i \in 1..Len(l)
        PROVE  l[i] = r[i]
    <2> DEFINE a == Len(cut) + Len(t) - Len(l) + i
               b == Len(s) + Len(t) - Len(r) + i
    <2>1. a \in 1..Len(cut) + Len(t) /\ b \in 1..Len(s) + Len(t)
      BY <1>6, <1>7, <1>8
    <2>2. l[i] = (cut \o t)[a] /\ r[i] = (s \o t)[b]
      <3>1. i \in 1..Len(r)
        BY <1>7
      <3>2. l[i] = (cut \o t)[Len(cut \o t) - Len(l) + i]
        BY <1>4
      <3>3. r[i] = (s \o t)[Len(s \o t) - Len(r) + i]
        BY <1>5, <3>1
      <3> QED
        BY <1>2, <1>3, <3>2, <3>3
    <2>3. b - a = Len(s) - Len(cut)
      BY <1>6, <1>7
    <2> HIDE DEF a, b
    <2>4. CASE a <= Len(cut)
      <3>1. b <= Len(s) /\ a \in 1..Len(cut) /\ Len(s) - Len(cut) + a = b
        BY <1>6, <2>1, <2>3, <2>4
      <3>2. cut[a] = s[b]
        BY <1>1, <3>1
      <3> QED
        BY <1>2, <1>3, <2>1, <2>2, <2>4, <3>1, <3>2
    <2>5. CASE a > Len(cut)
      <3>1. ~(a <= Len(cut)) /\ ~(b <= Len(s)) /\ a - Len(cut) = b - Len(s)
        BY <1>6, <2>1, <2>3, <2>5
      <3> QED
        BY <1>2, <1>3, <2>1, <2>2, <3>1
    <2> QED
      BY <1>6, <2>1, <2>4, <2>5
  <1>10. l = r
    BY <1>4, <1>5, <1>7, <1>9, SameSeq
  <1> QED
    BY <1>10 DEF l, r, cut

-----------------------------------------------------------------------------
(* Points.                                                                 *)

\* The points of a chart follow each other, and the next one comes after them.
Steady(c) ==
    /\ Len(c.points) \in 1..MaxDataPoints
    /\ c.points[Len(c.points)][1] \in {c.count - 1, c.count}
    /\ \A i \in 2..Len(c.points) : c.points[i][1] \in c.points[i - 1][1] .. c.points[i - 1][1] + 1

\* The values of a chart.
LEMMA ValuesOf ==
    ASSUME NEW c \in Chart
    PROVE  /\ Values(c) \in Seq(U64) /\ Len(Values(c)) = Len(c.points)
           /\ \A i \in 1..Len(c.points) : Values(c)[i] = c.points[i][2]
  <1>1. c.points \in Seq(Nat \X U64)
    BY DEF Chart
  <1>2. \A i \in 1..Len(c.points) : c.points[i] \in Nat \X U64
    BY <1>1
  <1>3. Values(c) = [i \in 1..Len(c.points) |-> c.points[i][2]]
    BY <1>1 DEF Values
  <1>4. \A i \in 1..Len(c.points) : c.points[i][2] \in U64
    BY <1>2
  <1> QED
    BY <1>1, <1>3, <1>4

\* append_u64_samples: the points stay in order, and the values are the latest
\* of the old ones and the new ones.
LEMMA AppendKeeps ==
    ASSUME NEW c \in Chart, Steady(c), NEW samps \in Seq(U64)
    PROVE  /\ AppendSamples(c, samps) \in Chart
           /\ Steady(AppendSamples(c, samps))
           /\ Values(AppendSamples(c, samps)) = LastOf(Values(c) \o samps, MaxDataPoints)
  <1> DEFINE new == [i \in DOMAIN samps |-> <<c.count + i - 1, samps[i]>>]
             all == c.points \o new
             cut == LastOf(all, MaxDataPoints)
             d == AppendSamples(c, samps)
             n == Len(c.points)
             m == Len(samps)
  <1>1. c.points \in Seq(Nat \X U64) /\ c.count \in Nat /\ n \in Nat /\ m \in Nat
    BY DEF Chart
  <1>2. /\ new \in Seq(Nat \X U64) /\ Len(new) = m
        /\ \A i \in 1..m : new[i] = <<c.count + i - 1, samps[i]>>
    <2>1. DOMAIN samps = 1..m /\ \A i \in 1..m : samps[i] \in U64
      OBVIOUS
    <2>2. \A i \in 1..m : c.count + i - 1 \in Nat
      BY <1>1
    <2> QED
      BY <1>1, <2>1, <2>2
  <1> HIDE DEF new
  <1>3. /\ all \in Seq(Nat \X U64) /\ Len(all) = n + m
        /\ \A i \in 1..n : all[i] = c.points[i]
        /\ \A i \in n + 1..n + m : all[i] = new[i - n]
    <2>1. c.points \in Seq(Nat \X U64) /\ new \in Seq(Nat \X U64)
      BY <1>1, <1>2
    <2>2. /\ c.points \o new \in Seq(Nat \X U64)
          /\ Len(c.points \o new) = Len(c.points) + Len(new)
          /\ \A i \in 1..Len(c.points) : (c.points \o new)[i] = c.points[i]
          /\ \A i \in Len(c.points) + 1..Len(c.points) + Len(new) :
                (c.points \o new)[i] = new[i - Len(c.points)]
      BY <2>1, ConcatIs, Zenon
    <2>3. Len(new) = m
      BY <1>2
    <2> QED
      BY <2>2, <2>3
  <1> HIDE DEF all
  <1>4. MaxDataPoints \in Nat /\ MaxDataPoints >= 1
    BY ChartsAssumption
  <1>5. /\ cut \in Seq(Nat \X U64)
        /\ Len(cut) = IF Len(all) > MaxDataPoints THEN MaxDataPoints ELSE Len(all)
        /\ \A i \in 1..Len(cut) : cut[i] = all[(n + m) - Len(cut) + i]
    <2>1. /\ cut \in Seq(Nat \X U64)
          /\ Len(cut) = IF Len(all) > MaxDataPoints THEN MaxDataPoints ELSE Len(all)
      BY <1>3, <1>4, LastOfIs, Zenon
    <2>2. Len(cut) \in Nat /\ n + m \in Nat
      BY <1>1, <2>1
    <2>3. \A i \in 1..Len(cut) : cut[i] = all[(n + m) - Len(cut) + i]
      <3> DEFINE k == n + m
                 l == Len(cut)
      <3>1. k \in Nat /\ l \in Nat /\ Len(all) = k /\ Len(LastOf(all, MaxDataPoints)) = l
        BY <1>3, <2>2
      <3> HIDE DEF k, l
      <3>2. \A i \in 1..l : LastOf(all, MaxDataPoints)[i] = all[k - l + i]
        BY <1>3, <1>4, <3>1, LastOfAt
      <3> QED
        BY <3>2 DEF k, l
    <2> QED
      BY <2>1, <2>3
  <1> HIDE DEF cut
  <1>6. d = [points |-> cut, count |-> c.count + m]
    BY DEF AppendSamples, cut, all, new
  <1> HIDE DEF d
  <1>7. d \in Chart
    BY <1>1, <1>5, <1>6 DEF Chart
  <1>8. /\ n >= 1 /\ c.points[n][1] \in {c.count - 1, c.count}
        /\ \A i \in 2..n : c.points[i][1] \in c.points[i - 1][1] .. c.points[i - 1][1] + 1
    BY DEF Steady
  <1>9. \A i \in 1..n : c.points[i][1] \in Nat
    <2>1. \A i \in 1..n : c.points[i] \in Nat \X U64
      BY <1>1
    <2> QED
      BY <2>1
  <1> HIDE DEF n, m
  <1>10. \A i \in 2..n + m : all[i][1] \in all[i - 1][1] .. all[i - 1][1] + 1
    <2> SUFFICES ASSUME NEW i \in 2..n + m
                 PROVE  all[i][1] \in all[i - 1][1] .. all[i - 1][1] + 1
      OBVIOUS
    <2>1. CASE i <= n
      <3>1. i \in 2..n /\ i \in 1..n /\ i - 1 \in 1..n
        BY <1>1, <2>1
      <3> QED
        BY <1>3, <1>8, <3>1
    <2>2. CASE i = n + 1
      <3>1. i \in n + 1..n + m /\ i - n = 1 /\ 1 \in 1..m /\ i - 1 = n /\ n \in 1..n
        BY <1>1, <1>8, <2>2
      <3>2. all[i][1] = c.count /\ all[i - 1] = c.points[n]
        <4>1. new[1] = <<c.count + 1 - 1, samps[1]>>
          BY <1>2, <3>1
        <4>2. all[i] = new[1] /\ all[i - 1] = c.points[n]
          BY <1>3, <3>1
        <4> QED
          BY <1>1, <4>1, <4>2
      <3> QED
        BY <1>1, <1>8, <1>9, <3>1, <3>2
    <2>3. CASE i > n + 1
      <3>1. /\ i \in n + 1..n + m /\ i - 1 \in n + 1..n + m
            /\ i - n \in 1..m /\ (i - 1) - n \in 1..m
        BY <1>1, <2>3
      <3>2. all[i][1] = c.count + (i - n) - 1 /\ all[i - 1][1] = c.count + ((i - 1) - n) - 1
        BY <1>2, <1>3, <3>1
      <3> QED
        BY <1>1, <3>2
    <2> QED
      BY <1>1, <2>1, <2>2, <2>3
  <1>11. all[n + m][1] \in {c.count + m - 1, c.count + m}
    <2>1. CASE m = 0
      <3>1. n + m = n /\ n \in 1..n
        BY <1>1, <1>8, <2>1
      <3> QED
        BY <1>1, <1>3, <1>8, <2>1, <3>1
    <2>2. CASE m # 0
      <3>1. n + m \in n + 1..n + m /\ n + m - n = m /\ m \in 1..m
        BY <1>1, <2>2
      <3> QED
        BY <1>1, <1>2, <1>3, <3>1
    <2> QED
      BY <2>1, <2>2
  <1>12. Steady(d)
    <2>1. Len(cut) \in 1..MaxDataPoints /\ Len(cut) <= n + m
      BY <1>1, <1>3, <1>4, <1>5, <1>8
    <2>2. cut[Len(cut)] = all[n + m]
      <3>1. Len(cut) \in 1..Len(cut) /\ (n + m) - Len(cut) + Len(cut) = n + m
        BY <1>1, <2>1
      <3> QED
        BY <1>5, <3>1
    <2>3. ASSUME NEW i \in 2..Len(cut)
          PROVE  cut[i][1] \in cut[i - 1][1] .. cut[i - 1][1] + 1
      <3> DEFINE j == (n + m) - Len(cut) + i
      <3>1. j \in 2..n + m /\ (n + m) - Len(cut) + (i - 1) = j - 1
        BY <1>1, <2>1
      <3>2. i \in 1..Len(cut) /\ i - 1 \in 1..Len(cut)
        BY <2>1
      <3>3. cut[i] = all[j] /\ cut[i - 1] = all[j - 1]
        BY <1>5, <3>1, <3>2
      <3> QED
        BY <1>10, <3>1, <3>3
    <2> QED
      <3>1. d.points = cut /\ d.count = c.count + m
        BY <1>6
      <3>2. d.count - 1 = c.count + m - 1
        <4>1. c.count \in Nat /\ m \in Nat /\ d.count = c.count + m
          BY <1>1, <3>1
        <4> QED
          BY <4>1
      <3>3. cut[Len(cut)][1] \in {d.count - 1, d.count}
        BY <1>11, <2>2, <3>1, <3>2, Zenon
      <3> QED
        BY <2>1, <2>3, <3>1, <3>3 DEF Steady
  <1>13. Values(d) = LastOf(Values(c) \o samps, MaxDataPoints)
    <2> DEFINE vs == Values(c) \o samps
               r == LastOf(vs, MaxDataPoints)
    <2>1. /\ Values(c) \in Seq(U64) /\ Len(Values(c)) = n
          /\ \A i \in 1..n : Values(c)[i] = c.points[i][2]
      BY ValuesOf DEF n
    <2>2. /\ vs \in Seq(U64) /\ Len(vs) = n + m
          /\ \A i \in 1..n : vs[i] = c.points[i][2]
          /\ \A i \in n + 1..n + m : vs[i] = samps[i - n]
      <3>1. /\ Values(c) \o samps \in Seq(U64)
            /\ Len(Values(c) \o samps) = Len(Values(c)) + Len(samps)
            /\ \A i \in 1..Len(Values(c)) : (Values(c) \o samps)[i] = Values(c)[i]
            /\ \A i \in Len(Values(c)) + 1..Len(Values(c)) + Len(samps) :
                  (Values(c) \o samps)[i] = samps[i - Len(Values(c))]
        BY <2>1, ConcatIs, Zenon
      <3>2. Len(samps) = m
        BY DEF m
      <3> QED
        BY <2>1, <3>1, <3>2
    <2> HIDE DEF vs
    <2>3. /\ r \in Seq(U64) /\ Len(r) = IF Len(vs) > MaxDataPoints THEN MaxDataPoints ELSE Len(vs)
          /\ \A i \in 1..Len(r) : r[i] = vs[Len(vs) - Len(r) + i]
      BY <1>4, <2>2, LastOfIs
    <2>4. Len(r) = Len(cut) /\ Len(cut) \in Nat /\ Len(cut) <= n + m
      BY <1>1, <1>3, <1>4, <1>5, <2>2, <2>3
    <2>5. \A i \in 1..Len(cut) : r[i] = vs[(n + m) - Len(cut) + i]
      <3> DEFINE k == n + m
                 l == Len(cut)
      <3>1. k \in Nat /\ l \in Nat /\ Len(vs) = k /\ Len(LastOf(vs, MaxDataPoints)) = l
        <4>1. n + m \in Nat
          BY <1>1
        <4>2. Len(LastOf(vs, MaxDataPoints)) = Len(cut) /\ Len(cut) \in Nat
          BY <2>4, Zenon
        <4> QED
          BY <2>2, <4>1, <4>2, Zenon
      <3> HIDE DEF k, l
      <3>2. vs \in Seq(U64)
        BY <2>2
      <3>3. \A i \in 1..l : LastOf(vs, MaxDataPoints)[i] = vs[k - l + i]
        BY <1>4, <3>1, <3>2, LastOfAt
      <3> QED
        BY <3>3 DEF k, l
    <2> HIDE DEF r
    <2>6. /\ Values(d) \in Seq(U64) /\ Len(Values(d)) = Len(cut)
          /\ \A i \in 1..Len(cut) : Values(d)[i] = cut[i][2]
      BY <1>6, <1>7, ValuesOf
    <2>7. \A j \in 1..n + m : all[j][2] = vs[j]
      <3> SUFFICES ASSUME NEW j \in 1..n + m PROVE all[j][2] = vs[j]
        OBVIOUS
      <3>1. CASE j <= n
        <4>1. j \in 1..n
          BY <1>1, <3>1
        <4> QED
          BY <1>3, <2>2, <4>1
      <3>2. CASE j > n
        <4>1. j \in n + 1..n + m /\ j - n \in 1..m
          BY <1>1, <3>2
        <4>2. new[j - n][2] = samps[j - n]
          BY <1>2, <4>1
        <4> QED
          BY <1>3, <2>2, <4>1, <4>2
      <3> QED
        BY <1>1, <3>1, <3>2
    <2>8. ASSUME NEW i \in 1..Len(cut)
          PROVE  Values(d)[i] = r[i]
      <3>1. (n + m) - Len(cut) + i \in 1..n + m
        BY <1>1, <2>4
      <3> QED
        <4>1. Values(d)[i] = all[(n + m) - Len(cut) + i][2]
          BY <1>5, <2>6
        <4>2. r[i] = vs[(n + m) - Len(cut) + i]
          BY <2>5
        <4> QED
          BY <2>7, <3>1, <4>1, <4>2
    <2>9. Values(d) = r
      BY <2>3, <2>4, <2>6, <2>8, SameSeq
    <2> QED
      BY <2>9 DEF r, vs
  <1> QED
    BY <1>7, <1>12, <1>13 DEF d

-----------------------------------------------------------------------------
(* Types.                                                                  *)

\* The inductive invariant of the types: the points of both charts are steady.
TInv == TypeOK /\ Steady(txsWidget.chart) /\ Steady(timeWidget.chart)

\* The interval between two times fits a u64.
LEMMA IntervalType ==
    ASSUME NEW time \in U64, NEW previous \in U64
    PROVE  IntervalBetween(time, previous) \in U64
  <1> DEFINE seconds == IF time > previous THEN time - previous ELSE 0
  <1>1. seconds \in Nat /\ MsPerSecond \in Nat /\ U64Max \in Nat
    BY ChainAssumption, ChartsAssumption DEF U64
  <1>2. IntervalBetween(time, previous) = AtMost(seconds * MsPerSecond, U64Max)
    BY DEF IntervalBetween
  <1> HIDE DEF seconds
  <1>3. seconds * MsPerSecond \in Nat
    BY <1>1
  <1> QED
    BY <1>1, <1>2, <1>3 DEF AtMost, U64

\* The one point a chart begins with.
LEMMA EmptyChartIs ==
    EmptyChart \in Chart /\ Steady(EmptyChart) /\ Values(EmptyChart) = <<0>>
  <1>1. 0 \in U64 /\ MaxDataPoints \in Nat /\ MaxDataPoints >= 1
    BY ChainAssumption, ChartsAssumption DEF U64
  <1>2. EmptyChart.points = <<<<0, 0>>>> /\ EmptyChart.count = 0
    BY DEF EmptyChart
  <1>3. EmptyChart \in Chart
    BY <1>1 DEF EmptyChart, Chart
  <1>4. Steady(EmptyChart)
    BY <1>1, <1>2 DEF Steady
  <1>5. Values(EmptyChart) = <<0>>
    BY <1>2 DEF Values
  <1> QED
    BY <1>3, <1>4, <1>5

\* What recording a block leaves.
LEMMA RecordType ==
    ASSUME TInv, NEW b \in Blocks, RecordBlockSample(b)
    PROVE  ChainTypeOK' /\ Steady(txsWidget.chart)' /\ Steady(timeWidget.chart)'
  <1>1. b.number \in U64 /\ b.time \in U64 /\ b.txs \in U64
    BY ChainAssumption, ChartsAssumption DEF U64
  <1>2. ChainTypeOK
    BY DEF TInv, TypeOK
  <1>3. PreviousTime \in U64
    BY <1>2 DEF ChainTypeOK, PreviousTime
  <1>4. IntervalBetween(b.time, PreviousTime) \in U64
    BY <1>1, <1>3, IntervalType
  <1>5. Append(chain.txns, b.txs) \in Seq(U64)
    BY <1>1, <1>2 DEF ChainTypeOK
  <1>6. Append(chain.intervals, IntervalBetween(b.time, PreviousTime)) \in Seq(U64)
    BY <1>2, <1>4 DEF ChainTypeOK
  <1>7. samples' \in Seq(Blocks)
    BY <1>2 DEF ChainTypeOK, RecordBlockSample
  <1>8. chain' \in [number : U64, time : U64, prevTime : U64, txs : U64, maxTxs : U64,
                  maxTxsBlock : U64, txns : Seq(U64), intervals : Seq(U64),
                  interval : U64, maxInterval : U64]
    BY <1>1, <1>2, <1>3, <1>4, <1>5, <1>6 DEF ChainTypeOK, RecordBlockSample
  <1>9. UNCHANGED <<txsWidget, timeWidget>>
    BY DEF RecordBlockSample
  <1>10. Steady(txsWidget.chart)' /\ Steady(timeWidget.chart)'
    BY <1>9 DEF TInv, Steady
  <1> QED
    BY <1>2, <1>7, <1>8, <1>9, <1>10 DEF ChainTypeOK

\* What a widget leaves when it takes its samples.
LEMMA WidgetsType ==
    ASSUME TInv, UpdateTxsWidget \/ UpdateTimeWidget
    PROVE  ChainTypeOK' /\ Steady(txsWidget.chart)' /\ Steady(timeWidget.chart)'
  <1>1. /\ ChainTypeOK /\ <<>> \in Seq(U64)
        /\ \A c \in Chart : Steady(c) => c.points \in Seq(Nat \X U64) /\ Len(c.points) <= MaxDataPoints
    BY DEF TInv, TypeOK, Steady, Chart
  <1>2. CASE UpdateTxsWidget
    <2> DEFINE c == AppendSamples(txsWidget.chart, chain.txns)
    <2>1. c \in Chart /\ Steady(c)
      BY <1>1, AppendKeeps DEF TInv, ChainTypeOK
    <2> HIDE DEF c
    <2>2. txsWidget' = [number |-> chain.number, current |-> chain.txs, max |-> chain.maxTxs,
                        maxBlock |-> chain.maxTxsBlock, chart |-> c]
      BY <1>2 DEF UpdateTxsWidget, c
    <2>3. UNCHANGED <<timeWidget, samples>> /\ chain' = [chain EXCEPT !.txns = <<>>]
      BY <1>2 DEF UpdateTxsWidget
    <2>4. txsWidget'.chart = c
      BY <2>2
    <2>5. Steady(txsWidget.chart)' /\ Steady(timeWidget.chart)'
      BY <2>1, <2>3, <2>4 DEF TInv, Steady
    <2>6. Len(c.points) <= MaxDataPoints
      BY <1>1, <2>1
    <2> QED
      BY <1>1, <2>1, <2>2, <2>3, <2>4, <2>5, <2>6 DEF ChainTypeOK
  <1>3. CASE UpdateTimeWidget
    <2> DEFINE c == AppendSamples(timeWidget.chart, chain.intervals)
    <2>1. c \in Chart /\ Steady(c)
      BY <1>1, AppendKeeps DEF TInv, ChainTypeOK
    <2> HIDE DEF c
    <2>2. timeWidget' = [number |-> chain.number, current |-> chain.interval,
                         max |-> chain.maxInterval, chart |-> c]
      BY <1>3 DEF UpdateTimeWidget, c
    <2>3. UNCHANGED <<txsWidget, samples>> /\ chain' = [chain EXCEPT !.intervals = <<>>]
      BY <1>3 DEF UpdateTimeWidget
    <2>4. timeWidget'.chart = c
      BY <2>2
    <2>5. Steady(txsWidget.chart)' /\ Steady(timeWidget.chart)'
      BY <2>1, <2>3, <2>4 DEF TInv, Steady
    <2>6. Len(c.points) <= MaxDataPoints
      BY <1>1, <2>1
    <2> QED
      BY <1>1, <2>1, <2>2, <2>3, <2>4, <2>5, <2>6 DEF ChainTypeOK
  <1> QED
    BY <1>2, <1>3

\* The invariant of the types holds at the start.
LEMMA TInvInit == Init => TInv
  <1> SUFFICES ASSUME Init PROVE TInv
    OBVIOUS
  <1>1. 0 \in U64 /\ MaxDataPoints >= 1 /\ Len(EmptyChart.points) = 1
    BY ChainAssumption, ChartsAssumption DEF U64, EmptyChart
  <1>2. /\ txsWidget.chart = EmptyChart /\ timeWidget.chart = EmptyChart
        /\ <<0>> \in Seq(U64) /\ <<>> \in Seq(Blocks)
    BY <1>1 DEF Init, ChainInit
  <1>3. ChainTypeOK
    BY <1>1, <1>2, EmptyChartIs DEF Init, ChainInit, ChainTypeOK
  <1>4. /\ place = "connecting" /\ endpoint = 1 /\ head = NoHead /\ stop = FALSE
        /\ up \subseteq Endpoints /\ 1 \in Endpoints
    BY EndpointsAssumption DEF Init, Endpoints
  <1>5. TypeOK
    BY <1>3, <1>4 DEF TypeOK
  <1> QED
    BY <1>2, <1>5, EmptyChartIs DEF TInv

\* A step of the task, of the widgets or of the endpoints keeps it.
LEMMA TInvNext == TInv /\ [Next]_vars => TInv'
  <1> SUFFICES ASSUME TInv, [Next]_vars PROVE TInv'
    OBVIOUS
  <1> USE EndpointsAssumption
  <1>1. TypeOK /\ ChainTypeOK
    BY DEF TInv, TypeOK
  <1>2. ASSUME UNCHANGED chainVars
        PROVE  ChainTypeOK' /\ Steady(txsWidget.chart)' /\ Steady(timeWidget.chart)'
    BY <1>1, <1>2 DEF TInv, ChainTypeOK, chainVars, Steady
  <1>3. endpoint < EndpointCount => endpoint + 1 \in Endpoints
    BY <1>1 DEF TypeOK, Endpoints
  <1>4. 1 \in Endpoints
    BY DEF Endpoints
  <1>5. CASE Connect
    BY <1>1, <1>2, <1>3, <1>5 DEF Connect, NextEndpoint, Pause, TInv, TypeOK
  <1>6. CASE Subscribe
    BY <1>1, <1>2, <1>6 DEF Subscribe, TInv, TypeOK
  <1>7. CASE SubscribeFails
    BY <1>1, <1>2, <1>3, <1>7 DEF SubscribeFails, NextEndpoint, Pause, TInv, TypeOK
  <1>8. CASE StopSeen
    BY <1>1, <1>2, <1>8 DEF StopSeen, TInv, TypeOK
  <1>9. CASE ConnectionFails
    BY <1>1, <1>2, <1>9 DEF ConnectionFails, Pause, TInv, TypeOK
  <1>10. CASE PauseEnds
    BY <1>1, <1>2, <1>4, <1>10 DEF PauseEnds, Again, TInv, TypeOK
  <1>11. CASE \E h \in Heads : HeadArrives(h)
    BY <1>1, <1>2, <1>11 DEF HeadArrives, TInv, TypeOK
  <1>12. CASE SkipBlock
    BY <1>1, <1>2, <1>12 DEF SkipBlock, BackToStream, TInv, TypeOK
  <1>13. ASSUME NEW b \in Blocks, BlockArrives(b)
         PROVE  TInv'
    <2>1. RecordBlockSample(b)
      BY <1>13 DEF BlockArrives
    <2>2. ChainTypeOK' /\ Steady(txsWidget.chart)' /\ Steady(timeWidget.chart)'
      BY <1>13, <2>1, RecordType
    <2> QED
      BY <1>1, <1>13, <2>2 DEF BlockArrives, BackToStream, TInv, TypeOK
  <1>14. CASE Widgets
    BY <1>1, <1>14, WidgetsType DEF Widgets, taskVars, TInv, TypeOK
  <1>15. CASE Quit
    BY <1>1, <1>2, <1>15 DEF Quit, taskVars, TInv, TypeOK
  <1>16. CASE \E e \in Endpoints : EndpointChanges(e)
    BY <1>1, <1>2, <1>16 DEF EndpointChanges, taskVars, TInv, TypeOK
  <1>17. CASE UNCHANGED vars
    BY <1>1, <1>2, <1>17 DEF vars, taskVars, TInv, TypeOK
  <1> QED
    BY <1>5, <1>6, <1>7, <1>8, <1>9, <1>10, <1>11, <1>12, <1>13, <1>14, <1>15, <1>16, <1>17
    DEF Next

\* Every figure of the statistics and of the widgets fits a u64, a chart never
\* holds more than its maximum of points, and a header is kept only while its
\* block is being fetched, whatever the times and the counts of the blocks are.
THEOREM ChainTypeCorrect == Spec => []TypeOK
  <1>1. TInv => TypeOK
    BY DEF TInv
  <1> QED
    BY <1>1, TInvInit, TInvNext, PTL DEF Spec

-----------------------------------------------------------------------------
(* The samples each chart has to show.                                     *)

\* A part of a sequence.
LEMMA SubSeqIs ==
    ASSUME NEW T, NEW s \in Seq(T), NEW m \in Nat, NEW n \in 0..Len(s), m <= n
    PROVE  /\ SubSeq(s, m + 1, n) \in Seq(T) /\ Len(SubSeq(s, m + 1, n)) = n - m
           /\ \A i \in 1..n - m : SubSeq(s, m + 1, n)[i] = s[m + i]
  <1>1. n \in Nat /\ n <= Len(s) /\ Len(s) \in Nat /\ m + 1 \in 1..n + 1
    OBVIOUS
  <1> QED
    BY <1>1

\* A sample that is recorded waits behind the others.
LEMMA ShowsAppend ==
    ASSUME NEW c, NEW w \in Seq(U64), NEW log \in Seq(U64), NEW x \in U64,
           ShowsLatest(c, w, log)
    PROVE  ShowsLatest(c, Append(w, x), Append(log, x))
  <1> DEFINE k == Len(log)
             t == Len(log) - Len(w)
             log2 == Append(log, x)
             w2 == Append(w, x)
  <1>1. /\ t >= 1 /\ w = SubSeq(log, t + 1, k)
        /\ Values(c) = LastOf(SubSeq(log, 1, t), MaxDataPoints)
    BY DEF ShowsLatest
  <1>2. k \in Nat /\ Len(w) \in Nat /\ t \in 1..k
    BY <1>1
  <1>3. /\ log2 \in Seq(U64) /\ Len(log2) = k + 1 /\ log2[k + 1] = x
        /\ \A i \in 1..k : log2[i] = log[i]
    OBVIOUS
  <1>4. /\ w2 \in Seq(U64) /\ Len(w2) = Len(w) + 1 /\ w2[Len(w) + 1] = x
        /\ \A i \in 1..Len(w) : w2[i] = w[i]
    OBVIOUS
  <1>5. Len(log2) - Len(w2) = t
    BY <1>2, <1>3, <1>4
  <1>6. \A i \in 1..Len(w) : w[i] = log[t + i]
    BY <1>1, <1>2, SubSeqIs
  <1>7. SubSeq(log2, 1, t) = SubSeq(log, 1, t)
    <2>1. /\ SubSeq(log, 0 + 1, t) \in Seq(U64) /\ Len(SubSeq(log, 0 + 1, t)) = t - 0
          /\ \A i \in 1..t - 0 : SubSeq(log, 0 + 1, t)[i] = log[0 + i]
      BY <1>2, SubSeqIs
    <2>2. /\ SubSeq(log2, 0 + 1, t) \in Seq(U64) /\ Len(SubSeq(log2, 0 + 1, t)) = t - 0
          /\ \A i \in 1..t - 0 : SubSeq(log2, 0 + 1, t)[i] = log2[0 + i]
      <3>1. t \in 0..Len(log2) /\ 0 <= t
        BY <1>2, <1>3
      <3> HIDE DEF log2, t
      <3> QED
        BY <1>3, <3>1, SubSeqIs
    <2>3. \A i \in 1..t : log2[0 + i] = log[0 + i]
      BY <1>2, <1>3
    <2> HIDE DEF log2, t
    <2>4. t - 0 = t /\ 0 + 1 = 1
      BY <1>2
    <2> QED
      BY <2>1, <2>2, <2>3, <2>4, SameSeq
  <1>8. w2 = SubSeq(log2, t + 1, k + 1)
    <2>1. /\ SubSeq(log2, t + 1, k + 1) \in Seq(U64)
          /\ Len(SubSeq(log2, t + 1, k + 1)) = (k + 1) - t
          /\ \A i \in 1..(k + 1) - t : SubSeq(log2, t + 1, k + 1)[i] = log2[t + i]
      <3>1. k + 1 \in 0..Len(log2) /\ t <= k + 1 /\ t \in Nat
        BY <1>2, <1>3
      <3> HIDE DEF log2, t, k
      <3> QED
        BY <1>3, <3>1, SubSeqIs
    <2>2. (k + 1) - t = Len(w) + 1
      BY <1>2
    <2>3. ASSUME NEW i \in 1..Len(w) + 1
          PROVE  w2[i] = log2[t + i]
      <3>1. CASE i = Len(w) + 1
        BY <1>2, <1>3, <1>4, <3>1
      <3>2. CASE i # Len(w) + 1
        <4>1. i \in 1..Len(w) /\ t + i \in 1..k
          BY <1>2, <3>2
        <4> QED
          BY <1>3, <1>4, <1>6, <4>1
      <3> QED
        BY <3>1, <3>2
    <2> DEFINE part == SubSeq(log2, t + 1, k + 1)
    <2> HIDE DEF w2, log2, t, k
    <2>4. /\ part \in Seq(U64) /\ Len(part) = Len(w) + 1
          /\ \A i \in 1..Len(w) + 1 : part[i] = log2[t + i]
      BY <2>1, <2>2
    <2> HIDE DEF part
    <2>5. w2 = part
      BY <1>4, <2>3, <2>4, SameSeq
    <2> QED
      BY <2>5 DEF part
  <1> HIDE DEF w2, log2, t, k
  <1>9. ShowsLatest(c, w2, log2)
    BY <1>1, <1>3, <1>5, <1>7, <1>8 DEF ShowsLatest
  <1> QED
    BY <1>9 DEF w2, log2

\* A chart that takes all waiting samples shows the latest of all.
LEMMA ShowsTake ==
    ASSUME NEW c \in Chart, Steady(c), NEW w \in Seq(U64), NEW log \in Seq(U64),
           ShowsLatest(c, w, log)
    PROVE  ShowsLatest(AppendSamples(c, w), <<>>, log)
  <1> DEFINE k == Len(log)
             t == Len(log) - Len(w)
             d == AppendSamples(c, w)
             shown == SubSeq(log, 1, t)
  <1>1. /\ t >= 1 /\ w = SubSeq(log, t + 1, k)
        /\ Values(c) = LastOf(shown, MaxDataPoints)
    BY DEF ShowsLatest
  <1>2. k \in Nat /\ Len(w) \in Nat /\ t \in 1..k /\ MaxDataPoints \in Nat
    BY <1>1, ChartsAssumption
  <1>3. d \in Chart /\ Steady(d) /\ Values(d) = LastOf(Values(c) \o w, MaxDataPoints)
    BY AppendKeeps
  <1>4. /\ shown \in Seq(U64) /\ Len(shown) = t
        /\ \A i \in 1..t : shown[i] = log[i]
    <2>1. t \in 0..k /\ 0 <= t /\ t - 0 = t /\ 0 + 1 = 1
      BY <1>2
    <2>2. \A i \in 1..t : 0 + i = i
      OBVIOUS
    <2> HIDE DEF t
    <2>3. /\ SubSeq(log, 0 + 1, t) \in Seq(U64) /\ Len(SubSeq(log, 0 + 1, t)) = t - 0
          /\ \A i \in 1..t - 0 : SubSeq(log, 0 + 1, t)[i] = log[0 + i]
      BY <2>1, SubSeqIs
    <2> QED
      BY <2>1, <2>2, <2>3
  <1> HIDE DEF shown
  <1>5. shown \o w = log
    <2>1. \A i \in 1..Len(w) : w[i] = log[t + i]
      BY <1>1, <1>2, SubSeqIs
    <2>2. /\ shown \o w \in Seq(U64) /\ Len(shown \o w) = t + Len(w)
          /\ \A i \in 1..t : (shown \o w)[i] = shown[i]
          /\ \A i \in t + 1..t + Len(w) : (shown \o w)[i] = w[i - t]
      <3> HIDE DEF t
      <3> QED
        BY <1>4, ConcatIs
    <2>3. t + Len(w) = k
      BY <1>2
    <2> HIDE DEF t
    <2>4. ASSUME NEW i \in 1..k
          PROVE  (shown \o w)[i] = log[i]
      <3>1. CASE i <= t
        <4>1. i \in 1..t
          BY <1>2, <3>1
        <4> QED
          BY <1>4, <2>2, <4>1
      <3>2. CASE i > t
        <4>1. i \in t + 1..t + Len(w) /\ i - t \in 1..Len(w) /\ t + (i - t) = i
          BY <1>2, <2>3, <3>2
        <4>2. w[i - t] = log[t + (i - t)]
          BY <2>1, <4>1
        <4> QED
          BY <2>2, <4>1, <4>2
      <3>3. i <= t \/ i > t
        BY <1>2
      <3> QED
        BY <3>1, <3>2, <3>3, Zenon
    <2> DEFINE whole == shown \o w
    <2>5. whole \in Seq(U64) /\ Len(whole) = Len(log) /\ \A i \in 1..Len(whole) : whole[i] = log[i]
      BY <2>2, <2>3, <2>4
    <2> HIDE DEF whole
    <2>6. whole = log
      BY <2>5, SameSeq
    <2> QED
      BY <2>6 DEF whole
  <1>6. Values(d) = LastOf(log, MaxDataPoints)
    <2>1. LastOf(LastOf(shown, MaxDataPoints) \o w, MaxDataPoints)
            = LastOf(shown \o w, MaxDataPoints)
      BY <1>2, <1>4, LastOfLast
    <2> HIDE DEF d
    <2> QED
      BY <1>1, <1>3, <1>5, <2>1
  <1>7. SubSeq(log, 1, k) = log
    OBVIOUS
  <1>8. SubSeq(log, k + 1, k) = <<>>
    OBVIOUS
  <1>9. Len(<<>>) = 0 /\ k - 0 = k /\ k >= 1
    BY <1>2
  <1>10. \A i \in 2..Len(d.points) : d.points[i][1] \in d.points[i - 1][1] .. d.points[i - 1][1] + 1
    BY <1>3 DEF Steady
  <1> HIDE DEF d
  <1>11. ShowsLatest(d, <<>>, log)
    BY <1>6, <1>7, <1>8, <1>9, <1>10 DEF ShowsLatest
  <1> QED
    BY <1>11 DEF d

-----------------------------------------------------------------------------
(* The largest of the samples.                                             *)

\* What LargestOf returns for numbers up to a bound.
LEMMA LargestWithin ==
    ASSUME NEW bound \in Nat, NEW s \in Seq(0..bound)
    PROVE  /\ LargestOf(s) \in 0..bound
           /\ LargestOf(s) \in {0} \cup {s[i] : i \in DOMAIN s}
           /\ \A i \in DOMAIN s : s[i] <= LargestOf(s)
  <1> DEFINE V == {0} \cup {s[i] : i \in DOMAIN s}
  <1>1. V \subseteq 0..bound
    OBVIOUS
  <1>2. V \in SUBSET Nat /\ V # {} /\ \A v \in V : v <= bound
    BY <1>1
  <1>3. \A i \in DOMAIN s : s[i] \in V
    OBVIOUS
  <1> HIDE DEF V
  <1>4. \E m \in V : \A v \in V : v <= m
    BY <1>1, <1>2, Greatest
  <1>5. \E m \in V : \A i \in DOMAIN s : s[i] <= m
    BY <1>3, <1>4
  <1>6. LargestOf(s) = CHOOSE m \in V : \A i \in DOMAIN s : s[i] <= m
    BY DEF LargestOf, V
  <1>7. LargestOf(s) \in V /\ \A i \in DOMAIN s : s[i] <= LargestOf(s)
    BY <1>5, <1>6
  <1> QED
    BY <1>1, <1>7 DEF V

\* The samples are such numbers.
LEMMA LargestIs ==
    ASSUME NEW s \in Seq(U64)
    PROVE  /\ LargestOf(s) \in U64
           /\ LargestOf(s) \in {0} \cup {s[i] : i \in DOMAIN s}
           /\ \A i \in DOMAIN s : s[i] <= LargestOf(s)
  BY LargestWithin, ChartsAssumption DEF U64

\* It is the only one.
LEMMA LargestOnly ==
    ASSUME NEW s \in Seq(U64), NEW m \in U64,
           m \in {0} \cup {s[i] : i \in DOMAIN s}, \A i \in DOMAIN s : s[i] <= m
    PROVE  LargestOf(s) = m
  <1> DEFINE l == LargestOf(s)
  <1>1. /\ l \in U64 /\ l \in {0} \cup {s[i] : i \in DOMAIN s}
        /\ \A i \in DOMAIN s : s[i] <= l
    BY LargestIs
  <1> HIDE DEF l
  <1>2. U64 \subseteq Nat
    BY ChainAssumption, ChartsAssumption DEF U64
  <1>3. l <= m
    BY <1>1, <1>2
  <1>4. m <= l
    BY <1>1, <1>2
  <1>5. l = m
    BY <1>1, <1>2, <1>3, <1>4
  <1> QED
    BY <1>5 DEF l

\* A new sample is the largest, or the largest stays.
LEMMA LargestAppend ==
    ASSUME NEW s \in Seq(U64), NEW x \in U64
    PROVE  LargestOf(Append(s, x)) = IF x > LargestOf(s) THEN x ELSE LargestOf(s)
  <1> DEFINE l == LargestOf(s)
             m == IF x > l THEN x ELSE l
             s2 == Append(s, x)
  <1>1. /\ l \in U64 /\ l \in {0} \cup {s[i] : i \in DOMAIN s}
        /\ \A i \in DOMAIN s : s[i] <= l
    BY LargestIs
  <1>2. /\ s2 \in Seq(U64) /\ DOMAIN s2 = 1..Len(s) + 1 /\ s2[Len(s) + 1] = x
        /\ DOMAIN s = 1..Len(s) /\ \A i \in 1..Len(s) : s2[i] = s[i]
        /\ Len(s) \in Nat
    OBVIOUS
  <1> HIDE DEF l, s2
  <1>3. m \in U64 /\ U64 \subseteq Nat
    BY <1>1, ChainAssumption, ChartsAssumption DEF U64
  <1>4. m \in {0} \cup {s2[i] : i \in DOMAIN s2}
    <2>1. {0} \cup {s[i] : i \in DOMAIN s} \subseteq {0} \cup {s2[i] : i \in DOMAIN s2}
      <3>1. \A i \in DOMAIN s : i \in DOMAIN s2 /\ s[i] = s2[i]
        BY <1>2
      <3> QED
        BY <3>1
    <2>2. Len(s) + 1 \in DOMAIN s2
      BY <1>2
    <2>3. x \in {0} \cup {s2[i] : i \in DOMAIN s2}
      BY <1>2, <2>2
    <2> QED
      BY <1>1, <2>1, <2>3
  <1>5. \A i \in DOMAIN s2 : s2[i] <= m
    <2> SUFFICES ASSUME NEW i \in DOMAIN s2 PROVE s2[i] <= m
      OBVIOUS
    <2>1. l <= m /\ x <= m
      BY <1>1, <1>3
    <2> HIDE DEF m
    <2>2. CASE i = Len(s) + 1
      BY <1>2, <2>1, <2>2
    <2>3. CASE i # Len(s) + 1
      <3>1. i \in 1..Len(s)
        BY <1>2, <2>3
      <3>2. s2[i] <= l /\ s2[i] \in U64
        BY <1>1, <1>2, <3>1
      <3>3. s2[i] \in Nat /\ l \in Nat /\ m \in Nat
        BY <1>1, <1>3, <3>2
      <3> QED
        BY <2>1, <3>2, <3>3
    <2> QED
      BY <2>2, <2>3
  <1> HIDE DEF m
  <1>6. LargestOf(s2) = m
    BY <1>2, <1>3, <1>4, <1>5, LargestOnly
  <1> QED
    BY <1>6 DEF s2, m, l

-----------------------------------------------------------------------------
(* The intervals between the blocks.                                       *)

\* The least element of a set.
LEMMA LeastIs ==
    ASSUME NEW T \in SUBSET Nat, T # {}
    PROVE  LET m == CHOOSE j \in T : \A x \in T : j <= x
           IN m \in T /\ \A x \in T : m <= x
  BY Least

\* The greatest element of a set below a number.
LEMMA LatestIs ==
    ASSUME NEW T \in SUBSET Nat, NEW i \in Nat, NEW y \in T, y < i
    PROVE  LET m == CHOOSE x \in T : x < i /\ \A z \in T : z < i => z <= x
           IN m \in T /\ m < i /\ \A z \in T : z < i => z <= m
  <1> DEFINE below == {x \in T : x < i}
  <1>1. below \in SUBSET Nat /\ below # {} /\ \A x \in below : x <= i
    <2>1. y \in below
      OBVIOUS
    <2>2. below \in SUBSET Nat
      OBVIOUS
    <2>3. \A x \in below : x <= i
      OBVIOUS
    <2> QED
      BY <2>1, <2>2, <2>3
  <1> HIDE DEF below
  <1>2. PICK m \in below : \A x \in below : x <= m
    BY <1>1, Greatest
  <1>3. m \in T /\ m < i /\ \A z \in T : z < i => z <= m
    BY <1>2 DEF below
  <1> QED
    BY <1>3

\* Two elements of which each is the greatest below a number are one.
LEMMA LatestOnly ==
    ASSUME NEW T \in SUBSET Nat, NEW i \in Nat, NEW m \in T, m < i,
           \A z \in T : z < i => z <= m
    PROVE  m = CHOOSE x \in T : x < i /\ \A z \in T : z < i => z <= x
  <1> DEFINE l == CHOOSE x \in T : x < i /\ \A z \in T : z < i => z <= x
  <1>1. l \in T /\ l < i /\ \A z \in T : z < i => z <= l
    BY LatestIs
  <1> HIDE DEF l
  <1>2. l <= m /\ m <= l /\ l \in Nat /\ m \in Nat
    BY <1>1
  <1>3. l = m
    BY <1>2
  <1> QED
    BY <1>3 DEF l

\* The blocks that have a time, and where the intervals begin.
LEMMA TimedIs ==
    ASSUME NEW s \in Seq(Blocks)
    PROVE  /\ Len(s) \in Nat /\ Timed(s) \in SUBSET Nat /\ Timed(s) \subseteq 1..Len(s)
           /\ \A j \in 1..Len(s) : s[j].time \in U64 /\ s[j].txs \in U64
           /\ \A j \in 1..Len(s) : j \in Timed(s) <=> s[j].time > 0
           /\ FirstTimed(s) \in 0..Len(s)
           /\ Timed(s) = {} => FirstTimed(s) = Len(s)
           /\ Timed(s) # {} => FirstTimed(s) \in Timed(s) /\ \A x \in Timed(s) : FirstTimed(s) <= x
  <1>1. Len(s) \in Nat /\ DOMAIN s = 1..Len(s)
    OBVIOUS
  <1>2. \A j \in 1..Len(s) : s[j] \in Blocks
    OBVIOUS
  <1>3. \A j \in 1..Len(s) : s[j].time \in U64 /\ s[j].txs \in U64
    <2>1. \A b \in Blocks : b.time \in U64 /\ b.txs \in U64
      BY ChainAssumption
    <2> QED
      BY <1>2, <2>1
  <1>4. /\ Timed(s) \subseteq 1..Len(s)
        /\ \A j \in 1..Len(s) : j \in Timed(s) <=> s[j].time > 0
    BY <1>1 DEF Timed
  <1>5. Timed(s) \in SUBSET Nat
    BY <1>4
  <1>6. CASE Timed(s) = {}
    BY <1>1, <1>3, <1>4, <1>5, <1>6 DEF FirstTimed
  <1>7. CASE Timed(s) # {}
    <2>1. FirstTimed(s) = CHOOSE j \in Timed(s) : \A x \in Timed(s) : j <= x
      BY <1>7 DEF FirstTimed
    <2>2. FirstTimed(s) \in Timed(s) /\ \A x \in Timed(s) : FirstTimed(s) <= x
      BY <1>5, <1>7, <2>1, LeastIs
    <2> QED
      BY <1>1, <1>3, <1>4, <1>5, <1>7, <2>2
  <1> QED
    BY <1>6, <1>7

\* The latest block before another that has a time.
LEMMA LatestTimedIs ==
    ASSUME NEW s, Timed(s) \in SUBSET Nat, NEW i \in Nat, NEW y \in Timed(s), y < i
    PROVE  /\ LatestTimedBefore(s, i) \in Timed(s) /\ LatestTimedBefore(s, i) < i
           /\ \A z \in Timed(s) : z < i => z <= LatestTimedBefore(s, i)
  <1> DEFINE T == Timed(s)
  <1>1. LatestTimedBefore(s, i) = CHOOSE x \in T : x < i /\ \A z \in T : z < i => z <= x
    BY DEF LatestTimedBefore
  <1>2. T \in SUBSET Nat /\ y \in T
    OBVIOUS
  <1> HIDE DEF T
  <1>3. /\ LatestTimedBefore(s, i) \in T /\ LatestTimedBefore(s, i) < i
        /\ \A z \in T : z < i => z <= LatestTimedBefore(s, i)
    BY <1>1, <1>2, LatestIs
  <1> QED
    BY <1>3 DEF T

\* The intervals fit a u64.
LEMMA IntervalsType ==
    ASSUME NEW s \in Seq(Blocks)
    PROVE  Intervals(s) \in Seq(U64) /\ Len(Intervals(s)) = Len(s) - FirstTimed(s)
  <1> DEFINE n == Len(s) - FirstTimed(s)
  <1>1. n \in Nat
    BY TimedIs
  <1>2. ASSUME NEW k \in 1..n
        PROVE  IntervalAt(s, FirstTimed(s) + k) \in U64
    <2> DEFINE i == FirstTimed(s) + k
               j == LatestTimedBefore(s, i)
    <2>1. FirstTimed(s) \in Timed(s) /\ i \in 1..Len(s) /\ FirstTimed(s) < i
      BY TimedIs
    <2> HIDE DEF i
    <2>2. j \in Timed(s)
      <3>1. Timed(s) \in SUBSET Nat /\ i \in Nat
        BY <2>1, TimedIs
      <3> QED
        BY <2>1, <3>1, LatestTimedIs
    <2>3. s[i].time \in U64 /\ s[j].time \in U64
      BY <2>1, <2>2, TimedIs
    <2>4. IntervalAt(s, i) = IntervalBetween(s[i].time, s[j].time)
      BY DEF IntervalAt, IntervalBetween
    <2> HIDE DEF j
    <2> QED
      BY <2>3, <2>4, IntervalType DEF i
  <1>3. Intervals(s) = [k \in 1..n |-> IntervalAt(s, FirstTimed(s) + k)]
    BY DEF Intervals
  <1> HIDE DEF n
  <1>4. Intervals(s) \in Seq(U64) /\ Len(Intervals(s)) = n
    BY <1>1, <1>2, <1>3
  <1> QED
    BY <1>4 DEF n

\* The latest time among the blocks, if one has a time.
LatestTime(s, time) ==
    /\ Timed(s) = {} => time = 0
    /\ Timed(s) # {} => \E j \in Timed(s) : (\A x \in Timed(s) : x <= j) /\ time = s[j].time

\* A further block has an interval if an earlier one had a time: that from the
\* latest time before it.
LEMMA IntervalsAppend ==
    ASSUME NEW s \in Seq(Blocks), NEW b \in Blocks, NEW time \in U64, LatestTime(s, time)
    PROVE  /\ LatestTime(Append(s, b), IF b.time > 0 THEN b.time ELSE time)
           /\ Intervals(Append(s, b)) =
                IF time > 0 THEN Append(Intervals(s), IntervalBetween(b.time, time))
                ELSE Intervals(s)
  <1> DEFINE u == Append(s, b)
             n == Len(s)
             f == FirstTimed(s)
             g == FirstTimed(u)
  <1>1. /\ u \in Seq(Blocks) /\ Len(u) = n + 1 /\ u[n + 1] = b
        /\ \A j \in 1..n : u[j] = s[j]
    OBVIOUS
  <1> HIDE DEF u
  <1>2. /\ n \in Nat /\ Timed(s) \in SUBSET Nat /\ Timed(s) \subseteq 1..n
        /\ \A j \in 1..n : s[j].time \in U64
        /\ \A j \in 1..n : j \in Timed(s) <=> s[j].time > 0
        /\ f \in 0..n
        /\ Timed(s) = {} => f = n
        /\ Timed(s) # {} => f \in Timed(s) /\ \A x \in Timed(s) : f <= x
    BY TimedIs
  <1>3. /\ Timed(u) \in SUBSET Nat /\ Timed(u) \subseteq 1..n + 1
        /\ \A j \in 1..n + 1 : u[j].time \in U64
        /\ \A j \in 1..n + 1 : j \in Timed(u) <=> u[j].time > 0
        /\ g \in 0..n + 1
        /\ Timed(u) = {} => g = n + 1
        /\ Timed(u) # {} => g \in Timed(u) /\ \A x \in Timed(u) : g <= x
    BY <1>1, TimedIs
  <1> HIDE DEF n, f, g
  <1>4. /\ Timed(s) = Timed(u) \cap 1..n
        /\ n + 1 \in Timed(u) <=> b.time > 0
    <2>1. \A j \in 1..n : j \in 1..n + 1 /\ (j \in Timed(u) <=> j \in Timed(s))
      BY <1>1, <1>2, <1>3
    <2>2. n + 1 \in 1..n + 1
      BY <1>2
    <2> QED
      BY <1>1, <1>2, <1>3, <2>1, <2>2
  <1>5. Timed(u) \subseteq Timed(s) \cup {n + 1}
    BY <1>2, <1>3, <1>4
  <1>6. b.time \in U64 /\ U64 \subseteq Nat
    BY ChainAssumption, ChartsAssumption DEF U64
  <1>7. LatestTime(u, IF b.time > 0 THEN b.time ELSE time)
    <2>1. CASE b.time > 0
      <3>1. n + 1 \in Timed(u) /\ \A x \in Timed(u) : x <= n + 1
        BY <1>2, <1>3, <1>4, <2>1
      <3> QED
        BY <1>1, <2>1, <3>1 DEF LatestTime
    <2>2. CASE ~ (b.time > 0)
      <3>1. Timed(u) = Timed(s) /\ \A j \in Timed(s) : u[j] = s[j]
        BY <1>1, <1>2, <1>4, <1>5, <2>2
      <3> QED
        BY <2>2, <3>1 DEF LatestTime
    <2> QED
      BY <2>1, <2>2
  <1>8. CASE Timed(s) = {}
    <2>1. ~ (time > 0) /\ f = n /\ g = n + 1
      <3>1. time = 0 /\ f = n
        BY <1>2, <1>8 DEF LatestTime
      <3>2. g = n + 1
        BY <1>3, <1>5, <1>8
      <3> QED
        BY <3>1, <3>2
    <2>2. Intervals(s) \in Seq(U64) /\ Len(Intervals(s)) = 0
      BY <1>2, <2>1, IntervalsType DEF n, f
    <2>3. Intervals(u) \in Seq(U64) /\ Len(Intervals(u)) = 0
      BY <1>1, <1>2, <2>1, IntervalsType DEF g
    <2>4. Intervals(u) = Intervals(s)
      BY <2>2, <2>3
    <2> QED
      BY <1>7, <2>1, <2>4 DEF u
  <1>9. CASE Timed(s) # {}
    <2>1. PICK j \in Timed(s) : (\A x \in Timed(s) : x <= j) /\ time = s[j].time
      BY <1>9 DEF LatestTime
    <2>2. time > 0 /\ j \in 1..n
      BY <1>2, <2>1
    <2>3. g = f
      <3>1. f \in Timed(u) /\ g \in Timed(u) /\ g <= f
        BY <1>2, <1>3, <1>4, <1>9
      <3>2. g \in Timed(s)
        BY <1>2, <1>4, <1>5, <1>9, <3>1
      <3> QED
        BY <1>2, <1>3, <1>9, <3>1, <3>2
    <2>4. ASSUME NEW k \in 1..n - f
          PROVE  IntervalAt(u, f + k) = IntervalAt(s, f + k)
      <3> DEFINE i == f + k
                 p == LatestTimedBefore(s, i)
      <3>1. i \in 1..n /\ f < i /\ f \in Timed(s)
        BY <1>2, <1>9
      <3> HIDE DEF i
      <3>2. p \in Timed(s) /\ p < i /\ \A z \in Timed(s) : z < i => z <= p
        BY <1>2, <3>1, LatestTimedIs
      <3> HIDE DEF p
      <3>3. p \in Timed(u) /\ \A z \in Timed(u) : z < i => z <= p
        BY <1>2, <1>4, <1>5, <3>1, <3>2
      <3>4. p = LatestTimedBefore(u, i)
        BY <1>3, <3>1, <3>2, <3>3, LatestOnly DEF LatestTimedBefore
      <3>5. u[i] = s[i] /\ u[p] = s[p]
        BY <1>1, <1>2, <3>1, <3>2
      <3>6. IntervalAt(u, i) = IntervalAt(s, i)
        BY <3>4, <3>5 DEF IntervalAt, p
      <3> QED
        BY <3>6 DEF i
    <2>5. IntervalAt(u, n + 1) = IntervalBetween(b.time, time)
      <3>1. j \in Timed(u) /\ j < n + 1 /\ \A z \in Timed(u) : z < n + 1 => z <= j
        BY <1>2, <1>4, <1>5, <2>1, <2>2
      <3>2. j = LatestTimedBefore(u, n + 1)
        BY <1>2, <1>3, <3>1, LatestOnly DEF LatestTimedBefore
      <3>3. u[n + 1].time = b.time /\ u[j].time = time
        BY <1>1, <2>1, <2>2
      <3> QED
        BY <3>2, <3>3 DEF IntervalAt, IntervalBetween
    <2>6. /\ Intervals(s) \in Seq(U64) /\ Len(Intervals(s)) = n - f
          /\ \A k \in 1..n - f : Intervals(s)[k] = IntervalAt(s, f + k)
      <3>1. Intervals(s) = [k \in 1..n - f |-> IntervalAt(s, f + k)]
        BY DEF Intervals, n, f
      <3> QED
        BY <3>1, IntervalsType DEF n, f
    <2>7. /\ Intervals(u) \in Seq(U64) /\ Len(Intervals(u)) = (n + 1) - f
          /\ \A k \in 1..(n + 1) - f : Intervals(u)[k] = IntervalAt(u, f + k)
      <3>1. Intervals(u) = [k \in 1..(n + 1) - f |-> IntervalAt(u, f + k)]
        BY <1>1, <2>3 DEF Intervals, g
      <3> QED
        BY <1>1, <2>3, <3>1, IntervalsType DEF g
    <2> DEFINE w == Append(Intervals(s), IntervalBetween(b.time, time))
    <2>8. /\ w \in Seq(U64) /\ Len(w) = (n - f) + 1
          /\ w[(n - f) + 1] = IntervalBetween(b.time, time)
          /\ \A k \in 1..n - f : w[k] = Intervals(s)[k]
      <3>1. IntervalBetween(b.time, time) \in U64
        BY <1>6, IntervalType
      <3> DEFINE v == Intervals(s)
                 x == IntervalBetween(b.time, time)
                 m == n - f
      <3>2. v \in Seq(U64) /\ x \in U64 /\ Len(v) = m
        BY <2>6, <3>1
      <3> HIDE DEF v, x, m
      <3>3. /\ Append(v, x) \in Seq(U64) /\ Len(Append(v, x)) = m + 1
            /\ Append(v, x)[m + 1] = x
            /\ \A k \in 1..m : Append(v, x)[k] = v[k]
        BY <3>2
      <3> QED
        BY <3>3 DEF v, x, m
    <2> HIDE DEF w
    <2>9. Intervals(u) = w
      <3>1. (n + 1) - f = (n - f) + 1 /\ n - f \in Nat /\ f + ((n - f) + 1) = n + 1
        BY <1>2
      <3>2. ASSUME NEW k \in 1..(n + 1) - f
            PROVE  Intervals(u)[k] = w[k]
        <4>1. CASE k = (n - f) + 1
          BY <2>5, <2>7, <2>8, <3>1, <4>1
        <4>2. CASE k # (n - f) + 1
          <5>1. k \in 1..n - f
            BY <3>1, <4>2
          <5> QED
            BY <2>4, <2>6, <2>7, <2>8, <5>1
        <4> QED
          BY <4>1, <4>2
      <3> QED
        BY <2>7, <2>8, <3>1, <3>2, SameSeq
    <2> QED
      BY <1>7, <2>2, <2>9 DEF u, w
  <1> QED
    BY <1>8, <1>9

-----------------------------------------------------------------------------
(* The samples and the maxima are complete.                                *)

\* The transaction counts, and that of a further block.
LEMMA CountsAppend ==
    ASSUME NEW s \in Seq(Blocks), NEW b \in Blocks
    PROVE  /\ Counts(s) \in Seq(U64) /\ Len(Counts(s)) = Len(s)
           /\ \A i \in 1..Len(s) : Counts(s)[i] = s[i].txs
           /\ Counts(Append(s, b)) = Append(Counts(s), b.txs)
  <1> DEFINE u == Append(s, b)
             n == Len(s)
             c == Counts(s)
             x == b.txs
  <1>1. /\ u \in Seq(Blocks) /\ Len(u) = n + 1 /\ u[n + 1] = b /\ n \in Nat
        /\ \A j \in 1..n : u[j] = s[j]
    OBVIOUS
  <1>2. \A j \in 1..n : s[j].txs \in U64
    BY TimedIs
  <1>3. b.txs \in U64
    BY ChainAssumption, ChartsAssumption DEF U64
  <1>4. Counts(s) = [i \in 1..n |-> s[i].txs]
    BY DEF Counts
  <1>5. c \in Seq(U64) /\ Len(c) = n /\ \A i \in 1..n : c[i] = s[i].txs
    BY <1>1, <1>2, <1>4
  <1> HIDE DEF u, c, n
  <1>6. Counts(u) = [i \in 1..n + 1 |-> u[i].txs]
    BY <1>1 DEF Counts
  <1>7. \A i \in 1..n + 1 : u[i].txs \in U64
    <2>1. \A j \in 1..n + 1 : j = n + 1 \/ j \in 1..n
      BY <1>1
    <2> QED
      BY <1>1, <1>2, <1>3, <2>1
  <1>8. /\ Counts(u) \in Seq(U64) /\ Len(Counts(u)) = n + 1
        /\ \A i \in 1..n + 1 : Counts(u)[i] = u[i].txs
    BY <1>1, <1>6, <1>7
  <1> HIDE DEF x
  <1>9. x \in U64
    BY <1>3 DEF x
  <1>10. /\ Append(c, x) \in Seq(U64) /\ Len(Append(c, x)) = n + 1 /\ Append(c, x)[n + 1] = x
         /\ \A i \in 1..n : Append(c, x)[i] = c[i]
    BY <1>5, <1>9
  <1>11. ASSUME NEW i \in 1..n + 1
         PROVE  Counts(u)[i] = Append(c, x)[i]
    <2>1. CASE i = n + 1
      BY <1>1, <1>8, <1>10, <2>1 DEF x
    <2>2. CASE i # n + 1
      <3>1. i \in 1..n
        BY <1>1, <2>2
      <3> QED
        BY <1>1, <1>5, <1>8, <1>10, <3>1
    <2> QED
      BY <2>1, <2>2
  <1>12. Counts(u) = Append(c, x)
    BY <1>8, <1>10, <1>11, SameSeq
  <1> QED
    BY <1>5, <1>12 DEF u, c, x, n

\* A sequence that grows within a concatenation.
LEMMA ConcatAppend ==
    ASSUME NEW T, NEW a \in Seq(T), NEW s \in Seq(T), NEW x \in T
    PROVE  a \o Append(s, x) = Append(a \o s, x)
  OBVIOUS

\* What the charts show at the start.
LEMMA ShowsInit == ShowsLatest(EmptyChart, <<0>>, <<0, 0>>)
  <1> DEFINE s == <<0, 0>>
             z == <<0>>
  <1>1. /\ s \in Seq(Nat) /\ Len(s) = 2 /\ s[1] = 0 /\ s[2] = 0
        /\ z \in Seq(Nat) /\ Len(z) = 1 /\ z[1] = 0
    OBVIOUS
  <1> HIDE DEF s, z
  <1>2. SubSeq(s, 1, 1) = z /\ SubSeq(s, 2, 2) = z
    <2> DEFINE a == SubSeq(s, 0 + 1, 1)
               b == SubSeq(s, 1 + 1, 2)
    <2>1. a \in Seq(Nat) /\ Len(a) = 1 - 0 /\ \A i \in 1..1 - 0 : a[i] = s[0 + i]
      BY <1>1, SubSeqIs
    <2>2. b \in Seq(Nat) /\ Len(b) = 2 - 1 /\ \A i \in 1..2 - 1 : b[i] = s[1 + i]
      BY <1>1, SubSeqIs
    <2> HIDE DEF a, b
    <2>3. a = z
      BY <1>1, <2>1, SameSeq
    <2>4. b = z
      BY <1>1, <2>2, SameSeq
    <2> QED
      BY <2>3, <2>4 DEF a, b
  <1>3. LastOf(z, MaxDataPoints) = z
    <2> DEFINE l == LastOf(z, MaxDataPoints)
    <2>1. MaxDataPoints \in Nat /\ ~ (Len(z) > MaxDataPoints)
      BY <1>1, ChartsAssumption
    <2>2. l \in Seq(Nat) /\ Len(l) = 1 /\ \A i \in 1..1 : l[i] = z[1 - 1 + i]
      BY <1>1, <2>1, LastOfIs
    <2> HIDE DEF l
    <2>3. l = z
      BY <1>1, <2>2, SameSeq
    <2> QED
      BY <2>3 DEF l
  <1>4. \A i \in 2..Len(EmptyChart.points) :
            EmptyChart.points[i][1] \in EmptyChart.points[i - 1][1] .. EmptyChart.points[i - 1][1] + 1
    BY DEF EmptyChart
  <1>5. Values(EmptyChart) = z /\ Len(s) - Len(z) = 1 /\ 1 + 1 = 2
    BY <1>1, EmptyChartIs DEF z
  <1> DEFINE taken == Len(s) - Len(z)
  <1>6. /\ taken >= 1 /\ z = SubSeq(s, taken + 1, Len(s))
        /\ Values(EmptyChart) = LastOf(SubSeq(s, 1, taken), MaxDataPoints)
    <2>1. taken = 1 /\ taken + 1 = 2 /\ Len(s) = 2
      BY <1>1, <1>5
    <2> HIDE DEF taken
    <2>2. taken >= 1
      BY <2>1
    <2>3. z = SubSeq(s, taken + 1, Len(s))
      BY <1>2, <2>1, Zenon
    <2>4. Values(EmptyChart) = LastOf(SubSeq(s, 1, taken), MaxDataPoints)
      BY <1>2, <1>3, <1>5, <2>1, Zenon
    <2> QED
      BY <2>2, <2>3, <2>4
  <1>7. ShowsLatest(EmptyChart, z, s)
    BY <1>4, <1>6 DEF ShowsLatest
  <1> QED
    BY <1>7 DEF s, z

\* The inductive invariant: the time the next interval is measured from is the
\* latest one among the samples.
SInv == TInv /\ LatestTime(samples, PreviousTime) /\ ChartsComplete /\ MaximaExact

\* It holds at the start.
LEMMA SInvInit == Init => SInv
  <1> SUFFICES ASSUME Init PROVE SInv
    OBVIOUS
  <1>1. /\ samples = <<>> /\ PreviousTime = 0
        /\ chain.txns = <<0>> /\ chain.intervals = <<0>>
        /\ chain.maxTxs = 0 /\ chain.maxInterval = 0
        /\ txsWidget.chart = EmptyChart /\ timeWidget.chart = EmptyChart
    BY DEF Init, ChainInit, PreviousTime
  <1>2. Timed(samples) = {} /\ Counts(samples) = <<>> /\ Intervals(samples) = <<>>
    <2>1. Timed(samples) = {} /\ Counts(samples) = <<>> /\ Len(samples) = 0
      BY <1>1 DEF Timed, Counts
    <2>2. samples \in Seq(Blocks)
      BY <1>1
    <2>3. Intervals(samples) \in Seq(U64) /\ Len(Intervals(samples)) = 0
      <3>1. Len(samples) - FirstTimed(samples) = 0
        BY <2>1 DEF FirstTimed
      <3> QED
        BY <2>2, <3>1, IntervalsType
    <2> QED
      BY <2>1, <2>3
  <1>3. <<0, 0>> \o <<>> = <<0, 0>>
    OBVIOUS
  <1>4. ChartsComplete
    BY <1>1, <1>2, <1>3, ShowsInit DEF ChartsComplete
  <1>5. LargestOf(<<>>) = 0
    BY DEF LargestOf
  <1>6. MaximaExact
    BY <1>1, <1>2, <1>5 DEF MaximaExact
  <1> QED
    BY <1>1, <1>2, <1>4, <1>6, TInvInit DEF SInv, LatestTime

\* Recording a block keeps it.
LEMMA SInvRecord ==
    ASSUME SInv, NEW b \in Blocks, RecordBlockSample(b)
    PROVE  LatestTime(samples, PreviousTime)' /\ ChartsComplete' /\ MaximaExact'
  <1> DEFINE prev == PreviousTime
             interval == IntervalBetween(b.time, prev)
             log == <<0, 0>> \o Counts(samples)
             times == <<0, 0>> \o Intervals(samples)
  <1>1. /\ ChainTypeOK /\ samples \in Seq(Blocks)
        /\ chain.txns \in Seq(U64) /\ chain.intervals \in Seq(U64)
        /\ chain.maxTxs \in U64 /\ chain.maxInterval \in U64
        /\ txsWidget.chart \in Chart /\ timeWidget.chart \in Chart
    BY DEF SInv, TInv, TypeOK, ChainTypeOK
  <1>2. prev \in U64 /\ b.time \in U64 /\ b.txs \in U64 /\ 0 \in U64 /\ U64 \subseteq Nat
    <2>1. b.time \in U64 /\ b.txs \in U64
      BY ChainAssumption, ChartsAssumption DEF U64
    <2>2. PreviousTime \in U64
      BY <1>1 DEF ChainTypeOK, PreviousTime
    <2>3. 0 \in U64 /\ U64 \subseteq Nat
      BY ChainAssumption, ChartsAssumption DEF U64
    <2> QED
      BY <2>1, <2>2, <2>3
  <1>3. interval \in U64
    BY <1>2, IntervalType
  <1>4. samples' = Append(samples, b) /\ UNCHANGED <<txsWidget, timeWidget>>
    BY DEF RecordBlockSample
  <1>5. /\ chain'.number = b.number /\ chain'.time = b.time /\ chain'.prevTime = prev
        /\ chain'.maxTxs = IF b.txs > chain.maxTxs THEN b.txs ELSE chain.maxTxs
        /\ chain'.maxTxsBlock = IF b.txs > chain.maxTxs THEN b.number ELSE chain.maxTxsBlock
        /\ chain'.txns = Append(chain.txns, b.txs)
        /\ chain'.intervals = IF prev > 0 THEN Append(chain.intervals, interval)
                              ELSE chain.intervals
        /\ chain'.maxInterval = IF prev > 0 /\ interval > chain.maxInterval
                                THEN interval ELSE chain.maxInterval
    BY DEF RecordBlockSample, RaisesMaximum
  <1>6. PreviousTime' = IF b.time > 0 THEN b.time ELSE prev
    BY <1>5 DEF PreviousTime
  <1> HIDE DEF prev, interval
  <1>7. /\ LatestTime(Append(samples, b), IF b.time > 0 THEN b.time ELSE prev)
        /\ Intervals(Append(samples, b)) =
             IF prev > 0 THEN Append(Intervals(samples), interval) ELSE Intervals(samples)
    BY <1>1, <1>2, IntervalsAppend DEF SInv, prev, interval
  <1>8. LatestTime(samples, PreviousTime)'
    BY <1>4, <1>6, <1>7 DEF LatestTime
  <1>9. /\ Counts(samples) \in Seq(U64) /\ Counts(samples') = Append(Counts(samples), b.txs)
        /\ Intervals(samples) \in Seq(U64)
    BY <1>1, <1>4, CountsAppend, IntervalsType
  <1>10. <<0, 0>> \in Seq(U64) /\ log \in Seq(U64) /\ times \in Seq(U64)
    BY <1>2, <1>9
  <1>11. /\ <<0, 0>> \o Counts(samples') = Append(log, b.txs)
         /\ <<0, 0>> \o Intervals(samples') = IF prev > 0 THEN Append(times, interval) ELSE times
    <2>1. <<0, 0>> \o Append(Counts(samples), b.txs) = Append(log, b.txs)
      BY <1>2, <1>9, <1>10, ConcatAppend
    <2>2. <<0, 0>> \o Append(Intervals(samples), interval) = Append(times, interval)
      BY <1>3, <1>9, <1>10, ConcatAppend
    <2> QED
      BY <1>4, <1>7, <1>9, <2>1, <2>2
  <1> HIDE DEF log, times
  <1>12. /\ ShowsLatest(txsWidget.chart, chain.txns, log)
         /\ ShowsLatest(timeWidget.chart, chain.intervals, times)
    BY DEF SInv, ChartsComplete, log, times
  <1>13. ShowsLatest(txsWidget.chart, Append(chain.txns, b.txs), Append(log, b.txs))
    BY <1>1, <1>2, <1>10, <1>12, ShowsAppend
  <1>14. ShowsLatest(timeWidget.chart, Append(chain.intervals, interval), Append(times, interval))
    BY <1>1, <1>3, <1>10, <1>12, ShowsAppend
  <1>15. ChartsComplete'
    <2>1. ShowsLatest(txsWidget.chart', chain'.txns, <<0, 0>> \o Counts(samples'))
      BY <1>4, <1>5, <1>11, <1>13
    <2>2. ShowsLatest(timeWidget.chart', chain'.intervals, <<0, 0>> \o Intervals(samples'))
      BY <1>4, <1>5, <1>11, <1>12, <1>14
    <2> QED
      BY <2>1, <2>2 DEF ChartsComplete
  <1>16. chain'.maxTxs = LargestOf(Counts(samples'))
    BY <1>2, <1>5, <1>9, LargestAppend DEF SInv, MaximaExact
  <1>17. chain'.maxInterval = LargestOf(Intervals(samples'))
    BY <1>3, <1>4, <1>5, <1>7, <1>9, LargestAppend DEF SInv, MaximaExact
  <1>18. ASSUME chain'.maxTxs > 0
         PROVE  \E i \in DOMAIN samples' :
                    /\ samples'[i].number = chain'.maxTxsBlock
                    /\ samples'[i].txs = chain'.maxTxs
                    /\ \A j \in 1..i - 1 : samples'[j].txs < chain'.maxTxs
    <2> DEFINE n == Len(samples)
    <2>1. /\ n \in Nat /\ DOMAIN samples' = 1..n + 1 /\ samples'[n + 1] = b
          /\ DOMAIN samples = 1..n /\ \A j \in 1..n : samples'[j] = samples[j]
      BY <1>1, <1>4
    <2>2. \A j \in 1..n : samples[j].txs \in U64
      BY <1>1, TimedIs
    <2>3. CASE b.txs > chain.maxTxs
      <3>1. \A j \in 1..n : samples[j].txs <= chain.maxTxs
        <4>1. \A j \in DOMAIN Counts(samples) : Counts(samples)[j] <= chain.maxTxs
          BY <1>9, LargestIs DEF SInv, MaximaExact
        <4> QED
          BY <1>1, <1>9, <4>1, CountsAppend
      <3>2. \A j \in 1..n : samples[j].txs < b.txs
        <4>1. chain.maxTxs \in Nat /\ b.txs \in Nat /\ \A j \in 1..n : samples[j].txs \in Nat
          BY <1>1, <1>2, <2>2
        <4> HIDE DEF n
        <4> QED
          BY <2>3, <3>1, <4>1
      <3> HIDE DEF n
      <3>3. n + 1 \in DOMAIN samples' /\ (n + 1) - 1 = n
        BY <2>1
      <3> QED
        BY <1>5, <2>1, <2>3, <3>2, <3>3
    <2>4. CASE ~ (b.txs > chain.maxTxs)
      <3>1. chain'.maxTxs = chain.maxTxs /\ chain'.maxTxsBlock = chain.maxTxsBlock
        BY <1>5, <2>4
      <3>2. PICK i \in DOMAIN samples :
                /\ samples[i].number = chain.maxTxsBlock /\ samples[i].txs = chain.maxTxs
                /\ \A j \in 1..i - 1 : samples[j].txs < chain.maxTxs
        BY <1>18, <3>1 DEF SInv, MaximaExact
      <3> HIDE DEF n
      <3>3. i \in 1..n /\ i \in 1..n + 1 /\ \A j \in 1..i - 1 : j \in 1..n
        BY <2>1, <3>2
      <3> QED
        BY <2>1, <3>1, <3>2, <3>3
    <2> QED
      BY <2>3, <2>4
  <1>19. MaximaExact'
    BY <1>16, <1>17, <1>18 DEF MaximaExact
  <1> QED
    BY <1>8, <1>15, <1>19

\* A widget that takes its samples keeps it.
LEMMA SInvWidgets ==
    ASSUME SInv, UpdateTxsWidget \/ UpdateTimeWidget
    PROVE  LatestTime(samples, PreviousTime)' /\ ChartsComplete' /\ MaximaExact'
  <1> DEFINE log == <<0, 0>> \o Counts(samples)
             times == <<0, 0>> \o Intervals(samples)
  <1>1. /\ ChainTypeOK /\ samples \in Seq(Blocks)
        /\ chain.txns \in Seq(U64) /\ chain.intervals \in Seq(U64)
        /\ txsWidget.chart \in Chart /\ timeWidget.chart \in Chart
        /\ Steady(txsWidget.chart) /\ Steady(timeWidget.chart)
    BY DEF SInv, TInv, TypeOK, ChainTypeOK
  <1>2. 0 \in U64
    BY ChainAssumption, ChartsAssumption DEF U64
  <1>3. Counts(samples) \in Seq(U64) /\ Intervals(samples) \in Seq(U64)
    <2>1. Counts(samples) \in Seq(U64)
      <3>1. /\ DOMAIN samples = 1..Len(samples) /\ Len(samples) \in Nat
            /\ \A i \in 1..Len(samples) : samples[i].txs \in U64
        BY <1>1, TimedIs
      <3> QED
        BY <3>1 DEF Counts
    <2> QED
      BY <1>1, <2>1, IntervalsType
  <1>4. log \in Seq(U64) /\ times \in Seq(U64)
    BY <1>2, <1>3
  <1> HIDE DEF log, times
  <1>5. /\ ShowsLatest(txsWidget.chart, chain.txns, log)
        /\ ShowsLatest(timeWidget.chart, chain.intervals, times)
    BY DEF SInv, ChartsComplete, log, times
  <1>6. samples' = samples
    BY DEF UpdateTxsWidget, UpdateTimeWidget
  <1>7. /\ chain'.maxTxs = chain.maxTxs /\ chain'.maxInterval = chain.maxInterval
        /\ chain'.maxTxsBlock = chain.maxTxsBlock
        /\ chain'.time = chain.time /\ chain'.prevTime = chain.prevTime
    BY <1>1 DEF UpdateTxsWidget, UpdateTimeWidget, ChainTypeOK
  <1>8. LatestTime(samples, PreviousTime)' /\ MaximaExact'
    BY <1>6, <1>7 DEF SInv, LatestTime, PreviousTime, MaximaExact
  <1>9. CASE UpdateTxsWidget
    <2>1. /\ txsWidget'.chart = AppendSamples(txsWidget.chart, chain.txns)
          /\ timeWidget' = timeWidget
          /\ chain'.txns = <<>> /\ chain'.intervals = chain.intervals
      BY <1>1, <1>9 DEF UpdateTxsWidget, ChainTypeOK
    <2>2. ShowsLatest(AppendSamples(txsWidget.chart, chain.txns), <<>>, log)
      BY <1>1, <1>4, <1>5, ShowsTake
    <2>3. ChartsComplete'
      BY <1>5, <1>6, <2>1, <2>2 DEF ChartsComplete, log, times
    <2> QED
      BY <1>8, <2>3
  <1>10. CASE UpdateTimeWidget
    <2>1. /\ timeWidget'.chart = AppendSamples(timeWidget.chart, chain.intervals)
          /\ txsWidget' = txsWidget
          /\ chain'.intervals = <<>> /\ chain'.txns = chain.txns
      BY <1>1, <1>10 DEF UpdateTimeWidget, ChainTypeOK
    <2>2. ShowsLatest(AppendSamples(timeWidget.chart, chain.intervals), <<>>, times)
      BY <1>1, <1>4, <1>5, ShowsTake
    <2>3. ChartsComplete'
      BY <1>5, <1>6, <2>1, <2>2 DEF ChartsComplete, log, times
    <2> QED
      BY <1>8, <2>3
  <1> QED
    BY <1>9, <1>10

\* Every step keeps it: the task records blocks, the widgets take samples, and
\* all other steps leave the statistics alone.
LEMMA SInvNext == SInv /\ [Next]_vars => SInv'
  <1> SUFFICES ASSUME SInv, [Next]_vars PROVE SInv'
    OBVIOUS
  <1>1. TInv'
    BY TInvNext DEF SInv
  <1>2. ASSUME UNCHANGED chainVars
        PROVE  SInv'
    BY <1>1, <1>2 DEF SInv, LatestTime, PreviousTime, ChartsComplete, MaximaExact, chainVars
  <1>3. ASSUME NEW b \in Blocks, BlockArrives(b)
        PROVE  SInv'
    <2>1. RecordBlockSample(b)
      BY <1>3 DEF BlockArrives
    <2> QED
      BY <1>1, <1>3, <2>1, SInvRecord DEF SInv
  <1>4. CASE Widgets
    BY <1>1, <1>4, SInvWidgets DEF SInv, Widgets
  <1>5. CASE UNCHANGED vars
    BY <1>2, <1>5 DEF vars
  <1>6. CASE \/ Connect \/ Subscribe \/ SubscribeFails \/ StopSeen \/ ConnectionFails \/ PauseEnds
             \/ \E h \in Heads : HeadArrives(h)
             \/ SkipBlock \/ Quit
             \/ \E e \in Endpoints : EndpointChanges(e)
    BY <1>2, <1>6 DEF Connect, Subscribe, SubscribeFails, StopSeen, ConnectionFails, PauseEnds,
        HeadArrives, SkipBlock, Quit, EndpointChanges
  <1> QED
    BY <1>3, <1>4, <1>5, <1>6 DEF Next

\* The inductive invariant always holds.
LEMMA SInvAlways == Spec => []SInv
  BY SInvInit, SInvNext, PTL DEF Spec

\* However the blocks and the two widgets interleave, each chart shows exactly
\* the latest samples that were recorded up to its last update, in order, and
\* those that follow are waiting for it.
THEOREM ChainChartsComplete == Spec => []ChartsComplete
  <1>1. SInv => ChartsComplete
    BY DEF SInv
  <1> QED
    BY <1>1, SInvAlways, PTL

\* The maxima of the statistics are those of all blocks ever recorded, whatever
\* their times are, and the busiest block is the first of those that share its
\* count.
THEOREM ChainMaximaExact == Spec => []MaximaExact
  <1>1. SInv => MaximaExact
    BY DEF SInv
  <1> QED
    BY <1>1, SInvAlways, PTL

\* A block recorded after the stop flag was set is the last one.
THEOREM ChainLastSampleAfterStop == Spec => LastSampleAfterStop
  <1>1. [Next]_vars => [stop /\ samples' # samples => place' = "ended"]_vars
    <2> SUFFICES ASSUME [Next]_vars, stop, samples' # samples PROVE place' = "ended"
      OBVIOUS
    <2>1. \A b \in Blocks : BlockArrives(b) => place' = "ended"
      BY DEF BlockArrives, BackToStream
    <2>2. samples' = samples \/ \E b \in Blocks : BlockArrives(b)
      BY DEF Next, Connect, Subscribe, SubscribeFails, StopSeen, ConnectionFails, PauseEnds,
        HeadArrives, SkipBlock, Quit, EndpointChanges, Widgets, UpdateTxsWidget,
        UpdateTimeWidget, chainVars, vars
    <2> QED
      BY <2>1, <2>2
  <1> QED
    BY <1>1, PTL DEF Spec, LastSampleAfterStop

-----------------------------------------------------------------------------
(* The axis and the average.                                               *)

\* A sum lies between the length times a lower and an upper bound.
LEMMA SumBounds ==
    ASSUME NEW s \in Seq(Nat), NEW lo \in Nat, NEW hi \in Nat,
           \A i \in 1..Len(s) : lo <= s[i] /\ s[i] <= hi
    PROVE  Total(s) \in Nat /\ lo * Len(s) <= Total(s) /\ Total(s) <= hi * Len(s)
  <1> DEFINE Body(g, n) == [i \in 0..n |-> IF i = 0 THEN 0 ELSE g[i - 1] + s[i]]
             Solvable == {n \in Nat : \E g : g = Body(g, n)}
             upTo == CHOOSE g : g = Body(g, Len(s))
             Bounded == {n \in Nat : n <= Len(s) =>
                            upTo[n] \in Nat /\ lo * n <= upTo[n] /\ upTo[n] <= hi * n}
  <1>1. 0 \in Solvable
    <2>1. [i \in 0..0 |-> 0] = Body([i \in 0..0 |-> 0], 0)
      OBVIOUS
    <2> QED
      BY <2>1
  <1>2. ASSUME NEW n \in Solvable
        PROVE  n + 1 \in Solvable
    <2>1. PICK g : g = Body(g, n)
      OBVIOUS
    <2> DEFINE h == [i \in 0..n + 1 |-> IF i <= n THEN g[i] ELSE g[n] + s[n + 1]]
    <2>2. \A i \in 0..n : g[i] = Body(g, n)[i]
      BY <2>1
    <2>3. ASSUME NEW i \in 0..n + 1
          PROVE  h[i] = Body(h, n + 1)[i]
      <3>1. CASE i = n + 1
        BY <3>1
      <3>2. CASE i # n + 1
        <4>1. i \in 0..n
          BY <3>2
        <4>2. h[i] = g[i] /\ (i # 0 => h[i - 1] = g[i - 1])
          BY <4>1
        <4>3. h[i] = Body(g, n)[i]
          BY <2>2, <4>1, <4>2
        <4> QED
          BY <4>1, <4>2, <4>3
      <3> QED
        BY <3>1, <3>2
    <2>4. h = Body(h, n + 1)
      BY <2>3
    <2> HIDE DEF h, Body
    <2>5. n + 1 \in Nat
      OBVIOUS
    <2> QED
      BY <2>4, <2>5
  <1>3. Solvable = Nat
    <2> HIDE DEF Solvable
    <2>1. Solvable \in SUBSET Nat
      BY DEF Solvable
    <2> QED
      BY <1>1, <1>2, <2>1, Induction
  <1>4. Len(s) \in Nat
    OBVIOUS
  <1>5. upTo = Body(upTo, Len(s))
    <2>1. \E g : g = Body(g, Len(s))
      BY <1>3, <1>4
    <2> HIDE DEF Body
    <2> QED
      BY <2>1
  <1>6. Total(s) = upTo[Len(s)]
    BY DEF Total
  <1> HIDE DEF upTo
  <1>7. 0 \in Bounded
    <2>1. upTo[0] = 0 /\ lo * 0 = 0 /\ hi * 0 = 0
      BY <1>4, <1>5
    <2> QED
      BY <2>1
  <1>8. ASSUME NEW n \in Bounded, n + 1 <= Len(s)
        PROVE  /\ upTo[n + 1] \in Nat
               /\ lo * (n + 1) <= upTo[n + 1] /\ upTo[n + 1] <= hi * (n + 1)
    <2>1. n \in Nat /\ n + 1 \in 0..Len(s) /\ n + 1 \in 1..Len(s) /\ n + 1 # 0 /\ (n + 1) - 1 = n
      BY <1>4, <1>8
    <2>2. upTo[n + 1] = upTo[n] + s[n + 1]
      <3>1. upTo[n + 1] = Body(upTo, Len(s))[n + 1]
        BY <1>5
      <3> HIDE <1>5
      <3> QED
        BY <2>1, <3>1
    <2>3. upTo[n] \in Nat /\ lo * n <= upTo[n] /\ upTo[n] <= hi * n
      BY <1>4, <1>8
    <2>4. s[n + 1] \in Nat /\ lo <= s[n + 1] /\ s[n + 1] <= hi
      BY <2>1
    <2>5. /\ lo * (n + 1) = lo * n + lo /\ hi * (n + 1) = hi * n + hi
          /\ lo * n \in Nat /\ hi * n \in Nat
      BY <2>1
    <2> DEFINE a == lo * n
               b == hi * n
               x == upTo[n]
               y == s[n + 1]
    <2>6. /\ a \in Nat /\ b \in Nat /\ x \in Nat /\ y \in Nat
          /\ a <= x /\ x <= b /\ lo <= y /\ y <= hi
      BY <2>3, <2>4, <2>5
    <2> HIDE DEF a, b, x, y
    <2>7. x + y \in Nat /\ a + lo <= x + y /\ x + y <= b + hi
      BY <2>6
    <2> QED
      BY <2>2, <2>5, <2>7 DEF a, b, x, y
  <1>9. Bounded = Nat
    <2>1. \A n \in Bounded : n + 1 \in Bounded
      BY <1>8
    <2> HIDE DEF Bounded
    <2>2. Bounded \in SUBSET Nat
      BY DEF Bounded
    <2> QED
      BY <1>7, <2>1, <2>2, Induction
  <1> QED
    BY <1>4, <1>6, <1>9

\* A quotient lies between the bounds that its dividend has by the divisor.
LEMMA DivBounds ==
    ASSUME NEW t \in Nat, NEW n \in Nat \ {0}, NEW lo \in Nat, NEW hi \in Nat,
           lo * n <= t, t <= hi * n
    PROVE  t \div n \in Nat /\ lo <= t \div n /\ t \div n <= hi
  <1> DEFINE q == t \div n
  <1>1. q \in Nat /\ q * n <= t /\ t < (q + 1) * n
    BY Z3
  <1> HIDE DEF q
  <1>2. lo <= q
    <2>1. lo * n < (q + 1) * n
      BY <1>1
    <2>2. lo < q + 1
      BY <1>1, <2>1
    <2> QED
      BY <1>1, <2>2
  <1>3. q <= hi
    <2>1. q * n <= hi * n
      BY <1>1
    <2> QED
      BY <1>1, <2>1
  <1> QED
    BY <1>1, <1>2, <1>3 DEF q

\* What the chart keeps of its points, and the numbers averaged.
LEMMA FloatsAre ==
    ASSUME NEW c \in Chart
    PROVE  /\ Floats(c) \in Seq(0 .. U64Max + 1) /\ DOMAIN Floats(c) = DOMAIN c.points
           /\ NonZero(c) \in Seq(U64 \cap (Nat \ {0}))
  <1> DEFINE f == Floats(c)
             g == [i \in DOMAIN c.points |-> AtMost(f[i], U64Max)]
  <1>1. /\ c.points \in Seq(Nat \X U64) /\ Len(c.points) \in Nat
        /\ DOMAIN c.points = 1..Len(c.points)
    BY DEF Chart
  <1>2. \A i \in 1..Len(c.points) : c.points[i][2] \in U64
    BY <1>1
  <1>3. f = [i \in 1..Len(c.points) |-> Float[c.points[i][2]]]
    BY <1>1 DEF Floats
  <1>4. \A i \in 1..Len(c.points) : Float[c.points[i][2]] \in 0 .. U64Max + 1
    BY <1>2, ChartsAssumption
  <1>5. f \in Seq(0 .. U64Max + 1) /\ DOMAIN f = 1..Len(c.points)
    BY <1>1, <1>3, <1>4
  <1>6. \A i \in 1..Len(c.points) : AtMost(f[i], U64Max) \in U64
    <2>1. \A i \in 1..Len(c.points) : f[i] \in 0 .. U64Max + 1
      BY <1>3, <1>4
    <2> HIDE DEF f
    <2> QED
      BY <2>1, ChartsAssumption DEF AtMost, U64
  <1>7. g \in Seq(U64)
    <2> HIDE DEF f
    <2>1. g = [i \in 1..Len(c.points) |-> AtMost(f[i], U64Max)]
      BY <1>1
    <2> QED
      BY <1>1, <1>6, <2>1
  <1>8. NonZero(c) = Filtered(g, Nat \ {0})
    BY DEF NonZero
  <1> HIDE DEF g
  <1>9. NonZero(c) \in Seq(U64 \cap (Nat \ {0}))
    BY <1>7, <1>8, FilteredType
  <1> QED
    BY <1>1, <1>5, <1>9

\* average_recent_nonzero_rounded: the average lies among the recent samples,
\* unless their sum does not fit into a u64.
LEMMA AverageAmong ==
    ASSUME NEW c \in Chart, LastOf(NonZero(c), AverageWindow) # <<>>,
           Total(LastOf(NonZero(c), AverageWindow)) <= U64Max
    PROVE  LET recent == LastOf(NonZero(c), AverageWindow)
           IN /\ \E i \in DOMAIN recent : recent[i] <= Average(c)
              /\ \E i \in DOMAIN recent : recent[i] >= Average(c)
  <1> DEFINE recent == LastOf(NonZero(c), AverageWindow)
             V == {recent[i] : i \in DOMAIN recent}
  <1>1. NonZero(c) \in Seq(U64 \cap (Nat \ {0}))
    BY FloatsAre
  <1>2. recent \in Seq(U64 \cap (Nat \ {0}))
    BY <1>1, LastOfIs, ChartsAssumption
  <1>3. Average(c) = Sum(recent) \div Len(recent)
    BY DEF Average
  <1> HIDE DEF recent
  <1>4. /\ recent \in Seq(Nat) /\ Len(recent) \in Nat \ {0} /\ DOMAIN recent = 1..Len(recent)
        /\ \A i \in 1..Len(recent) : recent[i] \in U64 /\ recent[i] \in Nat
    <2>1. recent # <<>>
      BY DEF recent
    <2> QED
      BY <1>2, <2>1
  <1>5. V \in SUBSET Nat /\ V # {}
    <2>1. 1 \in DOMAIN recent
      BY <1>4
    <2> QED
      BY <1>4, <2>1
  <1>6. U64Max \in Nat /\ \A v \in V : v <= U64Max
    BY <1>4, ChartsAssumption DEF U64
  <1>7. \A i \in DOMAIN recent : recent[i] \in V
    OBVIOUS
  <1>8. \A v \in V : \E i \in DOMAIN recent : recent[i] = v
    OBVIOUS
  <1> HIDE DEF V
  <1>9. PICK lo \in V : \A v \in V : lo <= v
    BY <1>5, Least
  <1>10. PICK hi \in V : \A v \in V : v <= hi
    BY <1>5, <1>6, Greatest
  <1>11. \A i \in 1..Len(recent) : lo <= recent[i] /\ recent[i] <= hi
    BY <1>4, <1>7, <1>9, <1>10
  <1>12. lo \in Nat /\ hi \in Nat
    BY <1>5
  <1>13. /\ Total(recent) \in Nat
         /\ lo * Len(recent) <= Total(recent) /\ Total(recent) <= hi * Len(recent)
    BY <1>4, <1>11, <1>12, SumBounds
  <1>16. Sum(recent) = Total(recent)
    <2>1. Total(recent) <= U64Max
      BY DEF recent
    <2> QED
      BY <1>6, <1>13, <2>1 DEF Sum
  <1>14. lo <= Average(c) /\ Average(c) <= hi /\ Average(c) \in Nat
    BY <1>3, <1>4, <1>12, <1>13, <1>16, DivBounds
  <1>15. /\ \E i \in DOMAIN recent : recent[i] <= Average(c)
         /\ \E i \in DOMAIN recent : recent[i] >= Average(c)
    BY <1>8, <1>12, <1>14
  <1> QED
    BY <1>15 DEF recent

\* y_axis_upper_bound: the axis reaches the largest of the values.
LEMMA AxisReaches ==
    ASSUME NEW c \in Chart
    PROVE  \A i \in DOMAIN c.points : Floats(c)[i] <= AxisTop(c)
  <1> DEFINE max == LargestOf(Floats(c))
             fits == {i \in DOMAIN AxisSteps : 11 * max <= 10 * AxisSteps[i][1]}
             at == IF fits = {} THEN Len(AxisSteps)
                   ELSE CHOOSE i \in fits : \A j \in fits : i <= j
             step == AxisSteps[at][2]
             top == CeilDiv(11 * max, 10 * step) * step
  <1>1. /\ Floats(c) \in Seq(0 .. U64Max + 1) /\ DOMAIN Floats(c) = DOMAIN c.points
        /\ U64Max + 1 \in Nat
    BY FloatsAre, ChartsAssumption
  <1>2. max \in Nat /\ \A i \in DOMAIN c.points : Floats(c)[i] <= max /\ Floats(c)[i] \in Nat
    <2>1. max \in 0 .. U64Max + 1 /\ \A i \in DOMAIN c.points : Floats(c)[i] <= max
      BY <1>1, LargestWithin
    <2>2. \A i \in DOMAIN c.points : Floats(c)[i] \in 0 .. U64Max + 1
      BY <1>1
    <2> QED
      BY <1>1, <2>1, <2>2
  <1>3. AxisTop(c) = IF max <= MinAxis THEN MinAxis ELSE top
    BY DEF AxisTop
  <1> HIDE DEF max
  <1>4. /\ AxisSteps \in Seq(Nat \X (Nat \ {0})) /\ DOMAIN AxisSteps = 1..Len(AxisSteps)
        /\ Len(AxisSteps) \in DOMAIN AxisSteps
    BY ChartsAssumption
  <1>5. at \in DOMAIN AxisSteps
    <2>1. CASE fits = {}
      BY <1>4, <2>1
    <2>2. CASE fits # {}
      <3>1. fits \in SUBSET Nat /\ fits \subseteq DOMAIN AxisSteps
        BY <1>4
      <3> HIDE DEF fits
      <3>2. \E i \in fits : \A j \in fits : i <= j
        BY <2>2, <3>1, Least
      <3> QED
        BY <2>2, <3>1, <3>2
    <2> QED
      BY <2>1, <2>2
  <1> HIDE DEF at
  <1>6. step \in Nat \ {0}
    BY <1>4, <1>5
  <1> HIDE DEF step
  <1>7. max <= top /\ top \in Nat
    <2> DEFINE a == 11 * max
               b == 10 * step
               q == (a + b - 1) \div b
    <2>1. a \in Nat /\ b \in Nat \ {0} /\ a + b - 1 \in Nat
      BY <1>2, <1>6
    <2>2. CeilDiv(a, b) = q
      BY DEF CeilDiv
    <2> HIDE DEF a, b
    <2>3. q \in Nat /\ a <= q * b
      BY <2>1, Z3
    <2> HIDE DEF q
    <2>4. 11 * max <= q * (10 * step)
      BY <2>3 DEF a, b
    <2>5. q * (10 * step) = 10 * (q * step) /\ q * step \in Nat
      BY <1>6, <2>3
    <2> DEFINE x == q * step
    <2>6. x \in Nat /\ 11 * max <= 10 * x
      BY <2>4, <2>5
    <2>7. top = x
      BY <2>2 DEF a, b
    <2> HIDE DEF x, top
    <2>8. max <= x
      BY <1>2, <2>6
    <2> QED
      BY <2>6, <2>7, <2>8
  <1> HIDE DEF top
  <1>8. MinAxis \in Nat
    BY ChartsAssumption
  <1>9. AxisTop(c) \in Nat /\ max <= AxisTop(c)
    BY <1>2, <1>3, <1>7, <1>8
  <1> QED
    BY <1>2, <1>9

\* The axis reaches every point of both charts, and the average that a chart
\* shows lies among its recent samples unless their sum overflows, for all steps
\* of the axis, all lengths of the window and every conversion to f64.
THEOREM ChainAxisCovers == Spec => []AxisCovers
  <1>1. TInv => AxisCovers
    <2> SUFFICES ASSUME TInv PROVE AxisCovers
      OBVIOUS
    <2>1. \A c \in {txsWidget.chart, timeWidget.chart} : c \in Chart
      BY DEF TInv, TypeOK, ChainTypeOK
    <2> QED
      BY <2>1, AxisReaches, AverageAmong DEF AxisCovers
  <1> QED
    BY <1>1, TInvInit, TInvNext, PTL DEF Spec
=============================================================================
