------------------------------ MODULE ChartPanel ------------------------------
(***************************************************************************)
(* What a chart panel paints (widgets/chart.rs, txs.rs, time.rs): labels   *)
(* of the axis, a bar per point, and the metrics, in a box or, where that  *)
(* does not fit, in a grid.  Of the figures c only the widths matter: of a *)
(* formatted figure, of the block number's digits, and of the axis label.  *)
(***************************************************************************)
EXTENDS DashboardLayout, Sequences

NarrowWidth == 40
UltraNarrowWidth == 32

LargestIn(S) == CHOOSE m \in S : \A n \in S : n <= m

\* limit_standard_metric_rows: now, top, avg, blk.
Metrics(area) == Larger(1, Smaller(4, LessNat(area.height, 6)))

Grouped(digits) == digits + (digits - 1) \div 3

BoxValues(kind, c, area) ==
    <<2 + c.figure,
      IF kind = "txs" /\ area.width >= NarrowWidth
      THEN c.figure + 2 + Grouped(c.digits) ELSE c.figure,
      2 + c.figure,
      Grouped(c.digits)>>

GridValues(kind, c, area) ==
    LET label == IF area.width < UltraNarrowWidth THEN 1 ELSE 3
        trend == label + 3 + Larger(7, c.figure)
    IN <<trend,
         label + 1 + Larger(7, c.figure)
            + (IF kind = "txs" /\ area.width >= NarrowWidth THEN 2 + c.digits ELSE 0),
         trend,
         label + 1 + Larger(12, Grouped(c.digits))>>

\* "now:" and the gap; the box's title is never wider.
BoxContent(kind, c, area) ==
    6 + LargestIn({BoxValues(kind, c, area)[i] : i \in 1..Metrics(area)})

\* render_right_aligned_labeled_box: one row above, and one below.
BoxFits(kind, c, area) ==
    /\ BoxContent(kind, c, area) <= LessNat(Inner(area).width, 4)
    /\ Metrics(area) + 2 <= LessNat(Inner(area).height, 2)

Box(kind, c, area) ==
    LET inner == Inner(area)
        width == BoxContent(kind, c, area) + 2
    IN [x |-> inner.x + inner.width - (width + 2), y |-> inner.y + 1,
        width |-> width, height |-> Metrics(area) + 2]

\* render_right_aligned_segment_grid: metrics in two columns.
GridContent(kind, c, area) ==
    LET widths == GridValues(kind, c, area)
        shown == 1..Metrics(area)
        column(k) == LargestIn({0} \cup {widths[i] : i \in {j \in shown : j % 2 = k % 2}})
    IN column(1) + (IF Metrics(area) > 1 THEN 2 + column(2) ELSE 0)

GridRows(area) == Smaller((Metrics(area) + 1) \div 2, LessNat(Inner(area).height, 1))

GridFits(kind, c, area) == GridContent(kind, c, area) <= LessNat(Inner(area).width, 4)

Grid(kind, c, area) ==
    LET inner == Inner(area)
        width == GridContent(kind, c, area) + 2
    IN [x |-> inner.x + inner.width - (width + 1), y |-> inner.y,
        width |-> width, height |-> GridRows(area)]

\* The rectangles that metrics take, none if neither form fits.
MetricRects(kind, c, area) ==
    CASE BoxFits(kind, c, area) -> {Box(kind, c, area)}
      [] ~BoxFits(kind, c, area) /\ GridFits(kind, c, area) -> {Grid(kind, c, area)}
      [] OTHER -> {}

MetricsShown(kind, c, area) ==
    CASE BoxFits(kind, c, area) -> 1..Metrics(area)
      [] ~BoxFits(kind, c, area) /\ GridFits(kind, c, area) ->
            1..Smaller(Metrics(area), 2 * GridRows(area))
      [] OTHER -> {}

\* render_left_axis_labels.
HasAxis(c, area) == Inner(area).height > 0 /\ LessNat(Inner(area).width, c.label + 1) >= 4

AxisLabels(c, area) ==
    LET inner == Inner(area)
    IN IF ~HasAxis(c, area) THEN {}
       ELSE {[x |-> inner.x, y |-> y, width |-> c.label, height |-> 1] :
                y \in {inner.y, inner.y + inner.height - 1}}

PlotArea(c, area) ==
    LET inner == Inner(area)
        gutter == IF HasAxis(c, area) THEN c.label + 1 ELSE 0
    IN [inner EXCEPT !.x = inner.x + gutter, !.width = inner.width - gutter]

BandRows(kind, height) ==
    Larger(1, Smaller(height, Larger(2, IF kind = "txs" THEN (3 * height) \div 4
                                        ELSE (2 * height) \div 3)))

\* The quarter rows a bar fills: the value is smoothed with its neighbours.
Filled(kind, top, left, value, right, height) ==
    LET units == 4 * BandRows(kind, height)
        smooth == Smaller(left + 2 * value + right, 4 * top)
        rounded == (2 * smooth * units + 4 * top) \div (8 * top)
    IN IF smooth > 0 THEN Larger(1, rounded) ELSE 0

Visible(points, width) == SubSeq(points, Len(points) - Smaller(width, Len(points)) + 1, Len(points))

\* render_bottom_band_dotted_plot: the newest point is at the right edge.
Bars(kind, c, area) ==
    LET plot == PlotArea(c, area)
        seen == Visible(c.points, plot.width)
        at(i) == seen[Larger(1, Smaller(Len(seen), i))]
    IN IF plot.width = 0 \/ plot.height = 0 THEN {}
       ELSE {[x |-> plot.x + plot.width - Len(seen) + i - 1, value |-> seen[i],
              filled |-> Filled(kind, c.top, at(i - 1), at(i), at(i + 1), plot.height)] :
                i \in DOMAIN seen}
=============================================================================
