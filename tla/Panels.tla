-------------------------------- MODULE Panels --------------------------------
(***************************************************************************)
(* What the dashboard shows: the panels as they are laid out and filled,   *)
(* for every size of the terminal, with and without a status bar, and for  *)
(* every content.  The terminal is resized in steps, messages come and go, *)
(* and the widgets are refreshed.                                          *)
(***************************************************************************)
EXTENDS CountriesPanel, ChartPanel, InfoCards

CONSTANTS
    Widths,         \* of the terminal, in ascending order
    MaxHeight,
    Contents        \* what the widgets may hold

NodeListFields == {"Name", "Role", "Block", "Epoch", "View", "Host"}
DetailListFields == {"Name", "Rank", "Blocks", "Rate", "Status", "Updated"}

ASSUME SizesAssumption ==
    /\ Widths \in Seq(Nat) \ {<<>>} /\ \A i \in DOMAIN Widths : Widths[i] % 4 = 0
    /\ \A i, j \in DOMAIN Widths : i < j => Widths[i] < Widths[j]
    /\ MaxHeight \in Nat \ {0}

\* Texts are their widths: those of the fields in one row of a list, whichever row
\* it is, and for each of the three lines about the selected disk (its mount point,
\* what is used, what is free) the widths from which on it takes no more than one
\* row, two and three.
ASSUME ContentsAssumption ==
    \A c \in Contents :
        /\ c.nodes \in Nat /\ c.details \in Nat
        /\ c.nodeWidths \in [NodeListFields -> Nat]
        /\ c.detailWidths \in [DetailListFields -> Nat]
        /\ c.disks \in Nat /\ c.disk \in 0 .. Larger(c.disks, 1) - 1
        /\ c.wraps \in [1..3 -> Nat \X Nat \X Nat]
        /\ \A k \in 1..3 : c.wraps[k][1] >= c.wraps[k][2] /\ c.wraps[k][2] >= c.wraps[k][3]
        /\ c.peers \in [loaded : BOOLEAN, flags : BOOLEAN, unknown : Nat, countries : Seq(Nat \ {0})]
        /\ \A i \in 2..Len(c.peers.countries) : c.peers.countries[i] <= c.peers.countries[i - 1]
        /\ c.chart \in [figure : Nat \ {0}, digits : Nat \ {0}, label : Nat \ {0},
                        top : Nat \ {0}, points : Seq(Nat) \ {<<>>}]

VARIABLES
    column,         \* the width is Widths[column]
    height,
    status,         \* a message is shown
    content

vars == <<column, height, status, content>>

Init ==
    /\ column = 1
    /\ height = 1
    /\ status = FALSE
    /\ content \in Contents

-----------------------------------------------------------------------------
(* The system strip.                                                       *)

SummaryWidth == 72
SummaryHeight == 6
FullSystemWidth == 133

\* The summary of one disk names its place in the list.
SelectedDisk(c) == c.disk + 1

\* Both leave the line under the border empty.
StripRows(area) == LessNat(Inner(area).height, 1)

\* The rows that a line of the summary is wrapped to, up to four.
WrappedRows(widths, w) ==
    CASE w >= widths[1] -> 1
      [] w < widths[1] /\ w >= widths[2] -> 2
      [] w < widths[2] /\ w >= widths[3] -> 3
      [] OTHER -> 4

\* The last row of each line: they follow each other.
LastRow(c, w) ==
    LET rows == [k \in 1..3 |-> WrappedRows(c.wraps[k], w)]
    IN <<rows[1], rows[1] + rows[2], rows[1] + rows[2] + rows[3]>>

\* The lines about the selected disk alone, or a table of all.  Its rows begin at
\* the first.
DisksShown(c, area) ==
    LET inner == Inner(area)
    IN IF c.disks = 0 \/ inner.width = 0 THEN {}
       ELSE IF area.width < SummaryWidth \/ area.height <= SummaryHeight
       THEN {<<SelectedDisk(c), k>> :
                k \in {j \in 1..3 : LastRow(c, inner.width)[j] <= StripRows(area)}}
       ELSE {<<i, k>> : i \in 1..TableRows(c.disks, inner), k \in 1..3}

\* A table with a header and a row of figures; the wide one adds the totals.
SystemShown(area) ==
    IF Inner(area).width = 0 \/ StripRows(area) < 2 THEN {}
    ELSE IF area.width < FullSystemWidth THEN {"Usage"} ELSE {"Usage", "Totals"}

NodesShown(c, area) ==
    CASE c.nodes = 0 -> {}
      [] c.nodes = 1 -> CardShows(NodeCard, area)
      [] OTHER -> EntriesShow(c.nodes, area, NodeList, c.nodeWidths, NodeTable, NodeTableWidth)

DetailsShown(c, area) ==
    CASE c.details = 0 -> {}
      [] c.details = 1 -> CardShows(DetailCard, area)
      [] OTHER -> EntriesShow(c.details, area, DetailList, c.detailWidths, DetailTable,
                              DetailTableWidth)

CountriesShown(c, area) ==
    LET inner == Inner(area)
        v == c.peers
    IN {IF i < KnownRows(v, inner) THEN <<"row", i + 1>> ELSE <<"unknown", 0>> :
            i \in PaintedCells(v, inner)}
          \cup IF HasGrid(v, inner) /\ Mode(v, inner.width) = "full" THEN {<<"flags", 0>>} ELSE {}

\* What a panel shows of its content.
Shows(p, c, area) ==
    CASE p = "system" -> SystemShown(area)
      [] p = "disks" -> DisksShown(c, area)
      [] p = "countries" -> CountriesShown(c, area)
      [] p \in {"time", "txs"} -> MetricsShown(p, c.chart, area)
      [] p = "node" -> NodesShown(c, area)
      [] p = "details" -> DetailsShown(c, area)

Shown(width, h, s, c) ==
    [p \in Drawn(width, h, s) |-> Shows(p, c, Area(p, width, h, s))]

-----------------------------------------------------------------------------
Width == Widths[column]

Resize(i, h) ==
    /\ column' = i /\ height' = h
    /\ UNCHANGED <<status, content>>

Taller == height < MaxHeight /\ Resize(column, height + 1)
Lower == height > 1 /\ Resize(column, height - 1)
Wider == column < Len(Widths) /\ Resize(column + 1, height)
Narrower == column > 1 /\ Resize(column - 1, height)

Message == status' = ~status /\ UNCHANGED <<column, height, content>>

Refresh == content' \in Contents \ {content} /\ UNCHANGED <<column, height, status>>

Next == Taller \/ Lower \/ Wider \/ Narrower \/ Message \/ Refresh

Spec == Init /\ [][Next]_vars

-----------------------------------------------------------------------------
(* Correctness.                                                            *)

AreaNow(p) == Area(p, Width, height, status)
DrawnNow == Drawn(Width, height, status)

\* Everything is painted within its panel and panels within the screen, none
\* over another: a cell outside the buffer would end the program, a cell of
\* another panel would stay there (draw_widgets, render_content).
NothingOutside ==
    /\ AreasApart(Width, height, status)
    /\ "countries" \in DrawnNow =>
        LET v == content.peers
            inner == Inner(AreaNow("countries"))
            cells == Cells(v, inner)
            grid == [inner EXCEPT !.height = Smaller(inner.height, DataRows)]
        IN \A i \in cells :
              /\ Within(Cell(v, inner, i), grid)
              /\ \A j \in cells \ {i} : Apart(Cell(v, inner, i), Cell(v, inner, j))
    /\ \A p \in DrawnNow \cap {"time", "txs"} :
        LET c == content.chart
            inner == Inner(AreaNow(p))
            plot == PlotArea(c, AreaNow(p))
        IN /\ \A r \in MetricRects(p, c, AreaNow(p)) \cup AxisLabels(c, AreaNow(p)) : Within(r, inner)
           /\ BoxFits(p, c, AreaNow(p)) =>
                 \A r \in AxisLabels(c, AreaNow(p)) : Apart(r, Box(p, c, AreaNow(p)))
           /\ \A b \in Bars(p, c, AreaNow(p)) :
                 /\ plot.x <= b.x /\ b.x < plot.x + plot.width
                 /\ b.filled <= 4 * plot.height
                 /\ b.value > 0 => b.filled > 0

\* What is not shown is counted: countries in the summary line, nodes and
\* details in the last line of their lists where these have more than one row (a
\* table and a list of one row do not count what they leave out).  Peers of
\* unknown country and the newest point of a chart always have their place; the
\* lines about the selected disk have theirs, whichever disk it is, as soon as the
\* strip has as many rows and none of them wraps (render_content,
\* compact_list_lines, render_disk_list, render_bottom_band_dotted_plot).
HiddenRowsCounted ==
    /\ "countries" \in DrawnNow =>
        LET v == content.peers
            inner == Inner(AreaNow("countries"))
            painted == PaintedCells(v, inner)
        IN /\ painted = Cells(v, inner)
           /\ HasGrid(v, inner) /\ SummaryPainted(v, inner) =>
                 Cardinality(painted \ {KnownRows(v, inner)}) + HiddenCountries(v, inner)
                    = Len(v.countries)
           /\ HasGrid(v, inner) /\ v.unknown > 0 /\ Mode(v, inner.width) # "summary" =>
                 KnownRows(v, inner) \in painted
    /\ \A p \in DrawnNow \cap {"node", "details"} :
        LET n == IF p = "node" THEN content.nodes ELSE content.details
            tableWidth == IF p = "node" THEN NodeTableWidth ELSE DetailTableWidth
            inner == Inner(AreaNow(p))
            listed == ListRows(n, inner.height)
            counted == CountedEntries(n, inner.height)
        IN n > 1 /\ AreaNow(p).width < tableWidth /\ inner.width > 0 /\ inner.height > 1 =>
              /\ Rows(listed) \subseteq Shows(p, content, AreaNow(p))
              /\ listed + counted = n
              /\ listed + Smaller(counted, 1) <= inner.height
    /\ "disks" \in DrawnNow /\ content.disks > 0 =>
        LET w == Inner(AreaNow("disks")).width
        IN \A k \in 1..3 :
              w > 0 /\ StripRows(AreaNow("disks")) >= k /\ (\A j \in 1..k : w >= content.wraps[j][1])
                 => <<SelectedDisk(content), k>> \in DisksShown(content, AreaNow("disks"))
    /\ \A p \in DrawnNow \cap {"time", "txs"} :
        LET plot == PlotArea(content.chart, AreaNow(p))
            points == content.chart.points
        IN plot.width > 0 /\ plot.height > 0 =>
              \E b \in Bars(p, content.chart, AreaNow(p)) :
                 b.x = plot.x + plot.width - 1 /\ b.value = points[Len(points)]

\* Each of the four metrics is narrow enough for the box.
AllMetricsFit(kind, c, area) ==
    \A i \in 1..4 : 6 + BoxValues(kind, c, area)[i] <= LessNat(Inner(area).width, 4)

\* A larger terminal does not show less, except: a stacked detail card is too
\* low for its last fields, a node card of two columns and five rows ranks the
\* committed block last, a new field in the row of a detail list may push the
\* status behind it over the right edge, a table cuts off the row a list just had
\* room for and may cut the texts of the others to its columns, and a chart that
\* is narrow, or too narrow for a box of all metrics, may lose them as they become
\* longer or more.  A field of a card counts by its line, one in a list as a whole.
Conceded(p, c, old, new) ==
    CASE p = "details" /\ c.details = 1 ->
            IF new.width >= CompactWidth /\ Inner(new).width < StackedWidth
                  /\ Inner(new).height \in 9..10
            THEN {"Address", "Updated"} ELSE {}
      [] p = "node" /\ c.nodes = 1 ->
            IF Inner(old).width < TwoColumnWidth /\ Inner(new).width >= TwoColumnWidth
                  /\ Inner(new).height = 5
            THEN {"Committed"} ELSE {}
      [] p = "details" /\ c.details > 1 ->
            IF old.width < DetailTableWidth /\ new.width >= DetailTableWidth
            THEN {<<"row", Inner(new).height>>} \cup Fields(DetailListFields)
            ELSE IF \E w \in {44, 62} : Inner(old).width < w /\ w <= Inner(new).width
            THEN Fields({"Status"}) ELSE {}
      [] p = "node" /\ c.nodes > 1 ->
            IF old.width < NodeTableWidth /\ new.width >= NodeTableWidth
            THEN {<<"row", Inner(new).height>>} \cup Fields(NodeListFields) ELSE {}
      [] p \in {"time", "txs"} /\ (old.width < NarrowWidth \/ ~AllMetricsFit(p, c.chart, old)) -> 1..4
      [] OTHER -> {}

GrowingHidesNothing ==
    [][height' >= height /\ column' >= column /\ status' = status /\ content' = content =>
          LET before == Shown(Width, height, status, content)
              after == Shown(Widths[column'], height', status, content)
          IN \A p \in DOMAIN before :
                /\ p \in DOMAIN after
                /\ before[p] \ after[p] \subseteq
                      Conceded(p, content, AreaNow(p), Area(p, Widths[column'], height', status))
      ]_vars
=============================================================================
