----------------------------- MODULE LayoutProofs -----------------------------
(***************************************************************************)
(* The layout of the dashboard and what its panels paint, for a terminal   *)
(* of any height and of any width that four divides, and for any content.  *)
(***************************************************************************)
EXTENDS Panels, SequenceLemmas, FiniteSetTheorems

\* The rows fill the height and none is negative (content_row_heights).
LEMMA RowsFill ==
    ASSUME NEW total \in Nat
    PROVE  /\ AuxiliaryRow(total) \in Nat /\ ChartHeight(total) \in Nat /\ BottomHeight(total) \in Nat
           /\ AuxiliaryRow(total) + ChartHeight(total) + BottomHeight(total) = total
  BY DEF AuxiliaryRow, ChartHeight, BottomHeight, LessNat, Smaller, Larger, AuxiliaryHeight

\* The status bar takes its lines from the dashboard's (draw).
LEMMA MainFits ==
    ASSUME NEW h \in Nat, NEW s \in BOOLEAN
    PROVE  MainHeight(h, s) \in Nat /\ MainHeight(h, s) <= h
  BY DEF MainHeight, Larger, Smaller, LessNat, StatusHeight

\* A higher terminal does not lower the dashboard.
LEMMA MainGrows ==
    ASSUME NEW low \in Nat, NEW high \in Nat, low <= high, NEW s \in BOOLEAN
    PROVE  MainHeight(low, s) <= MainHeight(high, s)
  BY DEF MainHeight, Larger, Smaller, LessNat, StatusHeight

\* A row may become lower when the dashboard becomes higher (the charts at 28
\* lines), but never too low to be drawn (content_row_heights).
LEMMA RowsStay ==
    ASSUME NEW low \in Nat, NEW high \in Nat, low <= high
    PROVE  /\ AuxiliaryRow(low) >= MinPanelHeight => AuxiliaryRow(high) >= MinPanelHeight
           /\ ChartHeight(low) >= MinPanelHeight => ChartHeight(high) >= MinPanelHeight
           /\ BottomHeight(low) >= MinPanelHeight => BottomHeight(high) >= MinPanelHeight
  <1>1. AuxiliaryRow(low) >= MinPanelHeight => AuxiliaryRow(high) >= MinPanelHeight
    BY DEF AuxiliaryRow, Smaller, AuxiliaryHeight, MinPanelHeight
  <1>2. CASE low - AuxiliaryRow(low) > 16
    <2>1. high - AuxiliaryRow(high) > 16
      BY <1>2 DEF AuxiliaryRow, Smaller, AuxiliaryHeight
    <2>2. BottomHeight(high) >= 8 /\ ChartHeight(high) >= 8
      BY <2>1 DEF AuxiliaryRow, ChartHeight, BottomHeight, LessNat, Smaller, Larger, AuxiliaryHeight
    <2> QED
      BY <1>1, <2>2, RowsFill DEF MinPanelHeight
  <1>3. CASE high - AuxiliaryRow(high) > 16
    <2>2. BottomHeight(high) >= 8 /\ ChartHeight(high) >= 8
      BY <1>3 DEF AuxiliaryRow, ChartHeight, BottomHeight, LessNat, Smaller, Larger, AuxiliaryHeight
    <2> QED
      BY <1>1, <2>2, RowsFill DEF MinPanelHeight
  <1>4. CASE low - AuxiliaryRow(low) <= 16 /\ high - AuxiliaryRow(high) <= 16
    <2>1. low - AuxiliaryRow(low) <= high - AuxiliaryRow(high)
      BY DEF AuxiliaryRow, Smaller, AuxiliaryHeight
    <2> QED
      BY <1>1, <1>4, <2>1
      DEF AuxiliaryRow, ChartHeight, BottomHeight, LessNat, Smaller, AuxiliaryHeight, MinPanelHeight
  <1> QED
    BY <1>2, <1>3, <1>4 DEF AuxiliaryRow, Smaller, AuxiliaryHeight

\* A panel is drawn if its row is high enough.
LEMMA DrawnRows ==
    ASSUME NEW width \in Nat, NEW h \in Nat, NEW s \in BOOLEAN, NEW p \in Names
    PROVE  p \in Drawn(width, h, s) <=>
              \/ RowOf[p] = "auxiliary" /\ AuxiliaryRow(MainHeight(h, s)) >= MinPanelHeight
              \/ RowOf[p] = "charts" /\ ChartHeight(MainHeight(h, s)) >= MinPanelHeight
              \/ RowOf[p] = "bottom" /\ BottomHeight(MainHeight(h, s)) >= MinPanelHeight
  BY DEF Drawn, Area, RowOf, Names

\* A larger terminal draws every panel that a smaller one does (draw_widgets).
THEOREM GrowingDrawsAll ==
    ASSUME NEW width \in Nat, NEW wider \in Nat, NEW low \in Nat, NEW high \in Nat,
           NEW s \in BOOLEAN, low <= high
    PROVE  Drawn(width, low, s) \subseteq Drawn(wider, high, s)
  <1> SUFFICES ASSUME NEW p \in Names, p \in Drawn(width, low, s)
               PROVE  p \in Drawn(wider, high, s)
    BY DEF Drawn
  <1> QED
    BY DrawnRows, MainFits, MainGrows, RowsStay

\* Every drawn panel lies within the screen, and no panel is drawn over another,
\* with and without a status bar (draw_widgets, content_row_heights).
THEOREM AreasNeverOverlap ==
    ASSUME NEW width \in Nat, width % 4 = 0, NEW h \in Nat, NEW s \in BOOLEAN
    PROVE  AreasApart(width, h, s)
  <1> DEFINE total == MainHeight(h, s)
             aux == AuxiliaryRow(total)
             chart == ChartHeight(total)
             bottom == BottomHeight(total)
             first == h - total
             quarter == width \div 4
             area(p) == Area(p, width, h, s)
  <1>1. /\ aux \in Nat /\ chart \in Nat /\ bottom \in Nat /\ first \in Nat
        /\ first + aux + chart + bottom = h
    BY RowsFill, MainFits
  <1>2. quarter \in Nat /\ 4 * quarter = width
    OBVIOUS
  <1>3. \A p \in Names :
           /\ FirstQuarter[p] \in 0..3 /\ Quarters[p] \in 1..2
           /\ FirstQuarter[p] + Quarters[p] <= 4
           /\ area(p).x = FirstQuarter[p] * quarter
           /\ area(p).width = Quarters[p] * quarter
           /\ RowOf[p] = "auxiliary" => area(p).y = first /\ area(p).height = aux
           /\ RowOf[p] = "charts" => area(p).y = first + aux /\ area(p).height = chart
           /\ RowOf[p] = "bottom" => area(p).y = first + aux + chart /\ area(p).height = bottom
           /\ RowOf[p] \in {"auxiliary", "charts", "bottom"}
    BY DEF Names, FirstQuarter, Quarters, RowOf, Area
  <1>4. \A p \in Names :
           Within(area(p), [x |-> 0, y |-> 0, width |-> width, height |-> h])
    BY <1>1, <1>2, <1>3 DEF Within
  <1>5. ASSUME NEW p \in Names, NEW q \in Names, p # q, RowOf[p] = RowOf[q]
        PROVE  FirstQuarter[p] + Quarters[p] <= FirstQuarter[q] \/ FirstQuarter[q] + Quarters[q] <= FirstQuarter[p]
    BY <1>5 DEF Names, FirstQuarter, Quarters, RowOf
  <1>6. ASSUME NEW p \in Names, NEW q \in Names, p # q
        PROVE  Apart(area(p), area(q))
    <2>1. CASE RowOf[p] = RowOf[q]
      BY <1>2, <1>3, <1>5, <1>6, <2>1 DEF Apart
    <2>2. CASE RowOf[p] # RowOf[q]
      BY <1>1, <1>3, <2>2 DEF Apart
    <2> QED
      BY <2>1, <2>2
  <1> QED
    BY <1>4, <1>6 DEF AreasApart, Drawn

-----------------------------------------------------------------------------
(* The panels.                                                             *)

\* The terminal has a size, and the widgets hold one of their contents.
PanelsInv ==
    /\ column \in DOMAIN Widths /\ height \in 1..MaxHeight
    /\ status \in BOOLEAN /\ content \in Contents

\* It keeps one, however it is resized and whatever is refreshed.
LEMMA PanelsInvAlways == Spec => []PanelsInv
  <1>1. MaxHeight \in Nat \ {0} /\ Len(Widths) \in Nat \ {0} /\ DOMAIN Widths = 1..Len(Widths)
    BY SizesAssumption
  <1>2. Init => PanelsInv
    <2>1. 1 \in DOMAIN Widths /\ 1 \in 1..MaxHeight
      BY <1>1
    <2> QED
      BY <2>1 DEF Init, PanelsInv
  <1>3. ASSUME PanelsInv, [Next]_vars
        PROVE  PanelsInv'
    <2>1. column' \in DOMAIN Widths
      BY <1>1, <1>3
      DEF PanelsInv, Next, Taller, Lower, Wider, Narrower, Resize, Message, Refresh, vars
    <2>2. height' \in 1..MaxHeight
      BY <1>1, <1>3
      DEF PanelsInv, Next, Taller, Lower, Wider, Narrower, Resize, Message, Refresh, vars
    <2>3. status' \in BOOLEAN /\ content' \in Contents
      BY <1>3
      DEF PanelsInv, Next, Taller, Lower, Wider, Narrower, Resize, Message, Refresh, vars
    <2> QED
      BY <2>1, <2>2, <2>3 DEF PanelsInv
  <1>4. PanelsInv /\ [Next]_vars => PanelsInv'
    BY <1>3
  <1> QED
    BY <1>2, <1>4, PTL DEF Spec

\* An area has a place and a size.
LEMMA AreaType ==
    ASSUME NEW p \in Names, NEW width \in Nat, NEW h \in Nat, NEW s \in BOOLEAN
    PROVE  Area(p, width, h, s) \in Rect
  <1> DEFINE total == MainHeight(h, s)
  <1>1. total \in Nat /\ h - total \in Nat
    BY MainFits
  <1> HIDE DEF total
  <1>2. AuxiliaryRow(total) \in Nat /\ ChartHeight(total) \in Nat /\ BottomHeight(total) \in Nat
    BY <1>1, RowsFill
  <1>3. width \div 4 \in Nat /\ FirstQuarter[p] \in 0..3 /\ Quarters[p] \in 1..2
    BY DEF Names, FirstQuarter, Quarters
  <1>4. /\ FirstQuarter[p] * (width \div 4) \in Nat
        /\ Quarters[p] * (width \div 4) \in Nat
    BY <1>3
  <1> QED
    BY <1>1, <1>2, <1>4 DEF Area, Rect, total

\* So has the area within a border.
LEMMA InnerType == ASSUME NEW r \in Rect PROVE Inner(r) \in Rect
  BY DEF Inner, Rect, Smaller, LessNat

-----------------------------------------------------------------------------
(* The countries.                                                          *)

\* What the panel gets to see: counts in descending order.
IsView(v) ==
    /\ v \in [loaded : BOOLEAN, flags : BOOLEAN, unknown : Nat, countries : Seq(Nat \ {0})]
    /\ \A i \in 2..Len(v.countries) : v.countries[i] <= v.countries[i - 1]

\* A larger count has no fewer digits.
LEMMA DigitsGrow ==
    ASSUME NEW m \in Nat, NEW n \in Nat, m <= n
    PROVE  Digits(m) \in 1..4 /\ Digits(m) <= Digits(n)
  BY DEF Digits

\* The first count is the largest.
LEMMA FirstIsLargest ==
    ASSUME NEW v, IsView(v), NEW i \in DOMAIN v.countries
    PROVE  v.countries[i] <= v.countries[1]
  <1> DEFINE c == v.countries
             Wrong == {j \in DOMAIN c : ~ (c[j] <= c[1])}
  <1>1. c \in Seq(Nat \ {0}) /\ \A j \in 2..Len(c) : c[j] <= c[j - 1]
    BY DEF IsView
  <1> HIDE DEF c
  <1>2. Wrong \in SUBSET Nat
    BY <1>1
  <1> SUFFICES ASSUME Wrong # {} PROVE FALSE
    BY DEF c
  <1>3. PICK m \in Wrong : \A j \in Wrong : m <= j
    <2> HIDE DEF Wrong
    <2> QED
      BY <1>2, Least
  <1>4. m \in DOMAIN c /\ ~ (c[m] <= c[1])
    OBVIOUS
  <1>5. m # 1 /\ m \in 2..Len(c) /\ m - 1 \in DOMAIN c
    BY <1>1, <1>4
  <1>6. ~ (m <= m - 1)
    BY <1>5
  <1>7. c[m - 1] <= c[1]
    BY <1>3, <1>5, <1>6
  <1> QED
    BY <1>1, <1>4, <1>5, <1>7

\* Where the cells are not left out they are at least six wide, one column of
\* them fits at least, and so do as many as there are.
LEMMA ColumnsFit ==
    ASSUME NEW v, IsView(v), NEW area \in Rect, area.width > 0, Mode(v, area.width) # "summary"
    PROVE  /\ ColumnWidth(v, area) \in Nat \ {0} /\ Columns(v, area) \in 1..MaxColumns
           /\ Columns(v, area) * (ColumnWidth(v, area) + ColumnGap) <= area.width + ColumnGap
  <1> DEFINE w == area.width
             cw == ColumnWidth(v, area)
             q == (w + ColumnGap) \div (cw + ColumnGap)
  <1>1. w \in Nat
    BY DEF Rect
  <1>2. cw \in Nat \ {0} /\ cw <= w
    <2>1. Widest(v) \in Nat
      BY DEF Widest, IsView, Larger
    <2>2. Digits(Widest(v)) \in 1..4
      BY <2>1, DigitsGrow
    <2> QED
      BY <1>1, <2>2 DEF ColumnWidth, Mode, CellWidth
  <1>3. Columns(v, area) = Larger(1, Smaller(MaxColumns, q))
    BY <1>2 DEF Columns
  <1> HIDE DEF cw, w
  <1>4. q \in Nat /\ q * (cw + ColumnGap) <= w + ColumnGap
    <2>1. \A a \in Nat, b \in Nat \ {0} : a \div b \in Nat /\ (a \div b) * b <= a
      BY Z3
    <2>2. w + ColumnGap \in Nat /\ cw + ColumnGap \in Nat \ {0}
      BY <1>1, <1>2 DEF ColumnGap
    <2> QED
      BY <2>1, <2>2
  <1> HIDE DEF q
  <1>5. Columns(v, area) \in 1..MaxColumns
    BY <1>3, <1>4 DEF Larger, Smaller, MaxColumns
  <1>6. Columns(v, area) = 1 \/ Columns(v, area) <= q
    BY <1>3, <1>4 DEF Larger, Smaller, MaxColumns
  <1>7. CASE Columns(v, area) = 1
    BY <1>1, <1>2, <1>5, <1>7 DEF cw, w, ColumnGap
  <1>8. CASE Columns(v, area) <= q
    <2>1. \A a, b, c \in Nat : a <= b => a * c <= b * c
      OBVIOUS
    <2>2. Columns(v, area) \in Nat /\ cw + ColumnGap \in Nat /\ w + ColumnGap \in Nat
      BY <1>1, <1>2, <1>5 DEF MaxColumns, ColumnGap
    <2>3. Columns(v, area) * (cw + ColumnGap) <= q * (cw + ColumnGap)
      BY <1>4, <1>8, <2>1, <2>2
    <2>4. Columns(v, area) * (cw + ColumnGap) \in Nat /\ q * (cw + ColumnGap) \in Nat
      BY <1>4, <2>2
    <2> QED
      BY <1>2, <1>4, <1>5, <2>2, <2>3, <2>4 DEF cw, w
  <1> QED
    BY <1>6, <1>7, <1>8

\* The rows that are handed out, and the rows there are.
GridRowsOf(area) == Smaller(DataRows, area.height)

\* No more cells are handed out than the grid has, and the one of the unknown is
\* among them.
LEMMA CellsFit ==
    ASSUME NEW v, IsView(v), NEW area \in Rect, HasGrid(v, area)
    PROVE  /\ KnownRows(v, area) \in 0..Len(v.countries)
           /\ \A i \in Cells(v, area) :
                 /\ i \in Nat /\ i <= KnownRows(v, area)
                 /\ Mode(v, area.width) # "summary"
                 /\ i < GridRowsOf(area) * Columns(v, area)
                 /\ i < KnownRows(v, area) => i + 1 \in DOMAIN v.countries
  <1> DEFINE n == Len(v.countries)
             known == KnownRows(v, area)
             room == GridRowsOf(area) * Columns(v, area)
  <1>1. v.countries \in Seq(Nat \ {0}) /\ v.unknown \in Nat /\ n \in Nat /\ DOMAIN v.countries = 1..n
    BY DEF IsView
  <1>2. area.width > 0 /\ GridRowsOf(area) \in 1..DataRows
    BY DEF HasGrid, Rect, GridRowsOf, Smaller, DataRows
  <1>3. CASE Mode(v, area.width) = "summary"
    <2>1. known = 0
      BY <1>3 DEF KnownRows
    <2>2. Cells(v, area) = {}
      BY <1>3, <2>1 DEF Cells
    <2> QED
      BY <1>1, <2>1, <2>2
  <1>4. CASE Mode(v, area.width) # "summary"
    <2>1. Columns(v, area) \in 1..MaxColumns
      BY <1>2, <1>4, ColumnsFit
    <2>2. room \in Nat \ {0}
      BY <1>2, <2>1 DEF DataRows, MaxColumns
    <2>3. known = Smaller(n, room - (IF v.unknown > 0 THEN 1 ELSE 0))
      BY <1>4 DEF KnownRows, GridRowsOf
    <2>4. \A i \in Cells(v, area) : i \in 0..known - 1 \/ (v.unknown > 0 /\ i = known)
      BY DEF Cells
    <2> HIDE DEF known, room, n
    <2>5. known \in 0..n /\ known <= room /\ (v.unknown > 0 => known < room)
      BY <1>1, <2>2, <2>3 DEF Smaller
    <2>6. ASSUME NEW i \in Cells(v, area)
          PROVE  i \in Nat /\ i <= known /\ i < room /\ (i < known => i + 1 \in 1..n)
      BY <1>1, <2>2, <2>4, <2>5
    <2> QED
      BY <1>1, <1>4, <2>5, <2>6 DEF known, room, n
  <1> QED
    BY <1>3, <1>4

\* A count fits the cells made for the widest.
LEMMA CountsFit ==
    ASSUME NEW v, IsView(v), NEW area \in Rect, NEW i \in Cells(v, area)
    PROVE  CellWidth(Mode(v, area.width), CountAt(v, area, i)) <= ColumnWidth(v, area)
  <1>1. v.countries \in Seq(Nat \ {0}) /\ v.unknown \in Nat
    BY DEF IsView
  <1>2. i \in Nat /\ (i < KnownRows(v, area) => i + 1 \in DOMAIN v.countries)
    <2>1. HasGrid(v, area)
      BY DEF Cells
    <2> QED
      BY <2>1, CellsFit
  <1>3. CountAt(v, area, i) \in Nat /\ Widest(v) \in Nat /\ CountAt(v, area, i) <= Widest(v)
    <2>1. CASE i < KnownRows(v, area)
      <3>1. v.countries # <<>> /\ v.countries[1] \in Nat /\ v.countries[i + 1] \in Nat
        BY <1>1, <1>2, <2>1
      <3>2. v.countries[i + 1] <= v.countries[1]
        BY <1>2, <2>1, FirstIsLargest
      <3> QED
        BY <1>1, <2>1, <3>1, <3>2 DEF CountAt, Widest, Larger
    <2>2. CASE ~ (i < KnownRows(v, area))
      BY <1>1, <2>2 DEF CountAt, Widest, Larger
    <2> QED
      BY <2>1, <2>2
  <1>4. /\ Digits(CountAt(v, area, i)) \in 1..4 /\ Digits(Widest(v)) \in 1..4
        /\ Digits(CountAt(v, area, i)) <= Digits(Widest(v))
    BY <1>3, DigitsGrow
  <1> QED
    BY <1>4 DEF CellWidth, ColumnWidth

\* Cells lie within the grid, which is what the panel has for them, and no cell
\* lies over another.
LEMMA CellsApart ==
    ASSUME NEW v, IsView(v), NEW area \in Rect, NEW i \in Cells(v, area)
    PROVE  /\ Within(Cell(v, area, i), [area EXCEPT !.height = Smaller(area.height, DataRows)])
           /\ Cell(v, area, i).width = ColumnWidth(v, area)
           /\ \A j \in Cells(v, area) \ {i} : Apart(Cell(v, area, i), Cell(v, area, j))
  <1> DEFINE cols == Columns(v, area)
             cw == ColumnWidth(v, area)
             gap == cw + ColumnGap
             rows == GridRowsOf(area)
  <1>1. HasGrid(v, area)
    BY DEF Cells
  <1>2. /\ area.width > 0 /\ Mode(v, area.width) # "summary"
        /\ \A j \in Cells(v, area) : j \in Nat /\ j < rows * cols
    BY <1>1, CellsFit DEF HasGrid
  <1>3. cw \in Nat \ {0} /\ cols \in 1..5 /\ cols * gap <= area.width + 2
    BY <1>2, ColumnsFit DEF MaxColumns, ColumnGap
  <1>4. rows \in 0..3 /\ rows = Smaller(area.height, DataRows)
    BY DEF Rect, GridRowsOf, Smaller, DataRows
  <1>5. area.x \in Nat /\ area.y \in Nat /\ area.width \in Nat /\ area.height \in Nat
    BY DEF Rect
  <1>6. \A j \in Cells(v, area) :
           /\ Cell(v, area, j).x = area.x + (j % cols) * gap
           /\ Cell(v, area, j).y = area.y + j \div cols
           /\ Cell(v, area, j).width = Smaller(area.x + area.width - Cell(v, area, j).x, cw)
           /\ Cell(v, area, j).height = 1
    BY DEF Cell
  <1> HIDE DEF cols, cw, rows
  <1>7. \A j \in Cells(v, area) :
           j % cols \in 0..cols - 1 /\ j \div cols \in 0..rows - 1
    <2>1. \A c \in 1..5, r \in 0..3, j \in Nat :
             j < r * c => j % c \in 0..c - 1 /\ j \div c \in 0..r - 1
      BY Z3
    <2> QED
      BY <1>2, <1>3, <1>4, <2>1
  <1>8. gap \in Nat /\ gap = cw + 2
    BY <1>3 DEF ColumnGap
  <1> HIDE DEF gap
  <1>9. \A j \in Cells(v, area) : (j % cols) * gap \in Nat /\ (j % cols) * gap + cw <= area.width
    <2>1. \A c \in 1..5, k \in Nat, m \in 0..4 : m < c => m * k \in Nat /\ m * k + k <= c * k
      OBVIOUS
    <2>2. ASSUME NEW j \in Cells(v, area)
          PROVE  (j % cols) * gap \in Nat /\ (j % cols) * gap + cw <= area.width
      <3> DEFINE m == j % cols
                 left == m * gap
                 all == cols * gap
      <3>1. m \in 0..4 /\ m < cols
        BY <1>3, <1>7
      <3>2. left \in Nat /\ left + gap <= all
        BY <1>3, <1>8, <2>1, <3>1
      <3>3. all \in Nat /\ all <= area.width + 2
        BY <1>3, <1>8
      <3> HIDE DEF m, left, all
      <3>4. left + cw <= area.width
        BY <1>3, <1>5, <1>8, <3>2, <3>3
      <3> QED
        BY <3>2, <3>4 DEF left, m
    <2> QED
      BY <2>2
  <1>10. \A j \in Cells(v, area) : Cell(v, area, j).width = cw
    BY <1>3, <1>5, <1>6, <1>9 DEF Smaller
  <1>11. Within(Cell(v, area, i), [area EXCEPT !.height = Smaller(area.height, DataRows)])
    <2> DEFINE grid == [area EXCEPT !.height = Smaller(area.height, DataRows)]
    <2>1. /\ grid.x = area.x /\ grid.y = area.y /\ grid.width = area.width /\ grid.height = rows
      BY <1>4 DEF Rect
    <2> HIDE DEF grid
    <2>2. /\ Cell(v, area, i).x \in Nat /\ Cell(v, area, i).y \in Nat
          /\ grid.x <= Cell(v, area, i).x
          /\ Cell(v, area, i).x + cw <= grid.x + grid.width
      BY <1>3, <1>5, <1>6, <1>7, <1>9, <2>1
    <2>3. grid.y <= Cell(v, area, i).y /\ Cell(v, area, i).y + 1 <= grid.y + grid.height
      BY <1>4, <1>5, <1>6, <1>7, <2>1
    <2> QED
      BY <1>6, <1>10, <2>2, <2>3 DEF Within, grid
  <1>12. ASSUME NEW j \in Cells(v, area) \ {i}
         PROVE  Apart(Cell(v, area, i), Cell(v, area, j))
    <2>1. i % cols # j % cols \/ i \div cols # j \div cols
      <3>1. \A c \in 1..5, a, b \in Nat : a % c = b % c /\ a \div c = b \div c => a = b
        BY Z3
      <3> QED
        BY <1>2, <1>3, <3>1
    <2>2. CASE i \div cols # j \div cols
      BY <1>4, <1>5, <1>6, <1>7, <2>2 DEF Apart
    <2>3. CASE i % cols # j % cols
      <3>1. \A k \in Nat, m, n \in 0..4 : m < n => m * k + k <= n * k
        OBVIOUS
      <3>2. i % cols \in 0..4 /\ j % cols \in 0..4
        BY <1>3, <1>7
      <3> DEFINE a == i % cols
                 b == j % cols
      <3> HIDE DEF a, b
      <3>3. a * gap + gap <= b * gap \/ b * gap + gap <= a * gap
        BY <1>8, <2>3, <3>1, <3>2 DEF a, b
      <3>4. a * gap \in Nat /\ b * gap \in Nat
        BY <1>8, <3>2 DEF a, b
      <3> DEFINE s == a * gap
                 t == b * gap
      <3>5. /\ Cell(v, area, i).x = area.x + s /\ Cell(v, area, j).x = area.x + t
            /\ Cell(v, area, i).width = cw /\ Cell(v, area, j).width = cw
        BY <1>6, <1>10 DEF a, b
      <3> HIDE DEF s, t
      <3>6. s \in Nat /\ t \in Nat /\ (s + gap <= t \/ t + gap <= s)
        BY <3>3, <3>4 DEF s, t
      <3> QED
        BY <1>3, <1>5, <1>8, <3>5, <3>6 DEF Apart
    <2> QED
      BY <2>1, <2>2, <2>3
  <1> QED
    BY <1>10, <1>11, <1>12 DEF cw

-----------------------------------------------------------------------------
(* The charts.                                                             *)

\* What the panel gets to see: the widths of its figures, and its points.
IsChart(c) ==
    c \in [figure : Nat \ {0}, digits : Nat \ {0}, label : Nat \ {0},
           top : Nat \ {0}, points : Seq(Nat) \ {<<>>}]

\* A bounded set of numbers has a largest one.
LEMMA LargestIsIn ==
    ASSUME NEW S \in SUBSET Nat, S # {}, NEW b \in Nat, \A n \in S : n <= b
    PROVE  LargestIn(S) \in S /\ \A n \in S : n <= LargestIn(S)
  <1>1. \E m \in S : \A n \in S : n <= m
    BY Greatest
  <1> QED
    BY <1>1 DEF LargestIn

\* One to four metrics are shown.
LEMMA MetricsType == ASSUME NEW area \in Rect PROVE Metrics(area) \in 1..4
  BY DEF Metrics, Rect, Larger, Smaller, LessNat

\* The grouping of digits takes room.
LEMMA GroupedType == ASSUME NEW d \in Nat \ {0} PROVE Grouped(d) \in Nat
  BY DEF Grouped

\* The box has a width.
LEMMA BoxContentType ==
    ASSUME NEW kind, NEW c, IsChart(c), NEW area \in Rect
    PROVE  BoxContent(kind, c, area) \in Nat /\ BoxContent(kind, c, area) >= 6
  <1> DEFINE vals == BoxValues(kind, c, area)
             S == {vals[i] : i \in 1..Metrics(area)}
  <1>1. Metrics(area) \in 1..4
    BY MetricsType
  <1>2. /\ \A i \in 1..4 : vals[i] \in Nat
        /\ vals[1] + vals[2] + vals[3] + vals[4] \in Nat
    <2>1. c.figure \in Nat /\ Grouped(c.digits) \in Nat
      BY GroupedType DEF IsChart
    <2> QED
      BY <2>1 DEF BoxValues
  <1> HIDE DEF vals
  <1>3. S \in SUBSET Nat /\ S # {}
    BY <1>1, <1>2
  <1>4. \A n \in S : n <= vals[1] + vals[2] + vals[3] + vals[4]
    BY <1>1, <1>2
  <1>5. BoxContent(kind, c, area) = 6 + LargestIn(S)
    BY DEF BoxContent, vals
  <1> HIDE DEF S
  <1>6. LargestIn(S) \in Nat
    BY <1>2, <1>3, <1>4, LargestIsIn
  <1> QED
    BY <1>5, <1>6

\* The grid has a width.
LEMMA GridContentType ==
    ASSUME NEW kind, NEW c, IsChart(c), NEW area \in Rect
    PROVE  GridContent(kind, c, area) \in Nat \ {0}
  <1> DEFINE vals == GridValues(kind, c, area)
             shown == 1..Metrics(area)
             S(k) == {0} \cup {vals[i] : i \in {j \in shown : j % 2 = k % 2}}
             b == vals[1] + vals[2] + vals[3] + vals[4]
  <1>1. Metrics(area) \in 1..4
    BY MetricsType
  <1>2. (\A i \in 1..4 : vals[i] \in Nat) /\ b \in Nat /\ vals[1] > 0
    <2>1. c.figure \in Nat /\ c.digits \in Nat /\ Grouped(c.digits) \in Nat
      BY GroupedType DEF IsChart
    <2> QED
      BY <2>1 DEF GridValues, Larger
  <1> HIDE DEF vals
  <1>3. ASSUME NEW k \in 1..2
        PROVE  LargestIn(S(k)) \in S(k) /\ \A n \in S(k) : n <= LargestIn(S(k))
    <2>1. S(k) \in SUBSET Nat /\ S(k) # {}
      BY <1>1, <1>2
    <2>2. \A n \in S(k) : n <= b
      BY <1>1, <1>2
    <2> HIDE DEF S, b
    <2> QED
      BY <1>2, <2>1, <2>2, LargestIsIn
  <1>4. vals[1] \in S(1) /\ S(1) \subseteq Nat /\ S(2) \subseteq Nat
    BY <1>1, <1>2
  <1>5. GridContent(kind, c, area) =
           LargestIn(S(1)) + (IF Metrics(area) > 1 THEN 2 + LargestIn(S(2)) ELSE 0)
    BY DEF GridContent, vals
  <1> HIDE DEF S
  <1>6. LargestIn(S(1)) \in Nat \ {0} /\ LargestIn(S(2)) \in Nat
    BY <1>2, <1>3, <1>4
  <1> QED
    BY <1>5, <1>6

\* The metrics keep to the inside of their panel.
LEMMA MetricsInside ==
    ASSUME NEW kind, NEW c, IsChart(c), NEW area \in Rect, NEW r \in MetricRects(kind, c, area)
    PROVE  Within(r, Inner(area))
  <1> DEFINE inner == Inner(area)
             box == BoxContent(kind, c, area)
             grid == GridContent(kind, c, area)
             m == Metrics(area)
  <1>1. inner \in Rect /\ box \in Nat /\ box >= 6 /\ grid \in Nat \ {0} /\ m \in 1..4
    BY InnerType, BoxContentType, GridContentType, MetricsType
  <1>2. /\ inner.x \in Nat /\ inner.y \in Nat /\ inner.width \in Nat /\ inner.height \in Nat
    BY <1>1 DEF Rect
  <1>3. CASE BoxFits(kind, c, area)
    <2>1. r = Box(kind, c, area)
      BY <1>3 DEF MetricRects
    <2>2. /\ r.x = inner.x + inner.width - (box + 2 + 2) /\ r.y = inner.y + 1
          /\ r.width = box + 2 /\ r.height = m + 2
      BY <2>1 DEF Box
    <2>3. box <= LessNat(inner.width, 4) /\ m + 2 <= LessNat(inner.height, 2)
      BY <1>3 DEF BoxFits
    <2> HIDE DEF inner, box, m
    <2> QED
      BY <1>1, <1>2, <2>2, <2>3 DEF Within, LessNat, inner
  <1>4. CASE ~ BoxFits(kind, c, area)
    <2>1. r = Grid(kind, c, area) /\ GridFits(kind, c, area)
      BY <1>4 DEF MetricRects
    <2>2. /\ r.x = inner.x + inner.width - (grid + 2 + 1) /\ r.y = inner.y
          /\ r.width = grid + 2 /\ r.height = GridRows(area)
      BY <2>1 DEF Grid
    <2>3. grid <= LessNat(inner.width, 4)
      BY <2>1 DEF GridFits
    <2>4. GridRows(area) \in Nat /\ GridRows(area) <= LessNat(inner.height, 1)
      BY <1>1, <1>2 DEF GridRows, Smaller, LessNat
    <2> HIDE DEF inner, grid
    <2> QED
      BY <1>1, <1>2, <2>2, <2>3, <2>4 DEF Within, LessNat, inner
  <1> QED
    BY <1>3, <1>4

\* The labels of the axis keep to the inside of the panel and off the box.
LEMMA LabelsInside ==
    ASSUME NEW kind, NEW c, IsChart(c), NEW area \in Rect, NEW r \in AxisLabels(c, area)
    PROVE  /\ Within(r, Inner(area))
           /\ BoxFits(kind, c, area) => Apart(r, Box(kind, c, area))
  <1> DEFINE inner == Inner(area)
             box == BoxContent(kind, c, area)
             m == Metrics(area)
  <1>1. /\ inner \in Rect /\ box \in Nat /\ m \in 1..4 /\ c.label \in Nat
    BY InnerType, BoxContentType, MetricsType DEF IsChart
  <1>2. /\ inner.x \in Nat /\ inner.y \in Nat /\ inner.width \in Nat /\ inner.height \in Nat
    BY <1>1 DEF Rect
  <1>3. inner.height > 0 /\ LessNat(inner.width, c.label + 1) >= 4
    BY DEF AxisLabels, HasAxis
  <1>4. /\ r.x = inner.x /\ r.width = c.label /\ r.height = 1
        /\ r.y \in {inner.y, inner.y + inner.height - 1}
    BY DEF AxisLabels
  <1>5. Within(r, inner)
    <2> HIDE DEF inner
    <2> QED
      BY <1>1, <1>2, <1>3, <1>4 DEF Within, LessNat
  <1>6. ASSUME BoxFits(kind, c, area)
        PROVE  Apart(r, Box(kind, c, area))
    <2>1. Box(kind, c, area).y = inner.y + 1 /\ Box(kind, c, area).height = m + 2
      BY DEF Box
    <2>2. m + 2 <= LessNat(inner.height, 2)
      BY <1>6 DEF BoxFits
    <2> HIDE DEF inner, m
    <2> QED
      BY <1>1, <1>2, <1>3, <1>4, <2>1, <2>2 DEF Apart, LessNat
  <1> QED
    BY <1>5, <1>6

\* A bar stays within the plot, and a point above zero has one
\* (render_bottom_band_dotted_plot).
LEMMA FilledBounds ==
    ASSUME NEW kind, NEW top \in Nat \ {0}, NEW left \in Nat, NEW value \in Nat, NEW right \in Nat,
           NEW h \in Nat \ {0}
    PROVE  /\ Filled(kind, top, left, value, right, h) <= 4 * h
           /\ value > 0 => Filled(kind, top, left, value, right, h) > 0
  <1> DEFINE units == 4 * BandRows(kind, h)
             smooth == Smaller(left + 2 * value + right, 4 * top)
             eight == 8 * top
             scaled == (2 * smooth) * units
             t == scaled + 4 * top
             q == t \div eight
  <1>1. BandRows(kind, h) \in 1..h
    BY DEF BandRows, Larger, Smaller
  <1>2. units \in Nat /\ units >= 4 /\ units <= 4 * h
    BY <1>1
  <1>3. smooth \in Nat /\ smooth <= 4 * top /\ (value > 0 => smooth > 0)
    BY DEF Smaller
  <1>4. Filled(kind, top, left, value, right, h) = IF smooth > 0 THEN Larger(1, q) ELSE 0
    BY DEF Filled
  <1>5. eight \in Nat \ {0} /\ 2 * smooth \in Nat /\ 2 * smooth <= eight
    BY <1>3
  <1> HIDE DEF units, smooth
  <1>6. scaled \in Nat /\ scaled <= eight * units /\ eight * units \in Nat
    <2>1. \A a, b, k \in Nat : a <= b => a * k \in Nat /\ b * k \in Nat /\ a * k <= b * k
      OBVIOUS
    <2> HIDE DEF eight
    <2> QED
      BY <1>2, <1>3, <1>5, <2>1
  <1>7. t \in Nat /\ t < eight * units + eight
    <2> HIDE DEF scaled
    <2> QED
      BY <1>6
  <1> HIDE DEF eight, t
  <1>8. q \in Nat /\ q * eight <= t
    <2>1. \A a \in Nat, b \in Nat \ {0} : a \div b \in Nat /\ (a \div b) * b <= a
      BY Z3
    <2> QED
      BY <1>5, <1>7, <2>1
  <1> HIDE DEF q
  <1>9. q <= units
    <2> SUFFICES ASSUME q >= units + 1 PROVE FALSE
      BY <1>2, <1>8
    <2>1. \A a, b, k \in Nat : a <= b => a * k <= b * k
      OBVIOUS
    <2>2. (units + 1) * eight <= q * eight
      BY <1>2, <1>5, <1>8, <2>1
    <2>3. (units + 1) * eight = eight * units + eight /\ q * eight \in Nat
      BY <1>2, <1>5, <1>8
    <2> QED
      BY <1>5, <1>6, <1>7, <1>8, <2>2, <2>3
  <1> QED
    BY <1>2, <1>3, <1>4, <1>9, <1>8 DEF Larger

\* The plot is what the labels leave of the panel.
LEMMA PlotType ==
    ASSUME NEW c, IsChart(c), NEW area \in Rect
    PROVE  PlotArea(c, area) \in Rect
  <1> DEFINE inner == Inner(area)
             gutter == IF HasAxis(c, area) THEN c.label + 1 ELSE 0
  <1>1. inner \in Rect /\ c.label \in Nat
    BY InnerType DEF IsChart
  <1>2. inner.x + gutter \in Nat /\ inner.width - gutter \in Nat
    <2>1. inner.x \in Nat /\ inner.width \in Nat
      BY <1>1 DEF Rect
    <2>2. HasAxis(c, area) => LessNat(inner.width, c.label + 1) >= 4
      BY DEF HasAxis
    <2> HIDE DEF inner
    <2> QED
      BY <1>1, <2>1, <2>2 DEF LessNat
  <1>3. PlotArea(c, area) = [inner EXCEPT !.x = inner.x + gutter, !.width = inner.width - gutter]
    BY DEF PlotArea
  <1> HIDE DEF inner, gutter
  <1> QED
    BY <1>1, <1>2, <1>3 DEF Rect

\* The last points are shown, as many as there is room for.
LEMMA VisibleShape ==
    ASSUME NEW points \in Seq(Nat) \ {<<>>}, NEW width \in Nat \ {0}
    PROVE  LET seen == Visible(points, width)
           IN /\ seen \in Seq(Nat) /\ Len(seen) \in 1..width
              /\ seen[Len(seen)] = points[Len(points)]
  <1> DEFINE n == Len(points)
             k == Smaller(width, n)
             seen == SubSeq(points, n - k + 1, n)
  <1>1. n \in Nat \ {0} /\ k \in 1..n /\ k <= width
    BY DEF Smaller
  <1>2. n - k + 1 \in 1..n
    BY <1>1
  <1>3. Visible(points, width) = seen
    BY DEF Visible
  <1> HIDE DEF k
  <1>4. Len(seen) = k /\ \A i \in 1..k : seen[i] = points[n - k + i]
    BY <1>1, <1>2
  <1>5. seen \in Seq(Nat)
    BY <1>1, <1>2
  <1>6. seen[k] = points[n]
    BY <1>1, <1>4
  <1> HIDE DEF seen, n
  <1>7. Len(seen) \in 1..width
    BY <1>1, <1>4
  <1> QED
    BY <1>3, <1>4, <1>5, <1>6, <1>7 DEF n

\* The bars stand within the plot, the newest at its right edge.
LEMMA BarsInside ==
    ASSUME NEW kind, NEW c, IsChart(c), NEW area \in Rect
    PROVE  LET plot == PlotArea(c, area)
           IN /\ \A b \in Bars(kind, c, area) :
                    /\ plot.x <= b.x /\ b.x < plot.x + plot.width
                    /\ b.filled <= 4 * plot.height
                    /\ b.value > 0 => b.filled > 0
              /\ plot.width > 0 /\ plot.height > 0 =>
                    \E b \in Bars(kind, c, area) :
                       b.x = plot.x + plot.width - 1 /\ b.value = c.points[Len(c.points)]
  <1> DEFINE plot == PlotArea(c, area)
             seen == Visible(c.points, plot.width)
             n == Len(seen)
             at(i) == seen[Larger(1, Smaller(n, i))]
             bar(i) == [x |-> plot.x + plot.width - n + i - 1, value |-> seen[i],
                        filled |-> Filled(kind, c.top, at(i - 1), at(i), at(i + 1), plot.height)]
  <1>1. /\ plot.x \in Nat /\ plot.width \in Nat /\ plot.height \in Nat
    BY PlotType DEF Rect
  <1>2. CASE plot.width = 0 \/ plot.height = 0
    BY <1>1, <1>2 DEF Bars
  <1>3. CASE plot.width # 0 /\ plot.height # 0
    <2>1. Bars(kind, c, area) = {bar(i) : i \in DOMAIN seen}
      BY <1>3 DEF Bars
    <2>2. c.points \in Seq(Nat) \ {<<>>} /\ c.top \in Nat \ {0}
      BY DEF IsChart
    <2> HIDE DEF plot
    <2>3. seen \in Seq(Nat) /\ n \in 1..plot.width /\ seen[n] = c.points[Len(c.points)]
      BY <1>1, <1>3, <2>2, VisibleShape
    <2> HIDE DEF seen
    <2>4. DOMAIN seen = 1..n /\ \A i \in 1..n : seen[i] \in Nat
      BY <2>3
    <2> HIDE DEF n
    <2>5. n \in Nat \ {0} /\ n <= plot.width
      BY <1>1, <2>3
    <2>6. ASSUME NEW i \in Int
          PROVE  at(i) \in Nat
      <3>1. Larger(1, Smaller(n, i)) \in 1..n
        BY <2>5 DEF Larger, Smaller
      <3> QED
        BY <2>4, <3>1
    <2>7. ASSUME NEW i \in 1..n
          PROVE  /\ plot.x <= bar(i).x /\ bar(i).x < plot.x + plot.width
                 /\ bar(i).filled <= 4 * plot.height
                 /\ bar(i).value > 0 => bar(i).filled > 0
      <3>1. /\ bar(i).x = plot.x + plot.width - n + i - 1
            /\ plot.x <= bar(i).x /\ bar(i).x < plot.x + plot.width
        BY <1>1, <2>5
      <3>2. at(i) = seen[i]
        BY <2>5 DEF Larger, Smaller
      <3>3. at(i - 1) \in Nat /\ at(i) \in Nat /\ at(i + 1) \in Nat
        BY <2>5, <2>6
      <3> DEFINE f == Filled(kind, c.top, at(i - 1), at(i), at(i + 1), plot.height)
      <3>4. bar(i).value = at(i) /\ bar(i).filled = f
        BY <3>2
      <3> HIDE DEF at, bar
      <3>5. f <= 4 * plot.height /\ (at(i) > 0 => f > 0)
        BY <1>1, <1>3, <2>2, <3>3, FilledBounds
      <3> QED
        BY <3>1, <3>4, <3>5
    <2>8. bar(n).x = plot.x + plot.width - 1 /\ bar(n).value = c.points[Len(c.points)]
      BY <1>1, <2>3, <2>5
    <2>9. n \in 1..n
      BY <2>5
    <2> HIDE DEF bar
    <2> QED
      BY <2>1, <2>4, <2>7, <2>8, <2>9 DEF plot
  <1> QED
    BY <1>2, <1>3

-----------------------------------------------------------------------------
(* The dashboard.                                                          *)

\* The widths from which on the lines about a disk take one row, two and three.
AreWraps(wraps) ==
    /\ wraps \in [1..3 -> Nat \X Nat \X Nat]
    /\ \A k \in 1..3 : wraps[k][1] >= wraps[k][2] /\ wraps[k][2] >= wraps[k][3]

\* What the widgets hold has the types the panels rest on.
LEMMA ContentShape ==
    ASSUME PanelsInv
    PROVE  /\ IsView(content.peers) /\ IsChart(content.chart)
           /\ content.nodes \in Nat /\ content.details \in Nat /\ content.disks \in Nat
           /\ content.disk \in 0 .. Larger(content.disks, 1) - 1
           /\ content.nodeWidths \in [NodeListFields -> Nat]
           /\ content.detailWidths \in [DetailListFields -> Nat]
           /\ AreWraps(content.wraps)
  BY ContentsAssumption DEF PanelsInv, IsView, IsChart, AreWraps

\* The terminal has a size, and so has every panel.
LEMMA SizeShape ==
    ASSUME PanelsInv
    PROVE  /\ Width \in Nat /\ Width % 4 = 0 /\ height \in Nat /\ status \in BOOLEAN
           /\ \A p \in Names : AreaNow(p) \in Rect /\ Inner(AreaNow(p)) \in Rect
           /\ DrawnNow \subseteq Names
  <1>1. Width \in Nat /\ Width % 4 = 0
    BY SizesAssumption DEF PanelsInv, Width
  <1>2. height \in Nat /\ status \in BOOLEAN
    BY SizesAssumption DEF PanelsInv
  <1>3. DrawnNow \subseteq Names
    BY DEF DrawnNow, Drawn
  <1> QED
    BY <1>1, <1>2, <1>3, AreaType, InnerType DEF AreaNow

\* For any terminal and any content: everything is painted within its panel, the
\* panels within the screen, and nothing over anything else (draw_widgets,
\* render_content, the chart widgets).
THEOREM NothingIsOutside == Spec => []NothingOutside
  <1>1. ASSUME PanelsInv
        PROVE  NothingOutside
    <2>1. AreasApart(Width, height, status)
      BY <1>1, SizeShape, AreasNeverOverlap
    <2>2. ASSUME "countries" \in DrawnNow
          PROVE  LET v == content.peers
                     inner == Inner(AreaNow("countries"))
                     cells == Cells(v, inner)
                     grid == [inner EXCEPT !.height = Smaller(inner.height, DataRows)]
                 IN \A i \in cells :
                       /\ Within(Cell(v, inner, i), grid)
                       /\ \A j \in cells \ {i} : Apart(Cell(v, inner, i), Cell(v, inner, j))
      <3>1. IsView(content.peers) /\ Inner(AreaNow("countries")) \in Rect
        BY <1>1, <2>2, ContentShape, SizeShape
      <3> QED
        BY <3>1, CellsApart
    <2>3. ASSUME NEW p \in DrawnNow \cap {"time", "txs"}
          PROVE  LET c == content.chart
                     inner == Inner(AreaNow(p))
                     plot == PlotArea(c, AreaNow(p))
                 IN /\ \A r \in MetricRects(p, c, AreaNow(p)) \cup AxisLabels(c, AreaNow(p)) :
                          Within(r, inner)
                    /\ BoxFits(p, c, AreaNow(p)) =>
                          \A r \in AxisLabels(c, AreaNow(p)) : Apart(r, Box(p, c, AreaNow(p)))
                    /\ \A b \in Bars(p, c, AreaNow(p)) :
                          /\ plot.x <= b.x /\ b.x < plot.x + plot.width
                          /\ b.filled <= 4 * plot.height
                          /\ b.value > 0 => b.filled > 0
      <3>1. IsChart(content.chart) /\ AreaNow(p) \in Rect
        BY <1>1, ContentShape, SizeShape
      <3>2. \A r \in MetricRects(p, content.chart, AreaNow(p)) : Within(r, Inner(AreaNow(p)))
        BY <3>1, MetricsInside
      <3>3. \A r \in AxisLabels(content.chart, AreaNow(p)) :
               /\ Within(r, Inner(AreaNow(p)))
               /\ BoxFits(p, content.chart, AreaNow(p)) =>
                     Apart(r, Box(p, content.chart, AreaNow(p)))
        BY <3>1, LabelsInside
      <3> QED
        BY <3>1, <3>2, <3>3, BarsInside
    <2> QED
      BY <2>1, <2>2, <2>3 DEF NothingOutside
  <1>2. PanelsInv => NothingOutside
    BY <1>1
  <1> QED
    BY <1>2, PanelsInvAlways, PTL

\* The rows of known countries and those counted as hidden are all of them.
LEMMA CountriesCounted ==
    ASSUME NEW v, IsView(v), NEW area \in Rect
    PROVE  /\ PaintedCells(v, area) = Cells(v, area)
           /\ HasGrid(v, area) =>
                 Cardinality(PaintedCells(v, area) \ {KnownRows(v, area)}) + HiddenCountries(v, area)
                    = Len(v.countries)
           /\ HasGrid(v, area) /\ v.unknown > 0 /\ Mode(v, area.width) # "summary" =>
                 KnownRows(v, area) \in PaintedCells(v, area)
  <1> DEFINE known == KnownRows(v, area)
             n == Len(v.countries)
  <1>1. PaintedCells(v, area) = Cells(v, area)
    BY CountsFit, CellsApart DEF PaintedCells
  <1>2. ASSUME HasGrid(v, area)
        PROVE  Cardinality(Cells(v, area) \ {known}) + HiddenCountries(v, area) = n
    <2>1. known \in 0..n /\ n \in Nat
      BY <1>2, CellsFit DEF IsView
    <2>2. Cells(v, area) \ {known} = 0..known - 1
      BY <1>2, <2>1 DEF Cells
    <2>3. Cardinality(0..known - 1) = known
      <3> HIDE DEF known, n
      <3>1. 0 \in Int /\ known - 1 \in Int /\ known \in Nat
        BY <2>1
      <3>2. Cardinality(0..known - 1) = IF 0 > known - 1 THEN 0 ELSE (known - 1) - 0 + 1
        BY <3>1, FS_Interval
      <3> QED
        BY <3>1, <3>2
    <2>4. HiddenCountries(v, area) = n - known
      BY DEF HiddenCountries
    <2>5. Cardinality(Cells(v, area) \ {known}) = known
      BY <2>2, <2>3
    <2> HIDE DEF known, n
    <2> QED
      BY <2>1, <2>4, <2>5
  <1>3. ASSUME HasGrid(v, area), v.unknown > 0, Mode(v, area.width) # "summary"
        PROVE  known \in Cells(v, area)
    BY <1>3 DEF Cells
  <1> QED
    BY <1>1, <1>2, <1>3

\* A line takes one row where it is not wrapped, and no more where it is wider.
LEMMA WrappedBounds ==
    ASSUME NEW wraps, AreWraps(wraps), NEW k \in 1..3, NEW w \in Nat, NEW x \in Nat, w <= x
    PROVE  /\ WrappedRows(wraps[k], w) \in 1..4 /\ WrappedRows(wraps[k], x) \in 1..4
           /\ WrappedRows(wraps[k], x) <= WrappedRows(wraps[k], w)
           /\ w >= wraps[k][1] => WrappedRows(wraps[k], w) = 1
  <1> DEFINE a == wraps[k][1]
             b == wraps[k][2]
             c == wraps[k][3]
  <1>1. a \in Nat /\ b \in Nat /\ c \in Nat /\ a >= b /\ b >= c
    BY DEF AreWraps
  <1>2. \A v : WrappedRows(wraps[k], v) = CASE v >= a -> 1
                                            [] v < a /\ v >= b -> 2
                                            [] v < b /\ v >= c -> 3
                                            [] OTHER -> 4
    BY DEF WrappedRows
  <1> HIDE DEF a, b, c
  <1>3. \A v \in Nat : WrappedRows(wraps[k], v) = IF v >= a THEN 1 ELSE IF v >= b THEN 2
                                                  ELSE IF v >= c THEN 3 ELSE 4
    BY <1>1, <1>2
  <1> QED
    BY <1>1, <1>3 DEF a

\* The lines follow each other, and end no lower where they are wider.
LEMMA LastRows ==
    ASSUME NEW c, AreWraps(c.wraps), NEW w \in Nat, NEW x \in Nat, w <= x, NEW k \in 1..3
    PROVE  /\ LastRow(c, w)[k] \in Nat /\ LastRow(c, x)[k] \in Nat
           /\ LastRow(c, x)[k] <= LastRow(c, w)[k]
           /\ (\A j \in 1..k : w >= c.wraps[j][1]) => LastRow(c, w)[k] = k
  <1> DEFINE before(j) == WrappedRows(c.wraps[j], w)
             after(j) == WrappedRows(c.wraps[j], x)
  <1>1. \A j \in 1..3 : /\ before(j) \in 1..4 /\ after(j) \in 1..4
                        /\ after(j) <= before(j)
                        /\ w >= c.wraps[j][1] => before(j) = 1
    BY WrappedBounds
  <1>2. /\ LastRow(c, w) = <<before(1), before(1) + before(2), before(1) + before(2) + before(3)>>
        /\ LastRow(c, x) = <<after(1), after(1) + after(2), after(1) + after(2) + after(3)>>
    BY DEF LastRow
  <1> HIDE DEF before, after
  <1>3. CASE k = 1
    <2>1. LastRow(c, w)[k] = before(1) /\ LastRow(c, x)[k] = after(1)
      BY <1>2, <1>3
    <2> QED
      BY <1>1, <1>3, <2>1
  <1>4. CASE k = 2
    <2>1. LastRow(c, w)[k] = before(1) + before(2) /\ LastRow(c, x)[k] = after(1) + after(2)
      BY <1>2, <1>4
    <2> QED
      BY <1>1, <1>4, <2>1
  <1>5. CASE k = 3
    <2>1. /\ LastRow(c, w)[k] = before(1) + before(2) + before(3)
          /\ LastRow(c, x)[k] = after(1) + after(2) + after(3)
      BY <1>2, <1>5
    <2> QED
      BY <1>1, <1>5, <2>1
  <1> QED
    BY <1>3, <1>4, <1>5

\* The strip is too low for the table of disks: the selected one is shown alone.
LEMMA DisksAlone ==
    ASSUME NEW c, NEW width \in Nat, NEW h \in Nat, NEW s \in BOOLEAN
    PROVE  LET area == Area("disks", width, h, s)
           IN DisksShown(c, area) =
                 IF c.disks = 0 \/ Inner(area).width = 0 THEN {}
                 ELSE {<<SelectedDisk(c), k>> :
                          k \in {j \in 1..3 : LastRow(c, Inner(area).width)[j] <= StripRows(area)}}
  <1> DEFINE area == Area("disks", width, h, s)
  <1>1. area.height = AuxiliaryRow(MainHeight(h, s))
    BY DEF Area, RowOf, Names
  <1>2. area.height <= SummaryHeight
    BY <1>1, MainFits DEF AuxiliaryRow, Smaller, AuxiliaryHeight, SummaryHeight
  <1> HIDE DEF area
  <1>3. DisksShown(c, area) =
           IF c.disks = 0 \/ Inner(area).width = 0 THEN {}
           ELSE {<<SelectedDisk(c), k>> :
                    k \in {j \in 1..3 : LastRow(c, Inner(area).width)[j] <= StripRows(area)}}
    BY <1>2 DEF DisksShown
  <1> QED
    BY <1>3 DEF area

\* The rows of a list and those it counts are all, and they have their place.
LEMMA ListsCounted ==
    ASSUME NEW n \in Nat, NEW rows \in Nat, rows > 1
    PROVE  /\ ListRows(n, rows) + CountedEntries(n, rows) = n
           /\ ListRows(n, rows) + Smaller(CountedEntries(n, rows), 1) <= rows
  BY DEF ListMore, ListRows, CountedEntries, Smaller

\* For any terminal and any content: hidden countries are counted, hidden nodes
\* and details in lists of several rows are, the lines about the selected disk are
\* shown where the strip has their rows and none wraps, peers of unknown country
\* and the newest point of a chart have their place (render_content,
\* compact_list_lines, render_disk_list, render_bottom_band_dotted_plot).
THEOREM NothingIsUncounted == Spec => []HiddenRowsCounted
  <1>1. ASSUME PanelsInv
        PROVE  HiddenRowsCounted
    <2>1. ASSUME "countries" \in DrawnNow
          PROVE  LET v == content.peers
                     inner == Inner(AreaNow("countries"))
                     painted == PaintedCells(v, inner)
                 IN /\ painted = Cells(v, inner)
                    /\ HasGrid(v, inner) /\ SummaryPainted(v, inner) =>
                          Cardinality(painted \ {KnownRows(v, inner)}) + HiddenCountries(v, inner)
                             = Len(v.countries)
                    /\ HasGrid(v, inner) /\ v.unknown > 0 /\ Mode(v, inner.width) # "summary" =>
                          KnownRows(v, inner) \in painted
      <3>1. IsView(content.peers) /\ Inner(AreaNow("countries")) \in Rect
        BY <1>1, <2>1, ContentShape, SizeShape
      <3> QED
        BY <3>1, CountriesCounted
    <2>2. ASSUME NEW p \in DrawnNow \cap {"node", "details"}
          PROVE  LET n == IF p = "node" THEN content.nodes ELSE content.details
                     tableWidth == IF p = "node" THEN NodeTableWidth ELSE DetailTableWidth
                     inner == Inner(AreaNow(p))
                     listed == ListRows(n, inner.height)
                     counted == CountedEntries(n, inner.height)
                 IN n > 1 /\ AreaNow(p).width < tableWidth /\ inner.width > 0 /\ inner.height > 1 =>
                       /\ Rows(listed) \subseteq Shows(p, content, AreaNow(p))
                       /\ listed + counted = n
                       /\ listed + Smaller(counted, 1) <= inner.height
      <3> DEFINE n == IF p = "node" THEN content.nodes ELSE content.details
                 tableWidth == IF p = "node" THEN NodeTableWidth ELSE DetailTableWidth
                 area == AreaNow(p)
                 rows == Inner(area).height
      <3>1. n \in Nat /\ rows \in Nat /\ area.width \in Nat
        <4>1. p \in Names
          BY <1>1, SizeShape
        <4> QED
          BY <1>1, <4>1, ContentShape, SizeShape DEF Rect
      <3>2. ASSUME n > 1, area.width < tableWidth, Inner(area).width > 0
            PROVE  Rows(ListRows(n, rows)) \subseteq Shows(p, content, area)
        <4>1. ~ (area.width >= tableWidth) /\ Inner(area).width # 0 /\ n # 0 /\ n # 1
          BY <3>1, <3>2 DEF NodeTableWidth, DetailTableWidth
        <4>2. CASE p = "node"
          <5>1. Shows(p, content, area) = EntriesShow(content.nodes, area, NodeList,
                   content.nodeWidths, NodeTable, NodeTableWidth)
            BY <4>1, <4>2 DEF Shows, NodesShown
          <5> QED
            BY <4>1, <4>2, <5>1 DEF EntriesShow
        <4>3. CASE p = "details"
          <5>1. Shows(p, content, area) = EntriesShow(content.details, area, DetailList,
                   content.detailWidths, DetailTable, DetailTableWidth)
            BY <4>1, <4>3 DEF Shows, DetailsShown
          <5> QED
            BY <4>1, <4>3, <5>1 DEF EntriesShow
        <4> QED
          BY <4>2, <4>3
      <3>3. rows > 1 => /\ ListRows(n, rows) + CountedEntries(n, rows) = n
                        /\ ListRows(n, rows) + Smaller(CountedEntries(n, rows), 1) <= rows
        BY <3>1, ListsCounted
      <3> QED
        BY <3>2, <3>3
    <2>3. ASSUME "disks" \in DrawnNow, content.disks > 0
          PROVE  LET w == Inner(AreaNow("disks")).width
                 IN \A k \in 1..3 :
                       /\ w > 0 /\ StripRows(AreaNow("disks")) >= k
                       /\ \A j \in 1..k : w >= content.wraps[j][1]
                       => <<SelectedDisk(content), k>> \in DisksShown(content, AreaNow("disks"))
      <3> DEFINE area == AreaNow("disks")
                 w == Inner(area).width
      <3> SUFFICES ASSUME NEW k \in 1..3, w > 0, StripRows(area) >= k,
                          \A j \in 1..k : w >= content.wraps[j][1]
                   PROVE  <<SelectedDisk(content), k>> \in DisksShown(content, area)
        OBVIOUS
      <3>1. content.disks # 0 /\ AreWraps(content.wraps)
        BY <1>1, <2>3, ContentShape
      <3>2. "disks" \in Names
        BY DEF Names
      <3>3. w \in Nat /\ StripRows(area) \in Nat /\ w # 0
        BY <1>1, <3>2, SizeShape DEF Rect, StripRows, LessNat
      <3>4. DisksShown(content, area) =
               {<<SelectedDisk(content), i>> :
                   i \in {j \in 1..3 : LastRow(content, w)[j] <= StripRows(area)}}
        <4>1. DisksShown(content, area) =
                 IF content.disks = 0 \/ w = 0 THEN {}
                 ELSE {<<SelectedDisk(content), i>> :
                          i \in {j \in 1..3 : LastRow(content, w)[j] <= StripRows(area)}}
          BY <1>1, SizeShape, DisksAlone DEF AreaNow
        <4> HIDE DEF w, area
        <4> QED
          BY <3>1, <3>3, <4>1
      <3> HIDE DEF w, area
      <3>5. LastRow(content, w)[k] = k
        BY <3>1, <3>3, LastRows
      <3> QED
        BY <3>3, <3>4, <3>5
    <2>4. ASSUME NEW p \in DrawnNow \cap {"time", "txs"}
          PROVE  LET plot == PlotArea(content.chart, AreaNow(p))
                     points == content.chart.points
                 IN plot.width > 0 /\ plot.height > 0 =>
                       \E b \in Bars(p, content.chart, AreaNow(p)) :
                          b.x = plot.x + plot.width - 1 /\ b.value = points[Len(points)]
      <3>1. IsChart(content.chart) /\ AreaNow(p) \in Rect
        BY <1>1, ContentShape, SizeShape
      <3> QED
        BY <3>1, BarsInside
    <2> QED
      BY <2>1, <2>2, <2>3, <2>4 DEF HiddenRowsCounted
  <1>2. PanelsInv => HiddenRowsCounted
    BY <1>1
  <1> QED
    BY <1>2, PanelsInvAlways, PTL

-----------------------------------------------------------------------------
(* Growing.                                                                *)

\* A higher dashboard has no lower strip and no lower bottom row, and a chart
\* row that is lower has room for all metrics (content_row_heights).
LEMMA RowsGrow ==
    ASSUME NEW low \in Nat, NEW high \in Nat, low <= high
    PROVE  /\ AuxiliaryRow(low) <= AuxiliaryRow(high)
           /\ BottomHeight(low) <= BottomHeight(high)
           /\ ChartHeight(low) <= ChartHeight(high) \/ ChartHeight(high) >= 10
  <1> DEFINE r == low - AuxiliaryRow(low)
             s == high - AuxiliaryRow(high)
  <1>1. AuxiliaryRow(low) <= AuxiliaryRow(high)
    BY DEF AuxiliaryRow, Smaller, AuxiliaryHeight
  <1>2. r \in Nat /\ s \in Nat /\ r <= s
    BY DEF AuxiliaryRow, Smaller, AuxiliaryHeight
  <1>3. /\ BottomHeight(low) = IF r <= 16 THEN r \div 2
                               ELSE Larger(8, Smaller(IF r >= 28 THEN (2 * r) \div 5
                                                      ELSE IF r >= 22 THEN 10 ELSE 8, r - 8))
        /\ BottomHeight(high) = IF s <= 16 THEN s \div 2
                                ELSE Larger(8, Smaller(IF s >= 28 THEN (2 * s) \div 5
                                                       ELSE IF s >= 22 THEN 10 ELSE 8, s - 8))
    BY DEF BottomHeight
  <1>4. ChartHeight(low) = r - BottomHeight(low) /\ ChartHeight(high) = s - BottomHeight(high)
    BY RowsFill
  <1> HIDE DEF r, s
  <1>5. BottomHeight(low) <= BottomHeight(high)
    BY <1>2, <1>3 DEF Larger, Smaller
  <1>6. ChartHeight(low) <= ChartHeight(high) \/ ChartHeight(high) >= 10
    <2>1. CASE s >= 22
      BY <1>2, <1>3, <1>4, <2>1 DEF Larger, Smaller
    <2>2. CASE s < 22
      BY <1>2, <1>3, <1>4, <2>2 DEF Larger, Smaller
    <2> QED
      BY <1>2, <2>1, <2>2
  <1> QED
    BY <1>1, <1>5, <1>6

\* The area of a panel that does not become smaller.
Grown(old, new) ==
    /\ old \in Rect /\ new \in Rect
    /\ old.width <= new.width /\ old.height <= new.height

\* Within the border it does not become smaller either.
LEMMA InnerGrows ==
    ASSUME NEW old, NEW new, Grown(old, new)
    PROVE  Grown(Inner(old), Inner(new))
  BY DEF Grown, Inner, Rect, Smaller, LessNat

\* The panels of a larger terminal: the charts may be lower, if high enough.
LEMMA AreasGrow ==
    ASSUME NEW width \in Nat, NEW wider \in Nat, NEW low \in Nat, NEW high \in Nat,
           NEW s \in BOOLEAN, width <= wider, low <= high, NEW p \in Names
    PROVE  /\ p \notin {"time", "txs"} => Grown(Area(p, width, low, s), Area(p, wider, high, s))
           /\ Area(p, width, low, s).width <= Area(p, wider, high, s).width
           /\ \/ Area(p, width, low, s).height <= Area(p, wider, high, s).height
              \/ Area(p, wider, high, s).height >= 10
  <1> DEFINE old == MainHeight(low, s)
             new == MainHeight(high, s)
             a == Area(p, width, low, s)
             b == Area(p, wider, high, s)
  <1>1. old \in Nat /\ new \in Nat /\ old <= new
    BY MainFits, MainGrows
  <1>2. a \in Rect /\ b \in Rect
    BY AreaType
  <1>3. /\ AuxiliaryRow(old) <= AuxiliaryRow(new)
        /\ BottomHeight(old) <= BottomHeight(new)
        /\ ChartHeight(old) <= ChartHeight(new) \/ ChartHeight(new) >= 10
    BY <1>1, RowsGrow
  <1>4. a.width <= b.width
    <2>1. width \div 4 \in Nat /\ wider \div 4 \in Nat /\ width \div 4 <= wider \div 4
      OBVIOUS
    <2>2. Quarters[p] \in 1..2
      BY DEF Quarters, Names
    <2>3. a.width = Quarters[p] * (width \div 4) /\ b.width = Quarters[p] * (wider \div 4)
      BY DEF Area
    <2> QED
      BY <2>1, <2>2, <2>3
  <1>5. /\ RowOf[p] = "auxiliary" => a.height = AuxiliaryRow(old) /\ b.height = AuxiliaryRow(new)
        /\ RowOf[p] = "charts" => a.height = ChartHeight(old) /\ b.height = ChartHeight(new)
        /\ RowOf[p] = "bottom" => a.height = BottomHeight(old) /\ b.height = BottomHeight(new)
        /\ RowOf[p] \in {"auxiliary", "charts", "bottom"}
        /\ p \notin {"time", "txs"} => RowOf[p] # "charts"
    BY DEF Area, RowOf, Names
  <1> QED
    BY <1>2, <1>3, <1>4, <1>5 DEF Grown

\* Where all metrics are narrow enough only the height decides about the box.
LEMMA BoxFitsHigh ==
    ASSUME NEW kind, NEW c, IsChart(c), NEW area \in Rect, AllMetricsFit(kind, c, area)
    PROVE  BoxFits(kind, c, area) <=> area.height >= 7
  <1> DEFINE vals == BoxValues(kind, c, area)
             S == {vals[i] : i \in 1..Metrics(area)}
  <1>1. Metrics(area) \in 1..4
    BY MetricsType
  <1>2. /\ \A i \in 1..4 : vals[i] \in Nat
        /\ vals[1] + vals[2] + vals[3] + vals[4] \in Nat
    <2>1. c.figure \in Nat /\ Grouped(c.digits) \in Nat
      BY GroupedType DEF IsChart
    <2> QED
      BY <2>1 DEF BoxValues
  <1>3. \A i \in 1..4 : 6 + vals[i] <= LessNat(Inner(area).width, 4)
    BY DEF AllMetricsFit
  <1> HIDE DEF vals
  <1>4. LargestIn(S) \in S
    <2>1. S \in SUBSET Nat /\ S # {}
      BY <1>1, <1>2
    <2>2. \A n \in S : n <= vals[1] + vals[2] + vals[3] + vals[4]
      BY <1>1, <1>2
    <2> HIDE DEF S
    <2> QED
      BY <1>2, <2>1, <2>2, LargestIsIn
  <1>5. BoxContent(kind, c, area) <= LessNat(Inner(area).width, 4)
    <2>1. PICK i \in 1..4 : LargestIn(S) = vals[i]
      BY <1>1, <1>4
    <2>2. BoxContent(kind, c, area) = 6 + vals[i]
      BY <2>1 DEF BoxContent, vals
    <2> QED
      BY <1>3, <2>2
  <1>6. Metrics(area) + 2 <= LessNat(Inner(area).height, 2) <=> area.height >= 7
    BY DEF Metrics, Inner, Rect, Larger, Smaller, LessNat
  <1> QED
    BY <1>5, <1>6 DEF BoxFits

\* A larger chart panel shows no fewer metrics, if it is not narrow.
LEMMA MetricsGrow ==
    ASSUME NEW kind, NEW c, IsChart(c), NEW old \in Rect, NEW new \in Rect,
           old.width <= new.width, old.height <= new.height \/ new.height >= 10,
           old.width >= NarrowWidth, AllMetricsFit(kind, c, old)
    PROVE  MetricsShown(kind, c, old) \subseteq MetricsShown(kind, c, new)
  <1>1. /\ old.width \in Nat /\ new.width \in Nat /\ old.height \in Nat /\ new.height \in Nat
        /\ ~ (new.width < NarrowWidth) /\ ~ (old.width < NarrowWidth)
        /\ ~ (new.width < UltraNarrowWidth) /\ ~ (old.width < UltraNarrowWidth)
    BY DEF Rect, NarrowWidth, UltraNarrowWidth
  <1>2. /\ BoxValues(kind, c, old) = BoxValues(kind, c, new)
        /\ GridValues(kind, c, old) = GridValues(kind, c, new)
    <2>1. (new.width < UltraNarrowWidth) = (old.width < UltraNarrowWidth)
      BY <1>1
    <2>2. (new.width >= NarrowWidth) = (old.width >= NarrowWidth)
      BY <1>1 DEF NarrowWidth
    <2> QED
      BY <2>1, <2>2, Zenon DEF BoxValues, GridValues
  <1>3. LessNat(Inner(old).width, 4) <= LessNat(Inner(new).width, 4)
    BY <1>1 DEF Inner, LessNat
  <1>4. AllMetricsFit(kind, c, new)
    <2>1. \A i \in 1..4 : BoxValues(kind, c, old)[i] \in Nat
      <3>1. c.figure \in Nat /\ Grouped(c.digits) \in Nat
        BY GroupedType DEF IsChart
      <3> QED
        BY <3>1 DEF BoxValues
    <2>2. LessNat(Inner(old).width, 4) \in Nat /\ LessNat(Inner(new).width, 4) \in Nat
      BY <1>1 DEF Inner, LessNat
    <2> QED
      BY <1>2, <1>3, <2>1, <2>2 DEF AllMetricsFit
  <1>5. /\ BoxFits(kind, c, old) <=> old.height >= 7
        /\ BoxFits(kind, c, new) <=> new.height >= 7
    BY <1>4, BoxFitsHigh
  <1>6. Metrics(old) \in 1..4 /\ Metrics(new) \in 1..4 /\ Metrics(old) <= Metrics(new)
    <2>1. Metrics(old) <= Metrics(new)
      BY <1>1 DEF Metrics, Larger, Smaller, LessNat
    <2> QED
      BY <2>1, MetricsType
  <1>7. CASE new.height >= 7
    <2>1. MetricsShown(kind, c, new) = 1..Metrics(new)
      BY <1>5, <1>7 DEF MetricsShown
    <2>2. MetricsShown(kind, c, old) \subseteq 1..Metrics(old)
      <3>1. CASE BoxFits(kind, c, old)
        BY <3>1 DEF MetricsShown
      <3>2. CASE ~ BoxFits(kind, c, old)
        <4>1. GridRows(old) \in Nat
          <5>1. Inner(old).height \in Nat
            BY InnerType DEF Rect
          <5> QED
            BY <1>6, <5>1 DEF GridRows, Smaller, LessNat
        <4>2. Smaller(Metrics(old), 2 * GridRows(old)) <= Metrics(old)
          BY <1>6, <4>1 DEF Smaller
        <4>3. Smaller(Metrics(old), 2 * GridRows(old)) \in Nat
          BY <1>6, <4>1 DEF Smaller
        <4> QED
          BY <1>6, <3>2, <4>2, <4>3 DEF MetricsShown
      <3> QED
        BY <3>1, <3>2
    <2> QED
      BY <1>6, <2>1, <2>2
  <1>8. CASE ~ (new.height >= 7)
    <2>1. /\ old.height <= new.height /\ old.height < 7 /\ new.height < 7
      BY <1>1, <1>8
    <2>2. Metrics(old) = 1 /\ Metrics(new) = 1
      BY <1>1, <2>1 DEF Metrics, Larger, Smaller, LessNat
    <2>3. GridContent(kind, c, old) = GridContent(kind, c, new)
      BY <1>2, <2>2 DEF GridContent
    <2>4. GridFits(kind, c, old) => GridFits(kind, c, new)
      <3>1. GridContent(kind, c, old) \in Nat
        BY GridContentType
      <3>2. LessNat(Inner(old).width, 4) \in Nat /\ LessNat(Inner(new).width, 4) \in Nat
        BY <1>1 DEF Inner, LessNat
      <3> QED
        BY <1>3, <2>3, <3>1, <3>2 DEF GridFits
    <2>5. GridRows(old) \in Nat /\ GridRows(new) \in Nat /\ GridRows(old) <= GridRows(new)
      <3>1. Inner(old).height \in Nat /\ Inner(new).height \in Nat /\ Inner(old).height <= Inner(new).height
        BY <1>1, <2>1 DEF Inner, LessNat
      <3>2. (Metrics(old) + 1) \div 2 = 1 /\ (Metrics(new) + 1) \div 2 = 1
        BY <2>2
      <3> QED
        BY <3>1, <3>2 DEF GridRows, Smaller, LessNat
    <2>6. Smaller(Metrics(old), 2 * GridRows(old)) <= Smaller(Metrics(new), 2 * GridRows(new))
      BY <2>2, <2>5 DEF Smaller
    <2>7. /\ Smaller(Metrics(old), 2 * GridRows(old)) \in Nat
          /\ Smaller(Metrics(new), 2 * GridRows(new)) \in Nat
      BY <2>2, <2>5 DEF Smaller
    <2>8. ~ BoxFits(kind, c, old) /\ ~ BoxFits(kind, c, new)
      BY <1>1, <1>5, <2>1
    <2>9. CASE GridFits(kind, c, old)
      <3>1. /\ MetricsShown(kind, c, old) = 1..Smaller(Metrics(old), 2 * GridRows(old))
            /\ MetricsShown(kind, c, new) = 1..Smaller(Metrics(new), 2 * GridRows(new))
        BY <2>4, <2>8, <2>9 DEF MetricsShown
      <3> QED
        BY <2>6, <2>7, <3>1
    <2>10. CASE ~ GridFits(kind, c, old)
      BY <2>8, <2>10 DEF MetricsShown
    <2> QED
      BY <2>9, <2>10
  <1> QED
    BY <1>7, <1>8

\* Whatever a chart panel shows of its metrics is among the four.
LEMMA MetricsAreFour ==
    ASSUME NEW kind, NEW c, NEW area \in Rect
    PROVE  MetricsShown(kind, c, area) \subseteq 1..4
  <1>1. Metrics(area) \in 1..4
    BY MetricsType
  <1>2. GridRows(area) \in Nat
    <2>1. Inner(area).height \in Nat
      BY InnerType DEF Rect
    <2> QED
      BY <1>1, <2>1 DEF GridRows, Smaller, LessNat
  <1>3. Smaller(Metrics(area), 2 * GridRows(area)) \in 0..4
    BY <1>1, <1>2 DEF Smaller
  <1> QED
    BY <1>1, <1>3 DEF MetricsShown

\* A wider panel has cells if a narrower one has them, with flags if that one has
\* flags, and no fewer columns: cells become wider only where there was one column.
LEMMA ColumnsGrow ==
    ASSUME NEW v, IsView(v), NEW a, NEW b, Grown(a, b), a.width > 0, Mode(v, a.width) # "summary"
    PROVE  /\ Mode(v, b.width) # "summary"
           /\ Mode(v, a.width) = "full" => Mode(v, b.width) = "full"
           /\ Columns(v, a) <= Columns(v, b)
  <1> DEFINE d == Digits(Widest(v))
  <1>1. /\ a \in Rect /\ b \in Rect
        /\ a.width \in Nat /\ b.width \in Nat /\ a.width <= b.width /\ b.width > 0
    BY DEF Grown, Rect
  <1>2. d \in 1..4
    <2>1. Widest(v) \in Nat
      BY DEF Widest, IsView, Larger
    <2> QED
      BY <2>1, DigitsGrow
  <1>3. \A w : Mode(v, w) = IF v.flags /\ w >= 8 + d THEN "full"
                            ELSE IF w >= 5 + d THEN "code" ELSE "summary"
    BY DEF Mode, CellWidth
  <1>4. /\ Mode(v, b.width) # "summary"
        /\ Mode(v, a.width) = "full" => Mode(v, b.width) = "full"
    <2> HIDE DEF d
    <2>1. a.width >= 5 + d
      BY <1>1, <1>2, <1>3
    <2>2. b.width >= 5 + d /\ (a.width >= 8 + d => b.width >= 8 + d)
      BY <1>1, <1>2, <2>1
    <2>3. Mode(v, b.width) # "summary"
      BY <1>3, <2>2
    <2>4. ASSUME Mode(v, a.width) = "full"
          PROVE  Mode(v, b.width) = "full"
      <3>1. v.flags /\ a.width >= 8 + d
        BY <1>3, <2>4
      <3> QED
        BY <1>3, <2>2, <3>1
    <2> QED
      BY <2>3, <2>4
  <1>5. /\ ColumnWidth(v, a) \in Nat \ {0} /\ ColumnWidth(v, b) \in Nat \ {0}
        /\ Columns(v, a) \in 1..MaxColumns /\ Columns(v, b) \in 1..MaxColumns
    BY <1>1, <1>4, ColumnsFit
  <1>6. CASE Mode(v, a.width) = Mode(v, b.width)
    <2> DEFINE k == ColumnWidth(v, a) + ColumnGap
               p == (a.width + ColumnGap) \div k
               q == (b.width + ColumnGap) \div k
    <2>1. ColumnWidth(v, b) = ColumnWidth(v, a)
      BY <1>6 DEF ColumnWidth
    <2>2. /\ Columns(v, a) = Larger(1, Smaller(MaxColumns, p))
          /\ Columns(v, b) = Larger(1, Smaller(MaxColumns, q))
      BY <1>5, <2>1 DEF Columns
    <2>3. k \in Nat \ {0} /\ a.width + ColumnGap \in Nat /\ b.width + ColumnGap \in Nat
          /\ a.width + ColumnGap <= b.width + ColumnGap
      BY <1>1, <1>5 DEF ColumnGap
    <2>4. p \in Nat /\ q \in Nat /\ p <= q
      <3>1. \A x, y \in Nat, z \in Nat \ {0} :
               x <= y => x \div z \in Nat /\ y \div z \in Nat /\ x \div z <= y \div z
        BY Z3
      <3> HIDE DEF k
      <3> QED
        BY <2>3, <3>1
    <2> HIDE DEF p, q
    <2> QED
      BY <1>4, <2>2, <2>4 DEF Larger, Smaller, MaxColumns
  <1>7. CASE Mode(v, a.width) # Mode(v, b.width)
    <2>1. Mode(v, a.width) = "code" /\ Mode(v, b.width) = "full"
      BY <1>3, <1>4, <1>7
    <2>2. a.width < 8 + d
      <3>1. v.flags
        BY <1>3, <2>1
      <3>2. ~ (a.width >= 8 + d)
        BY <1>3, <2>1, <3>1
      <3> HIDE DEF d
      <3> QED
        BY <1>1, <1>2, <3>2
    <2>3. ColumnWidth(v, a) = 5 + d
      BY <2>1 DEF ColumnWidth, CellWidth
    <2>4. Columns(v, a) =
             Larger(1, Smaller(MaxColumns, (a.width + ColumnGap) \div (ColumnWidth(v, a) + ColumnGap)))
      BY <1>5 DEF Columns
    <2> HIDE DEF d
    <2>5. (a.width + 2) \div (7 + d) \in 0..1
      BY <1>1, <1>2, <2>2, Z3
    <2>6. (a.width + ColumnGap) \div (ColumnWidth(v, a) + ColumnGap) \in 0..1
      <3>1. ColumnWidth(v, a) + ColumnGap = 7 + d
        BY <1>2, <2>3 DEF ColumnGap
      <3> QED
        BY <2>5, <3>1 DEF ColumnGap
    <2>7. Columns(v, a) = 1
      BY <2>4, <2>6 DEF Larger, Smaller, MaxColumns
    <2> QED
      BY <1>4, <1>5, <2>7 DEF MaxColumns
  <1> QED
    BY <1>6, <1>7

\* A larger panel shows no fewer countries, and no fewer of their flags.
LEMMA CountriesGrow ==
    ASSUME NEW c, IsView(c.peers), NEW old, NEW new, Grown(old, new)
    PROVE  CountriesShown(c, old) \subseteq CountriesShown(c, new)
  <1> DEFINE v == c.peers
             a == Inner(old)
             b == Inner(new)
             row(i, area) == IF i < KnownRows(v, area) THEN <<"row", i + 1>> ELSE <<"unknown", 0>>
             flags(area) == IF HasGrid(v, area) /\ Mode(v, area.width) = "full"
                            THEN {<<"flags", 0>>} ELSE {}
             shown(area) == {row(i, area) : i \in PaintedCells(v, area)} \cup flags(area)
  <1>1. /\ CountriesShown(c, old) = shown(a) /\ CountriesShown(c, new) = shown(b)
    BY DEF CountriesShown
  <1>2. /\ IsView(v) /\ Grown(a, b) /\ a \in Rect /\ b \in Rect
        /\ a.width \in Nat /\ b.width \in Nat /\ a.height \in Nat /\ b.height \in Nat
        /\ a.width <= b.width /\ a.height <= b.height
    <2>1. Grown(a, b)
      BY InnerGrows
    <2> QED
      BY <2>1 DEF Grown, Rect
  <1> HIDE DEF v, a, b
  <1>3. PaintedCells(v, a) = Cells(v, a) /\ PaintedCells(v, b) = Cells(v, b)
    BY <1>2, CountriesCounted
  <1>4. CASE ~ HasGrid(v, a)
    BY <1>1, <1>3, <1>4 DEF Cells
  <1>5. CASE HasGrid(v, a) /\ Mode(v, a.width) = "summary"
    <2>1. KnownRows(v, a) = 0
      BY <1>5 DEF KnownRows
    <2>2. Cells(v, a) = {}
      BY <1>5, <2>1 DEF Cells
    <2> QED
      BY <1>1, <1>3, <1>5, <2>2
  <1>6. CASE HasGrid(v, a) /\ Mode(v, a.width) # "summary"
    <2>1. HasGrid(v, b) /\ a.width > 0
      BY <1>2, <1>6 DEF HasGrid
    <2>2. /\ Mode(v, b.width) # "summary"
          /\ Mode(v, a.width) = "full" => Mode(v, b.width) = "full"
          /\ Columns(v, a) <= Columns(v, b)
      BY <1>2, <1>6, <2>1, ColumnsGrow
    <2>3. KnownRows(v, a) \in Nat /\ KnownRows(v, b) \in Nat /\ KnownRows(v, a) <= KnownRows(v, b)
      <3> DEFINE one == IF v.unknown > 0 THEN 1 ELSE 0
                 n == Len(v.countries)
                 p == Smaller(DataRows, a.height) * Columns(v, a)
                 q == Smaller(DataRows, b.height) * Columns(v, b)
      <3>1. Columns(v, a) \in 1..5 /\ Columns(v, b) \in 1..5
        BY <1>2, <1>6, <2>1, <2>2, ColumnsFit DEF HasGrid, MaxColumns
      <3>2. /\ Smaller(DataRows, a.height) \in 0..3 /\ Smaller(DataRows, b.height) \in 0..3
            /\ Smaller(DataRows, a.height) <= Smaller(DataRows, b.height)
        BY <1>2 DEF Smaller, DataRows
      <3>3. p \in Nat /\ q \in Nat /\ p <= q
        <4>1. \A r, s \in 0..3, x, y \in 1..5 :
                 r <= s /\ x <= y => r * x \in Nat /\ s * y \in Nat /\ r * x <= s * y
          OBVIOUS
        <4> QED
          BY <2>2, <3>1, <3>2, <4>1
      <3>4. n \in Nat /\ one \in 0..1
        BY <1>2 DEF IsView
      <3>5. KnownRows(v, a) = Smaller(n, p - one) /\ KnownRows(v, b) = Smaller(n, q - one)
        BY <1>6, <2>2 DEF KnownRows
      <3>6. KnownRows(v, a) \in Nat /\ KnownRows(v, b) \in Nat
        <4>1. KnownRows(v, a) \in 0..Len(v.countries) /\ KnownRows(v, b) \in 0..Len(v.countries)
          BY <1>2, <1>6, <2>1, CellsFit
        <4> QED
          BY <3>4, <4>1
      <3> HIDE DEF p, q, n, one
      <3> QED
        BY <3>3, <3>4, <3>5, <3>6 DEF Smaller
    <2>4. ASSUME NEW i \in Cells(v, a)
          PROVE  \E j \in Cells(v, b) : row(i, a) = row(j, b)
      <3>1. i \in Nat /\ i <= KnownRows(v, a)
        BY <1>2, <1>6, CellsFit
      <3>2. CASE i < KnownRows(v, a)
        <4>1. i < KnownRows(v, b)
          BY <2>3, <3>1, <3>2
        <4>2. i \in Cells(v, b)
          BY <2>1, <2>3, <3>1, <4>1 DEF Cells
        <4> QED
          BY <3>2, <4>1, <4>2
      <3>3. CASE i = KnownRows(v, a)
        <4>1. v.unknown > 0
          BY <2>3, <3>3 DEF Cells
        <4>2. KnownRows(v, b) \in Cells(v, b)
          BY <2>1, <2>2, <4>1 DEF Cells
        <4>3. ~ (KnownRows(v, b) < KnownRows(v, b)) /\ ~ (i < KnownRows(v, a))
          BY <2>3, <3>3
        <4> QED
          BY <4>2, <4>3
      <3>4. i < KnownRows(v, a) \/ i = KnownRows(v, a)
        BY <2>3, <3>1
      <3> HIDE DEF row
      <3> QED
        BY <3>2, <3>3, <3>4
    <2>5. flags(a) \subseteq flags(b)
      BY <2>1, <2>2
    <2>6. \A x \in shown(a) : x \in shown(b)
      <3> HIDE DEF row, flags
      <3> QED
        BY <1>3, <2>4, <2>5
    <2> QED
      BY <1>1, <2>6
  <1> QED
    BY <1>4, <1>5, <1>6

\* More rows are more rows.
LEMMA RowsSubset ==
    ASSUME NEW m \in Nat, NEW n \in Nat, m <= n
    PROVE  Rows(m) \subseteq Rows(n)
  <1>1. 1..m \subseteq 1..n
    OBVIOUS
  <1> QED
    BY <1>1 DEF Rows

\* A line ends where its fields before end and the last one adds to it.
LEMMA LineEndsUpTo ==
    ASSUME NEW list, Len(list) \in Nat, NEW widths, NEW w, NEW k \in 1..Len(list)
    PROVE  /\ LineEnds(list, widths, w)[0] = 0
           /\ LineEnds(list, widths, w)[k] =
                 LineEnds(list, widths, w)[k - 1] + FieldTakes(list, widths, w, k)
  <1> DEFINE added(i) == FieldTakes(list, widths, w, i)
             Body(g, n) == [i \in 0..n |-> IF i = 0 THEN 0 ELSE g[i - 1] + added(i)]
             Solvable == {n \in Nat : \E g : g = Body(g, n)}
             end == CHOOSE g : g = Body(g, Len(list))
  <1>1. LineEnds(list, widths, w) = end
    BY DEF LineEnds
  <1> HIDE DEF added
  <1>3. 0 \in Solvable
    <2>1. [i \in 0..0 |-> 0] = Body([i \in 0..0 |-> 0], 0)
      OBVIOUS
    <2> QED
      BY <2>1
  <1>4. ASSUME NEW n \in Solvable
        PROVE  n + 1 \in Solvable
    <2>1. PICK g : g = Body(g, n)
      OBVIOUS
    <2> DEFINE h == [i \in 0..n + 1 |-> IF i <= n THEN g[i] ELSE g[n] + added(n + 1)]
    <2>2. \A i \in 0..n : g[i] = Body(g, n)[i]
      BY <2>1
    <2>3. ASSUME NEW i \in 0..n + 1
          PROVE  h[i] = Body(h, n + 1)[i]
      <3>1. CASE i = n + 1
        BY <3>1
      <3>2. CASE i # n + 1
        <4>1. i \in 0..n
          BY <3>2
        <4>2. h[i] = g[i] /\ (i # 0 => h[i - 1] = g[i - 1])
          BY <4>1
        <4>3. h[i] = Body(g, n)[i]
          BY <2>2, <4>1, <4>2
        <4> QED
          BY <4>1, <4>2, <4>3
      <3> QED
        BY <3>1, <3>2
    <2>4. h = Body(h, n + 1)
      BY <2>3
    <2> HIDE DEF h, Body
    <2>5. n + 1 \in Nat
      OBVIOUS
    <2> QED
      BY <2>4, <2>5
  <1>5. Solvable = Nat
    <2> HIDE DEF Solvable
    <2>1. Solvable \in SUBSET Nat
      BY DEF Solvable
    <2> QED
      BY <1>3, <1>4, <2>1, Induction
  <1>6. end = Body(end, Len(list))
    BY <1>5
  <1> HIDE DEF end
  <1>7. end[0] = 0 /\ end[k] = end[k - 1] + added(k)
    <2>1. \A i \in 0..Len(list) : end[i] = Body(end, Len(list))[i]
      BY <1>6
    <2>2. end[0] = Body(end, Len(list))[0] /\ end[k] = Body(end, Len(list))[k]
      BY <2>1
    <2> HIDE <1>6
    <2> QED
      BY <2>2
  <1>8. end[k] = LineEnds(list, widths, w)[k - 1] + added(k)
    BY <1>1, <1>7
  <1> QED
    BY <1>1, <1>7, <1>8 DEF added

\* The six fields of a line of six, as the widths of the texts.
LEMMA SixEnds ==
    ASSUME NEW list, Len(list) = 6, NEW widths, NEW w \in Nat,
           \A k \in 1..6 : FieldWidth(list[k], widths, w) \in Nat,
           \A k \in 1..6 : list[k][2] \in Nat
    PROVE  /\ LineEnds(list, widths, w)[1] =
                 IF w < list[1][2] THEN 0 ELSE FieldWidth(list[1], widths, w)
           /\ \A k \in 1..6 : LineEnds(list, widths, w)[k] \in Nat
           /\ \A k \in 2..6 :
                 LineEnds(list, widths, w)[k] =
                    LineEnds(list, widths, w)[k - 1]
                       + IF w < list[k][2] THEN 0 ELSE FieldWidth(list[k], widths, w) + 1
  <1> DEFINE end == LineEnds(list, widths, w)
             takes(k) == FieldTakes(list, widths, w, k)
             text(k) == FieldWidth(list[k], widths, w)
  <1>1. end[0] = 0 /\ \A k \in 1..6 : end[k] = end[k - 1] + takes(k)
    <2>1. Len(list) \in Nat /\ 1..Len(list) = 1..6 /\ 1 \in 1..6
      OBVIOUS
    <2>2. \A k \in 1..Len(list) : end[0] = 0 /\ end[k] = end[k - 1] + takes(k)
      BY <2>1, LineEndsUpTo
    <2> HIDE DEF end, takes
    <2> QED
      BY <2>1, <2>2
  <1>2. /\ \A k \in 1..6 : text(k) \in Nat
        /\ \A k \in 1..6 : list[k][2] \in Nat
    OBVIOUS
  <1>3. /\ takes(1) = IF w < list[1][2] THEN 0 ELSE text(1)
        /\ \A k \in 2..6 : takes(k) = IF w < list[k][2] THEN 0 ELSE text(k) + 1
    BY <1>2 DEF FieldTakes
  <1> HIDE DEF end, text, takes
  <1>4. \A k \in 1..6 : takes(k) \in Nat
    BY <1>2, <1>3
  <1>5. end[1] = takes(1) /\ end[1] \in Nat
    BY <1>1, <1>4
  <1>6. \A k \in 2..6 : end[k - 1] \in Nat => end[k] \in Nat
    BY <1>1, <1>4
  <1>7. end[2] \in Nat
    BY <1>5, <1>6
  <1>8. end[3] \in Nat
    BY <1>7, <1>6
  <1>9. end[4] \in Nat
    BY <1>8, <1>6
  <1>10. end[5] \in Nat
    BY <1>9, <1>6
  <1>11. end[6] \in Nat
    BY <1>10, <1>6
  <1>12. \A k \in 1..6 : end[k] \in Nat
    BY <1>5, <1>7, <1>8, <1>9, <1>10, <1>11
  <1>13. \A k \in 2..6 : end[k] = end[k - 1] + IF w < list[k][2] THEN 0 ELSE text(k) + 1
    <2> SUFFICES ASSUME NEW k \in 2..6
                 PROVE  end[k] = end[k - 1] + IF w < list[k][2] THEN 0 ELSE text(k) + 1
      OBVIOUS
    <2>1. end[k] = end[k - 1] + takes(k)
      BY <1>1
    <2>2. takes(k) = IF w < list[k][2] THEN 0 ELSE text(k) + 1
      BY <1>3
    <2> QED
      BY <2>1, <2>2
  <1> QED
    BY <1>3, <1>5, <1>12, <1>13 DEF end, text

\* A field that is there as a whole, with the place where it ends.
LEMMA FieldIsThere ==
    ASSUME NEW list, Len(list) = 6, NEW widths, NEW w, NEW f
    PROVE  f \in ListFields(list, widths, w)
              <=> \E k \in 1..6 : f = list[k][1] /\ w >= list[k][2] /\ LineEnds(list, widths, w)[k] <= w
  BY DEF ListFields

\* A wider line of a node list has every field it had: only its last text grows,
\* and by no more than the line (compact_list_line).
LEMMA NodeListGrows ==
    ASSUME NEW widths \in [NodeListFields -> Nat], NEW w \in Nat, NEW x \in Nat, w <= x
    PROVE  ListFields(NodeList, widths, w) \subseteq ListFields(NodeList, widths, x)
  <1> DEFINE d == LineEnds(NodeList, widths, w)
             e == LineEnds(NodeList, widths, x)
             t(k) == FieldWidth(NodeList[k], widths, w)
             u(k) == FieldWidth(NodeList[k], widths, x)
             from(k) == NodeList[k][2]
  <1>1. /\ Len(NodeList) = 6
        /\ from(1) = 0 /\ from(2) = 0 /\ from(3) = 0
        /\ from(4) = 48 /\ from(5) = 60 /\ from(6) = 76
    BY DEF NodeList
  <1>2. /\ \A k \in 1..6 : t(k) \in Nat /\ u(k) \in Nat
        /\ \A k \in 1..5 : t(k) = u(k)
        /\ u(6) <= t(6) + (x - w) \/ w < 76
    BY DEF NodeList, FieldWidth, NodeListFields, Smaller, LessNat
  <1>3. /\ \A k \in 1..6 : from(k) \in Nat
        /\ \A k \in 1..6 : d[k] \in Nat
        /\ d[1] = IF w < from(1) THEN 0 ELSE t(1)
        /\ \A k \in 2..6 : d[k] = d[k - 1] + IF w < from(k) THEN 0 ELSE t(k) + 1
    <2>1. \A k \in 1..6 : from(k) \in Nat
      BY <1>1
    <2> QED
      BY <1>1, <1>2, <2>1, SixEnds
  <1>4. /\ \A k \in 1..6 : e[k] \in Nat
        /\ e[1] = IF x < from(1) THEN 0 ELSE u(1)
        /\ \A k \in 2..6 : e[k] = e[k - 1] + IF x < from(k) THEN 0 ELSE u(k) + 1
    BY <1>1, <1>2, <1>3, SixEnds
  <1>5. \A f : /\ f \in ListFields(NodeList, widths, w)
                     <=> \E k \in 1..6 : f = NodeList[k][1] /\ w >= from(k) /\ d[k] <= w
               /\ f \in ListFields(NodeList, widths, x)
                     <=> \E k \in 1..6 : f = NodeList[k][1] /\ x >= from(k) /\ e[k] <= x
    BY <1>1, FieldIsThere
  <1> HIDE DEF d, e, t, u, from
  <1>6. /\ d[1] = t(1) /\ d[2] = d[1] + t(2) + 1 /\ d[3] = d[2] + t(3) + 1
        /\ d[4] = d[3] + IF w < 48 THEN 0 ELSE t(4) + 1
        /\ d[5] = d[4] + IF w < 60 THEN 0 ELSE t(5) + 1
        /\ d[6] = d[5] + IF w < 76 THEN 0 ELSE t(6) + 1
    BY <1>1, <1>2, <1>3
  <1>7. /\ e[1] = t(1) /\ e[2] = e[1] + t(2) + 1 /\ e[3] = e[2] + t(3) + 1
        /\ e[4] = e[3] + IF x < 48 THEN 0 ELSE t(4) + 1
        /\ e[5] = e[4] + IF x < 60 THEN 0 ELSE t(5) + 1
        /\ e[6] = e[5] + IF x < 76 THEN 0 ELSE u(6) + 1
    BY <1>1, <1>2, <1>4
  <1>8. e[1] = d[1] /\ e[2] = d[2] /\ e[3] = d[3]
    BY <1>6, <1>7
  <1>9. w >= 48 => e[4] = d[4]
    BY <1>6, <1>7, <1>8
  <1>10. w >= 60 => e[5] = d[5]
    BY <1>6, <1>7, <1>9
  <1>11. w >= 76 => e[6] <= d[6] + (x - w)
    BY <1>2, <1>3, <1>4, <1>6, <1>7, <1>10
  <1>12. ASSUME NEW k \in 1..6, w >= from(k), d[k] <= w
         PROVE  x >= from(k) /\ e[k] <= x
    <2>1. x >= from(k)
      BY <1>3, <1>12
    <2>2. CASE k \in 1..3
      BY <1>3, <1>8, <1>12, <2>2
    <2>3. CASE k = 4
      BY <1>1, <1>3, <1>9, <1>12, <2>3
    <2>4. CASE k = 5
      BY <1>1, <1>3, <1>10, <1>12, <2>4
    <2>5. CASE k = 6
      <3>1. w >= 76 /\ d[6] <= w /\ d[6] \in Nat /\ e[6] \in Nat
        BY <1>1, <1>3, <1>4, <1>12, <2>5
      <3>2. e[6] <= d[6] + (x - w)
        BY <1>11, <3>1
      <3>3. e[6] <= x
        BY <3>1, <3>2
      <3> QED
        BY <2>1, <2>5, <3>3
    <2> QED
      BY <2>1, <2>2, <2>3, <2>4, <2>5
  <1> QED
    BY <1>5, <1>12

\* A wider line of a detail list may lose the status behind a new field, and
\* nothing else (compact_list_line).
LEMMA DetailListGrows ==
    ASSUME NEW widths \in [DetailListFields -> Nat], NEW w \in Nat, NEW x \in Nat, w <= x
    PROVE  ListFields(DetailList, widths, w) \ ListFields(DetailList, widths, x)
              \subseteq (IF \E v \in {44, 62} : w < v /\ v <= x THEN {"Status"} ELSE {})
  <1> DEFINE d == LineEnds(DetailList, widths, w)
             e == LineEnds(DetailList, widths, x)
             t(k) == FieldWidth(DetailList[k], widths, w)
             u(k) == FieldWidth(DetailList[k], widths, x)
             from(k) == DetailList[k][2]
             crossed == \E v \in {44, 62} : w < v /\ v <= x
  <1>1. /\ Len(DetailList) = 6
        /\ from(1) = 0 /\ from(2) = 0 /\ from(3) = 44
        /\ from(4) = 62 /\ from(5) = 0 /\ from(6) = 78
        /\ DetailList[5][1] = "Status"
    BY DEF DetailList
  <1>2. \A k \in 1..6 : t(k) \in Nat /\ u(k) = t(k)
    BY DEF DetailList, FieldWidth, DetailListFields
  <1>3. /\ \A k \in 1..6 : from(k) \in Nat
        /\ \A k \in 1..6 : d[k] \in Nat
        /\ d[1] = IF w < from(1) THEN 0 ELSE t(1)
        /\ \A k \in 2..6 : d[k] = d[k - 1] + IF w < from(k) THEN 0 ELSE t(k) + 1
    <2>1. \A k \in 1..6 : from(k) \in Nat
      BY <1>1
    <2> QED
      BY <1>1, <1>2, <2>1, SixEnds
  <1>4. /\ \A k \in 1..6 : e[k] \in Nat
        /\ e[1] = IF x < from(1) THEN 0 ELSE u(1)
        /\ \A k \in 2..6 : e[k] = e[k - 1] + IF x < from(k) THEN 0 ELSE u(k) + 1
    <2>1. \A k \in 1..6 : u(k) \in Nat
      BY <1>2
    <2> QED
      BY <1>1, <1>3, <2>1, SixEnds
  <1>5. \A f : /\ f \in ListFields(DetailList, widths, w)
                     <=> \E k \in 1..6 : f = DetailList[k][1] /\ w >= from(k) /\ d[k] <= w
               /\ f \in ListFields(DetailList, widths, x)
                     <=> \E k \in 1..6 : f = DetailList[k][1] /\ x >= from(k) /\ e[k] <= x
    BY <1>1, FieldIsThere
  <1>6. (w < 44 /\ 44 <= x) \/ (w < 62 /\ 62 <= x) => crossed
    OBVIOUS
  <1> HIDE DEF d, e, t, u, from, crossed
  <1>7. /\ d[1] = t(1) /\ d[2] = d[1] + t(2) + 1
        /\ d[3] = d[2] + IF w < 44 THEN 0 ELSE t(3) + 1
        /\ d[4] = d[3] + IF w < 62 THEN 0 ELSE t(4) + 1
        /\ d[5] = d[4] + t(5) + 1
        /\ d[6] = d[5] + IF w < 78 THEN 0 ELSE t(6) + 1
    BY <1>1, <1>2, <1>3
  <1>8. /\ e[1] = t(1) /\ e[2] = e[1] + t(2) + 1
        /\ e[3] = e[2] + IF x < 44 THEN 0 ELSE t(3) + 1
        /\ e[4] = e[3] + IF x < 62 THEN 0 ELSE t(4) + 1
        /\ e[5] = e[4] + t(5) + 1
        /\ e[6] = e[5] + IF x < 78 THEN 0 ELSE t(6) + 1
    BY <1>1, <1>2, <1>4
  <1>9. e[1] = d[1] /\ e[2] = d[2]
    BY <1>7, <1>8
  <1>10. ~crossed => e[3] = d[3] /\ e[4] = d[4] /\ e[5] = d[5]
    BY <1>6, <1>7, <1>8, <1>9
  <1>11. w >= 44 => e[3] = d[3]
    BY <1>7, <1>8, <1>9
  <1>12. w >= 62 => e[4] = d[4] /\ e[5] = d[5]
    BY <1>7, <1>8, <1>11
  <1>13. w >= 78 => e[6] = d[6]
    BY <1>7, <1>8, <1>12
  <1>14. ASSUME NEW k \in 1..6, w >= from(k), d[k] <= w, ~crossed \/ k # 5
         PROVE  x >= from(k) /\ e[k] <= x
    <2>1. x >= from(k)
      BY <1>3, <1>14
    <2>2. e[k] = d[k]
      <3>1. CASE k \in 1..2
        BY <1>9, <3>1
      <3>2. CASE k = 3
        BY <1>1, <1>11, <1>14, <3>2
      <3>3. CASE k = 4
        BY <1>1, <1>12, <1>14, <3>3
      <3>4. CASE k = 5
        BY <1>10, <1>14, <3>4
      <3>5. CASE k = 6
        BY <1>1, <1>13, <1>14, <3>5
      <3> QED
        BY <3>1, <3>2, <3>3, <3>4, <3>5
    <2> QED
      BY <1>3, <1>14, <2>1, <2>2
  <1>15. ASSUME NEW f, f \in ListFields(DetailList, widths, w),
                f \notin ListFields(DetailList, widths, x)
         PROVE  crossed /\ f = "Status"
    BY <1>1, <1>5, <1>14, <1>15
  <1> QED
    BY <1>15 DEF crossed

\* The names of the fields of the lists.
LEMMA ListNames ==
    ASSUME NEW widths, NEW w
    PROVE  /\ ListFields(NodeList, widths, w) \subseteq NodeListFields
           /\ ListFields(DetailList, widths, w) \subseteq DetailListFields
  <1>1. Len(NodeList) = 6 /\ \A k \in 1..6 : NodeList[k][1] \in NodeListFields
    BY DEF NodeList, NodeListFields
  <1>2. Len(DetailList) = 6 /\ \A k \in 1..6 : DetailList[k][1] \in DetailListFields
    BY DEF DetailList, DetailListFields
  <1> QED
    BY <1>1, <1>2, FieldIsThere

\* A larger panel lists no fewer entries, and of their fields it loses what a
\* wider line loses; a table cuts off a row, and may cut the texts.
LEMMA EntriesGrow ==
    ASSUME NEW n \in Nat, NEW old, NEW new, Grown(old, new), Inner(old).height > 0,
           NEW list, NEW widths, NEW table, NEW tableWidth \in Nat, NEW names, NEW lost,
           ListFields(list, widths, Inner(old).width) \subseteq names,
           ListFields(list, widths, Inner(old).width) \ ListFields(list, widths, Inner(new).width)
              \subseteq lost
    PROVE  EntriesShow(n, old, list, widths, table, tableWidth)
              \ EntriesShow(n, new, list, widths, table, tableWidth)
              \subseteq (IF old.width < tableWidth /\ new.width >= tableWidth
                         THEN {<<"row", Inner(new).height>>} \cup Fields(names) ELSE Fields(lost))
  <1> DEFINE g == Inner(old).height
             h == Inner(new).height
             u == Inner(old).width
             w == Inner(new).width
             before == Fields(ListFields(list, widths, u))
             after == Fields(ListFields(list, widths, w))
  <1>1. /\ g \in Nat \ {0} /\ h \in Nat /\ u \in Nat /\ w \in Nat /\ g <= h /\ u <= w
        /\ old.width \in Nat /\ new.width \in Nat /\ old.width <= new.width
    <2>1. Grown(Inner(old), Inner(new))
      BY InnerGrows
    <2> QED
      BY <2>1 DEF Grown, Rect
  <1>2. /\ EntriesShow(n, old, list, widths, table, tableWidth) =
              IF old.width >= tableWidth THEN Rows(Smaller(n, LessNat(g, 1))) \cup TableColumns(table)
              ELSE IF u = 0 THEN {} ELSE Rows(ListRows(n, g)) \cup before
        /\ EntriesShow(n, new, list, widths, table, tableWidth) =
              IF new.width >= tableWidth THEN Rows(Smaller(n, LessNat(h, 1))) \cup TableColumns(table)
              ELSE IF w = 0 THEN {} ELSE Rows(ListRows(n, h)) \cup after
    BY DEF EntriesShow, TableRows
  <1>3. before \ after \subseteq Fields(lost) /\ before \subseteq Fields(names)
    BY DEF Fields
  <1> HIDE DEF g, h, u, w, before, after
  <1>4. CASE new.width < tableWidth
    <2>1. ListRows(n, g) \in Nat /\ ListRows(n, h) \in Nat /\ ListRows(n, g) <= ListRows(n, h)
      BY <1>1 DEF ListRows, ListMore, Smaller
    <2>2. Rows(ListRows(n, g)) \subseteq Rows(ListRows(n, h))
      BY <2>1, RowsSubset
    <2>3. ~ (old.width >= tableWidth) /\ ~ (new.width >= tableWidth) /\ (u # 0 => w # 0)
      BY <1>1, <1>4
    <2> QED
      BY <1>2, <1>3, <2>2, <2>3
  <1>5. CASE old.width >= tableWidth
    <2>1. new.width >= tableWidth /\ ~ (old.width < tableWidth)
      BY <1>1, <1>5
    <2>2. /\ Smaller(n, LessNat(g, 1)) \in Nat /\ Smaller(n, LessNat(h, 1)) \in Nat
          /\ Smaller(n, LessNat(g, 1)) <= Smaller(n, LessNat(h, 1))
      BY <1>1 DEF Smaller, LessNat
    <2>3. Rows(Smaller(n, LessNat(g, 1))) \subseteq Rows(Smaller(n, LessNat(h, 1)))
      BY <2>2, RowsSubset
    <2> QED
      BY <1>2, <1>5, <2>1, <2>3
  <1>6. CASE old.width < tableWidth /\ new.width >= tableWidth
    <2> DEFINE k == ListRows(n, g)
               m == Smaller(n, LessNat(h, 1))
    <2>1. k \in Nat /\ m \in Nat /\ (k <= m \/ (k = h /\ m = h - 1))
      BY <1>1 DEF ListRows, ListMore, Smaller, LessNat
    <2>2. Rows(k) \subseteq Rows(m) \cup {<<"row", h>>}
      <3> HIDE DEF k, m
      <3>1. 1..k \subseteq 1..m \cup {h}
        BY <1>1, <2>1
      <3> QED
        BY <3>1 DEF Rows
    <2>3. ~ (old.width >= tableWidth)
      BY <1>1, <1>6
    <2> QED
      BY <1>2, <1>3, <1>6, <2>2, <2>3 DEF h
  <1> QED
    BY <1>1, <1>4, <1>5, <1>6

\* A larger strip has no fewer rows.
LEMMA StripGrows ==
    ASSUME NEW old, NEW new, Grown(old, new)
    PROVE  /\ StripRows(old) \in Nat /\ StripRows(new) \in Nat /\ StripRows(old) <= StripRows(new)
           /\ Inner(old).width \in Nat /\ Inner(new).width \in Nat
           /\ Inner(old).width <= Inner(new).width
  BY DEF Grown, Inner, Rect, Smaller, LessNat, StripRows

\* It shows no fewer figures of the system.
LEMMA SystemGrows ==
    ASSUME NEW old, NEW new, Grown(old, new)
    PROVE  SystemShown(old) \subseteq SystemShown(new)
  <1>1. old.width \in Nat /\ new.width \in Nat /\ old.width <= new.width
    BY DEF Grown, Rect
  <1> QED
    BY <1>1, StripGrows DEF SystemShown, FullSystemWidth

\* And no fewer lines about the selected disk.
LEMMA DisksGrow ==
    ASSUME NEW c, AreWraps(c.wraps),
           NEW width \in Nat, NEW wider \in Nat, NEW low \in Nat, NEW high \in Nat,
           NEW s \in BOOLEAN, Grown(Area("disks", width, low, s), Area("disks", wider, high, s))
    PROVE  DisksShown(c, Area("disks", width, low, s)) \subseteq DisksShown(c, Area("disks", wider, high, s))
  <1> DEFINE old == Area("disks", width, low, s)
             new == Area("disks", wider, high, s)
             w == Inner(old).width
             x == Inner(new).width
             lines(v, area) == {<<SelectedDisk(c), k>> :
                                   k \in {j \in 1..3 : LastRow(c, v)[j] <= StripRows(area)}}
  <1>1. /\ DisksShown(c, old) = IF c.disks = 0 \/ w = 0 THEN {} ELSE lines(w, old)
        /\ DisksShown(c, new) = IF c.disks = 0 \/ x = 0 THEN {} ELSE lines(x, new)
    BY DisksAlone
  <1>2. /\ StripRows(old) \in Nat /\ StripRows(new) \in Nat /\ StripRows(old) <= StripRows(new)
        /\ w \in Nat /\ x \in Nat /\ w <= x
    BY StripGrows
  <1> HIDE DEF old, new, w, x
  <1>3. \A k \in 1..3 : /\ LastRow(c, w)[k] \in Nat /\ LastRow(c, x)[k] \in Nat
                        /\ LastRow(c, x)[k] <= LastRow(c, w)[k]
    BY <1>2, LastRows
  <1>4. \A k \in 1..3 : LastRow(c, w)[k] <= StripRows(old) => LastRow(c, x)[k] <= StripRows(new)
    BY <1>2, <1>3
  <1>5. lines(w, old) \subseteq lines(x, new)
    BY <1>4
  <1> QED
    BY <1>1, <1>2, <1>5 DEF old, new

-----------------------------------------------------------------------------
(* The cards.                                                              *)

\* The fields have the priorities from 1 to n, one each.
IsRanking(ranks, n) ==
    /\ \A f \in DOMAIN ranks : ranks[f] \in 1..n
    /\ \A f, g \in DOMAIN ranks : ranks[f] = ranks[g] => f = g
    /\ \A r \in 1..n : \E f \in DOMAIN ranks : ranks[f] = r

\* Headings have lower priorities than fields, and names of their own.
AreHeadings(H, ranks, n) ==
    \A l \in H : l[2] \in Nat /\ l[2] > n /\ l[1] \notin DOMAIN ranks

\* As many lines precede a field as its priority says.
LEMMA RankedCount ==
    ASSUME NEW ranks, NEW n \in Nat, IsRanking(ranks, n), NEW H, AreHeadings(H, ranks, n),
           NEW r \in 1..n
    PROVE  Cardinality({j \in Priorities(ranks) \cup H : j[2] < r}) = r - 1
  <1> DEFINE before == {j \in Priorities(ranks) \cup H : j[2] < r}
             pick == [i \in 1..r - 1 |-> <<CHOOSE f \in DOMAIN ranks : ranks[f] = i, i>>]
  <1>1. \A i \in 1..r - 1 : \E f \in DOMAIN ranks : ranks[f] = i
    BY DEF IsRanking
  <1>2. \A j \in before : \E f \in DOMAIN ranks : j = <<f, ranks[f]>> /\ ranks[f] \in 1..r - 1
    <2> SUFFICES ASSUME NEW j \in before
                 PROVE  \E f \in DOMAIN ranks : j = <<f, ranks[f]>> /\ ranks[f] \in 1..r - 1
      OBVIOUS
    <2>1. j \notin H
      BY DEF AreHeadings
    <2>2. PICK f \in DOMAIN ranks : j = <<f, ranks[f]>>
      BY <2>1 DEF Priorities
    <2>3. ranks[f] \in 1..n /\ ranks[f] < r
      BY <2>2 DEF IsRanking
    <2> QED
      BY <2>2, <2>3
  <1>3. pick \in Bijection(1..r - 1, before)
    <2>1. \A i \in 1..r - 1 : pick[i] \in before
      <3> SUFFICES ASSUME NEW i \in 1..r - 1 PROVE pick[i] \in before
        OBVIOUS
      <3> DEFINE f == CHOOSE x \in DOMAIN ranks : ranks[x] = i
      <3>1. f \in DOMAIN ranks /\ ranks[f] = i
        BY <1>1
      <3>2. pick[i] = <<f, i>>
        OBVIOUS
      <3> HIDE DEF f, pick
      <3>3. <<f, i>> \in Priorities(ranks)
        BY <3>1 DEF Priorities
      <3>4. <<f, i>>[2] = i /\ i < r
        OBVIOUS
      <3> QED
        BY <3>2, <3>3, <3>4
    <2>2. \A i, k \in 1..r - 1 : pick[i] = pick[k] => i = k
      OBVIOUS
    <2>3. \A j \in before : \E i \in 1..r - 1 : pick[i] = j
      <3> SUFFICES ASSUME NEW j \in before PROVE \E i \in 1..r - 1 : pick[i] = j
        OBVIOUS
      <3>1. PICK f \in DOMAIN ranks : j = <<f, ranks[f]>> /\ ranks[f] \in 1..r - 1
        BY <1>2
      <3> DEFINE g == CHOOSE x \in DOMAIN ranks : ranks[x] = ranks[f]
      <3>2. g \in DOMAIN ranks /\ ranks[g] = ranks[f]
        BY <3>1
      <3>3. g = f
        BY <3>2 DEF IsRanking
      <3>4. pick[ranks[f]] = <<g, ranks[f]>>
        BY <3>1
      <3> QED
        BY <3>1, <3>3, <3>4
    <2> HIDE DEF pick, before
    <2>4. pick \in [1..r - 1 -> before]
      BY <2>1 DEF pick
    <2> QED
      BY <2>2, <2>3, <2>4 DEF Bijection, Injection, Surjection, IsInjective
  <1> HIDE DEF before, pick
  <1>4. IsFiniteSet(1..r - 1) /\ Cardinality(1..r - 1) = r - 1
    <2>1. 1 \in Int /\ r - 1 \in Int /\ r - 1 >= 0
      OBVIOUS
    <2>2. /\ IsFiniteSet(1..r - 1)
          /\ Cardinality(1..r - 1) = IF 1 > r - 1 THEN 0 ELSE (r - 1) - 1 + 1
      BY <2>1, FS_Interval
    <2> QED
      BY <2>1, <2>2
  <1>5. ExistsBijection(1..r - 1, before)
    BY <1>3 DEF ExistsBijection
  <1>6. Cardinality(before) = Cardinality(1..r - 1)
    BY <1>4, <1>5, FS_Bijection
  <1> QED
    BY <1>4, <1>6 DEF before

\* A field is selected if its priority is among the rows; what is neither a field
\* nor a heading is not.
LEMMA SelectRanked ==
    ASSUME NEW ranks, NEW n \in Nat, IsRanking(ranks, n), NEW H, AreHeadings(H, ranks, n),
           NEW rows \in Nat, NEW f, \A l \in H : l[1] # f
    PROVE  f \in Select(Priorities(ranks) \cup H, rows) <=> f \in DOMAIN ranks /\ ranks[f] <= rows
  <1> DEFINE L == Priorities(ranks) \cup H
             before(k) == {j \in L : j[2] < k[2]}
  <1>1. Select(L, rows) = {l[1] : l \in {k \in L : Cardinality(before(k)) < rows}}
    BY DEF Select
  <1>2. \A k \in L : k[1] = f => f \in DOMAIN ranks /\ k = <<f, ranks[f]>>
    BY DEF Priorities
  <1>3. CASE f \notin DOMAIN ranks
    BY <1>1, <1>2, <1>3
  <1>4. CASE f \in DOMAIN ranks
    <2> DEFINE line == <<f, ranks[f]>>
    <2>1. line \in L /\ line[1] = f /\ line[2] = ranks[f] /\ ranks[f] \in 1..n
      BY <1>4 DEF Priorities, IsRanking
    <2>2. before(line) = {j \in L : j[2] < ranks[f]}
      BY <2>1
    <2>3. Cardinality({j \in L : j[2] < ranks[f]}) = ranks[f] - 1
      BY <2>1, RankedCount
    <2>4. Cardinality(before(line)) = ranks[f] - 1
      BY <2>2, <2>3
    <2>5. Cardinality(before(line)) < rows <=> ranks[f] <= rows
      BY <2>1, <2>4
    <2>6. f \in Select(L, rows) <=> Cardinality(before(line)) < rows
      <3> HIDE DEF before, L
      <3> QED
        BY <1>1, <1>2, <2>1
    <2> QED
      BY <1>4, <2>5, <2>6
  <1> QED
    BY <1>3, <1>4

\* A column of a card, with or without its heading.
LEMMA ColumnShows ==
    ASSUME NEW ranks, NEW n \in 1..8, IsRanking(ranks, n), "heading" \notin DOMAIN ranks,
           NEW head \in {{}, {<<"heading", 9>>}}, NEW rows \in Nat, NEW f, f # "heading"
    PROVE  f \in Select(Priorities(ranks) \cup head, rows) <=> f \in DOMAIN ranks /\ ranks[f] <= rows
  <1>1. AreHeadings(head, ranks, n) /\ \A l \in head : l[1] # f
    BY DEF AreHeadings
  <1> QED
    BY <1>1, SelectRanked

\* The lines name the fields.
LEMMA LineNames ==
    ASSUME NEW ranks
    PROVE  {l[1] : l \in Priorities(ranks)} = DOMAIN ranks
  <1>1. \A f \in DOMAIN ranks : <<f, ranks[f]>> \in Priorities(ranks) /\ <<f, ranks[f]>>[1] = f
    BY DEF Priorities
  <1>2. \A l \in Priorities(ranks) : l[1] \in DOMAIN ranks
    BY DEF Priorities
  <1>3. ASSUME NEW f \in DOMAIN ranks
        PROVE  f \in {l[1] : l \in Priorities(ranks)}
    BY <1>1
  <1> QED
    BY <1>2, <1>3

\* The fields of a node's card, and their priorities: in one column, in two, and
\* in three.
NodeFields == {"Name", "Role", "Block", "Epoch", "Committed", "QC", "View", "Host", "Locked"}
NodeOne == [Name |-> 1, Role |-> 2, Block |-> 3, Epoch |-> 4, Committed |-> 5,
            QC |-> 6, View |-> 7, Host |-> 8, Locked |-> 9]
NodeTwo == [Name |-> 1, Role |-> 2, Host |-> 3, Block |-> 1, Epoch |-> 2, View |-> 3, QC |-> 4,
            Locked |-> 5, Committed |-> 6]
NodeThree == [Name |-> 1, Role |-> 2, Host |-> 3, Block |-> 1, Epoch |-> 2, View |-> 3,
              Committed |-> 1, QC |-> 2, Locked |-> 3]

\* The ranking of a node's fields in an area.
NodeRanking(area) ==
    IF area.width < CompactWidth \/ (Inner(area).width < StackedWidth /\ Inner(area).height < StackedHeight)
    THEN IF Inner(area).width >= TwoColumnWidth /\ Inner(area).height >= 4 THEN NodeTwo ELSE NodeOne
    ELSE IF Inner(area).width < StackedWidth THEN NodeOne ELSE NodeThree

\* One column shows the fields of the first priorities.
LEMMA NodeOneShows ==
    ASSUME NEW rows \in Nat, NEW H \in {{}, NodeHeadings}, NEW f \in NodeFields
    PROVE  f \in Select(NodeLines \cup H, rows) <=> NodeOne[f] <= rows
  <1>1. NodeLines = Priorities(NodeOne) /\ DOMAIN NodeOne = NodeFields
    BY DEF NodeLines, NodeOne, NodeFields
  <1>2. IsRanking(NodeOne, 9)
    BY DEF IsRanking, NodeOne
  <1>3. AreHeadings(H, NodeOne, 9) /\ \A l \in H : l[1] # f
    BY <1>1 DEF AreHeadings, NodeHeadings, NodeFields
  <1> QED
    BY <1>1, <1>2, <1>3, SelectRanked

\* Two columns show the fields of the first priorities of each.
LEMMA NodeTwoShows ==
    ASSUME NEW rows \in Nat, NEW f \in NodeFields
    PROVE  f \in UNION {Select(NodeCompactColumns[i], rows) : i \in DOMAIN NodeCompactColumns}
              <=> NodeTwo[f] <= rows
  <1> DEFINE a == [Name |-> 1, Role |-> 2, Host |-> 3]
             b == [Block |-> 1, Epoch |-> 2, View |-> 3, QC |-> 4, Locked |-> 5, Committed |-> 6]
  <1>1. /\ DOMAIN NodeCompactColumns = {1, 2}
        /\ NodeCompactColumns[1] = Priorities(a) /\ NodeCompactColumns[2] = Priorities(b)
    BY DEF NodeCompactColumns, NodeColumns
  <1>2. IsRanking(a, 3) /\ IsRanking(b, 6)
    BY DEF IsRanking
  <1>3. "heading" \notin DOMAIN a /\ "heading" \notin DOMAIN b /\ f # "heading"
    BY DEF NodeFields
  <1>4. NodeTwo[f] <= rows <=> (f \in DOMAIN a /\ a[f] <= rows) \/ (f \in DOMAIN b /\ b[f] <= rows)
    BY DEF NodeFields, NodeTwo
  <1> HIDE DEF a, b
  <1>5. 3 \in 1..8 /\ 6 \in 1..8 /\ {} \in {{}, {<<"heading", 9>>}}
    OBVIOUS
  <1>6. f \in Select(Priorities(a) \cup {}, rows) <=> f \in DOMAIN a /\ a[f] <= rows
    BY <1>2, <1>3, <1>5, ColumnShows
  <1>7. f \in Select(Priorities(b) \cup {}, rows) <=> f \in DOMAIN b /\ b[f] <= rows
    BY <1>2, <1>3, <1>5, ColumnShows
  <1>8. Priorities(a) \cup {} = Priorities(a) /\ Priorities(b) \cup {} = Priorities(b)
    OBVIOUS
  <1> QED
    BY <1>1, <1>4, <1>6, <1>7, <1>8

\* Three columns, with or without headings, likewise.
LEMMA NodeThreeShows ==
    ASSUME NEW rows \in Nat, NEW head \in {{}, {<<"heading", 9>>}}, NEW f \in NodeFields
    PROVE  f \in UNION {Select(NodeColumns[i] \cup head, rows) : i \in DOMAIN NodeColumns}
              <=> NodeThree[f] <= rows
  <1> DEFINE a == [Name |-> 1, Role |-> 2, Host |-> 3]
             b == [Block |-> 1, Epoch |-> 2, View |-> 3]
             c == [Committed |-> 1, QC |-> 2, Locked |-> 3]
  <1>1. /\ DOMAIN NodeColumns = {1, 2, 3}
        /\ NodeColumns[1] = Priorities(a) /\ NodeColumns[2] = Priorities(b)
        /\ NodeColumns[3] = Priorities(c)
    BY DEF NodeColumns
  <1>2. IsRanking(a, 3) /\ IsRanking(b, 3) /\ IsRanking(c, 3)
    BY DEF IsRanking
  <1>3. "heading" \notin DOMAIN a \cup DOMAIN b \cup DOMAIN c /\ f # "heading"
    BY DEF NodeFields
  <1>4. NodeThree[f] <= rows <=> \/ f \in DOMAIN a /\ a[f] <= rows
                                 \/ f \in DOMAIN b /\ b[f] <= rows
                                 \/ f \in DOMAIN c /\ c[f] <= rows
    BY DEF NodeFields, NodeThree
  <1> HIDE DEF a, b, c
  <1>5. 3 \in 1..8
    OBVIOUS
  <1>6. f \in Select(Priorities(a) \cup head, rows) <=> f \in DOMAIN a /\ a[f] <= rows
    BY <1>2, <1>3, <1>5, ColumnShows
  <1>7. f \in Select(Priorities(b) \cup head, rows) <=> f \in DOMAIN b /\ b[f] <= rows
    BY <1>2, <1>3, <1>5, ColumnShows
  <1>8. f \in Select(Priorities(c) \cup head, rows) <=> f \in DOMAIN c /\ c[f] <= rows
    BY <1>2, <1>3, <1>5, ColumnShows
  <1> QED
    BY <1>1, <1>4, <1>6, <1>7, <1>8

\* The card of one node shows the fields whose priority is among its rows.
LEMMA NodeCardShows ==
    ASSUME NEW area \in Rect, Inner(area).width > 0, Inner(area).height > 0, NEW f \in NodeFields
    PROVE  f \in CardShows(NodeCard, area) <=> NodeRanking(area)[f] <= Inner(area).height
  <1> DEFINE inner == Inner(area)
             head == ColumnHeading(inner, NodeCard)
             H == IF inner.height >= 6 THEN NodeHeadings ELSE {}
  <1>1. inner.width \in Nat /\ inner.height \in Nat /\ inner.width # 0 /\ inner.height # 0
    BY InnerType DEF Rect
  <1>2. f \in {l[1] : l \in NodeLines}
    <2>1. NodeLines = Priorities(NodeOne) /\ DOMAIN NodeOne = NodeFields
      BY DEF NodeLines, NodeOne, NodeFields
    <2> QED
      BY <2>1, LineNames
  <1>3. /\ NodeCard.lines = NodeLines /\ NodeCard.headings = NodeHeadings
        /\ NodeCard.columns = NodeColumns /\ NodeCard.compact = NodeCompactColumns
        /\ NodeCard.twoColumnHeight = 4 /\ NodeCard.headingHeight = 6
    BY DEF NodeCard
  <1>4. head \in {{}, {<<"heading", 9>>}} /\ H \in {{}, NodeHeadings}
    BY DEF ColumnHeading
  <1>5. StackedCard(NodeCard, inner) = Select(NodeLines \cup H, inner.height)
    BY <1>3 DEF StackedCard
  <1>6. /\ f \in StackedCard(NodeCard, inner) <=> NodeOne[f] <= inner.height
        /\ f \in Select(NodeLines, inner.height) <=> NodeOne[f] <= inner.height
    <2>1. f \in Select(NodeLines \cup H, inner.height) <=> NodeOne[f] <= inner.height
      BY <1>1, <1>4, NodeOneShows
    <2>2. f \in Select(NodeLines \cup {}, inner.height) <=> NodeOne[f] <= inner.height
      BY <1>1, NodeOneShows
    <2>3. NodeLines \cup {} = NodeLines
      OBVIOUS
    <2> QED
      BY <1>5, <2>1, <2>2, <2>3
  <1>7. f \in ColumnsCard(NodeCard, inner) <=> NodeThree[f] <= inner.height
    <2>1. ColumnsCard(NodeCard, inner)
             = UNION {Select(NodeColumns[i] \cup head, inner.height) : i \in DOMAIN NodeColumns}
      BY <1>3 DEF ColumnsCard, head
    <2> QED
      BY <1>1, <1>4, <2>1, NodeThreeShows
  <1>8. f \in CompactCard(NodeCard, inner) <=>
           IF inner.width >= TwoColumnWidth /\ inner.height >= 4
           THEN NodeTwo[f] <= inner.height ELSE NodeOne[f] <= inner.height
    BY <1>1, <1>3, <1>6, NodeTwoShows DEF CompactCard
  <1>9. ~Stacks(inner) <=> inner.height < StackedHeight
    BY <1>1 DEF Stacks, StackedHeight
  <1> HIDE DEF inner, head, H
  <1> QED
    BY <1>1, <1>2, <1>3, <1>6, <1>7, <1>8, <1>9 DEF CardShows, NodeRanking, inner

\* It shows nothing else, and nothing at all without room.
LEMMA NodeCardFields ==
    ASSUME NEW area
    PROVE  CardShows(NodeCard, area) \subseteq NodeFields
  <1>1. {l[1] : l \in NodeCard.lines} = NodeFields
    <2>1. NodeCard.lines = Priorities(NodeOne) /\ DOMAIN NodeOne = NodeFields
      BY DEF NodeCard, NodeLines, NodeOne, NodeFields
    <2> QED
      BY <2>1, LineNames
  <1> QED
    BY <1>1 DEF CardShows

\* A larger card of a node may lose the committed block only, where it gets two
\* columns of five rows (render_single_node).
LEMMA NodeCardGrows ==
    ASSUME NEW old, NEW new, Grown(old, new)
    PROVE  CardShows(NodeCard, old) \ CardShows(NodeCard, new) \subseteq
              IF Inner(old).width < TwoColumnWidth /\ Inner(new).width >= TwoColumnWidth
                    /\ Inner(new).height = 5
              THEN {"Committed"} ELSE {}
  <1> SUFFICES ASSUME NEW f \in CardShows(NodeCard, old), f \notin CardShows(NodeCard, new)
               PROVE  f = "Committed" /\ Inner(old).width < TwoColumnWidth
                         /\ Inner(new).width >= TwoColumnWidth /\ Inner(new).height = 5
    OBVIOUS
  <1>1. f \in NodeFields
    BY NodeCardFields
  <1>2. Grown(Inner(old), Inner(new)) /\ old \in Rect /\ new \in Rect
    BY InnerGrows DEF Grown
  <1>3. /\ Inner(old).width \in Nat /\ Inner(old).height \in Nat
        /\ Inner(new).width \in Nat /\ Inner(new).height \in Nat
        /\ Inner(old).width <= Inner(new).width /\ Inner(old).height <= Inner(new).height
        /\ old.width \in Nat /\ new.width \in Nat /\ old.width <= new.width
        /\ Inner(old).width = LessNat(old.width, 2) /\ Inner(new).width = LessNat(new.width, 2)
    BY <1>2 DEF Grown, Rect, Inner
  <1>4. Inner(old).width > 0 /\ Inner(old).height > 0
    BY <1>3 DEF CardShows
  <1>5. Inner(new).width > 0 /\ Inner(new).height > 0
    BY <1>3, <1>4
  <1>6. NodeRanking(old)[f] <= Inner(old).height
    BY <1>1, <1>2, <1>4, NodeCardShows
  <1>7. ~(NodeRanking(new)[f] <= Inner(new).height)
    BY <1>1, <1>2, <1>5, NodeCardShows
  <1>8. /\ NodeOne[f] \in 1..9 /\ NodeTwo[f] \in 1..6 /\ NodeThree[f] \in 1..3
        /\ NodeThree[f] <= NodeTwo[f] /\ NodeThree[f] <= NodeOne[f]
        /\ NodeTwo[f] > NodeOne[f] => f = "Committed" /\ NodeOne[f] = 5 /\ NodeTwo[f] = 6
    BY <1>1 DEF NodeFields, NodeOne, NodeTwo, NodeThree
  <1> DEFINE w == Inner(old).width
             h == Inner(old).height
             x == Inner(new).width
             k == Inner(new).height
             one == NodeOne[f]
             two == NodeTwo[f]
             three == NodeThree[f]
  <1>9. /\ NodeRanking(old)[f] = IF old.width < 110 \/ (w < 150 /\ h < 9)
                                 THEN IF w >= 72 /\ h >= 4 THEN two ELSE one
                                 ELSE IF w < 150 THEN one ELSE three
        /\ NodeRanking(new)[f] = IF new.width < 110 \/ (x < 150 /\ k < 9)
                                 THEN IF x >= 72 /\ k >= 4 THEN two ELSE one
                                 ELSE IF x < 150 THEN one ELSE three
    BY DEF NodeRanking, CompactWidth, StackedWidth, StackedHeight, TwoColumnWidth
  <1> HIDE DEF w, h, x, k, one, two, three
  <1> QED
    BY <1>3, <1>6, <1>7, <1>8, <1>9 DEF w, h, x, k, one, two, three, TwoColumnWidth, LessNat

\* The fields of a validator's card, and their priorities in one column and in two.
DetailFields == {"Name", "Rank", "Blocks", "Rate", "Day", "Verifier", "Ratio", "System", "Rewards",
                 "Address", "Updated"}
DetailOne == [Name |-> 1, Rank |-> 2, Blocks |-> 3, Rate |-> 4, Day |-> 5, Verifier |-> 6,
              Ratio |-> 7, System |-> 8, Rewards |-> 9, Address |-> 10, Updated |-> 11]
DetailTwo == [Name |-> 1, Rank |-> 2, Blocks |-> 3, Rate |-> 4, Day |-> 5, Verifier |-> 1,
              Ratio |-> 2, System |-> 3, Rewards |-> 4, Address |-> 5, Updated |-> 6]

\* The ranking of a validator's fields in an area.
DetailRanking(area) ==
    IF area.width < CompactWidth \/ (Inner(area).width < StackedWidth /\ Inner(area).height < StackedHeight)
    THEN IF Inner(area).width >= TwoColumnWidth /\ Inner(area).height >= 3
         THEN DetailTwo ELSE DetailOne
    ELSE IF Inner(area).width < StackedWidth THEN DetailOne ELSE DetailTwo

\* One column shows the fields of the first priorities.
LEMMA DetailOneShows ==
    ASSUME NEW rows \in Nat, NEW H \in {{}, DetailHeadings}, NEW f \in DetailFields
    PROVE  f \in Select(DetailLines \cup H, rows) <=> DetailOne[f] <= rows
  <1>1. DetailLines = Priorities(DetailOne) /\ DOMAIN DetailOne = DetailFields
    BY DEF DetailLines, DetailOne, DetailFields
  <1>2. IsRanking(DetailOne, 11)
    BY DEF IsRanking, DetailOne
  <1>3. AreHeadings(H, DetailOne, 11) /\ \A l \in H : l[1] # f
    BY <1>1 DEF AreHeadings, DetailHeadings, DetailFields
  <1> QED
    BY <1>1, <1>2, <1>3, SelectRanked

\* Two columns, with or without headings, show the fields of the first priorities
\* of each.
LEMMA DetailTwoShows ==
    ASSUME NEW rows \in Nat, NEW head \in {{}, {<<"heading", 9>>}}, NEW f \in DetailFields
    PROVE  f \in UNION {Select(DetailColumns[i] \cup head, rows) : i \in DOMAIN DetailColumns}
              <=> DetailTwo[f] <= rows
  <1> DEFINE a == [Name |-> 1, Rank |-> 2, Blocks |-> 3, Rate |-> 4, Day |-> 5]
             b == [Verifier |-> 1, Ratio |-> 2, System |-> 3, Rewards |-> 4, Address |-> 5,
                   Updated |-> 6]
  <1>1. /\ DOMAIN DetailColumns = {1, 2}
        /\ DetailColumns[1] = Priorities(a) /\ DetailColumns[2] = Priorities(b)
    BY DEF DetailColumns
  <1>2. IsRanking(a, 5) /\ IsRanking(b, 6)
    BY DEF IsRanking
  <1>3. "heading" \notin DOMAIN a /\ "heading" \notin DOMAIN b /\ f # "heading"
    BY DEF DetailFields
  <1>4. DetailTwo[f] <= rows <=> (f \in DOMAIN a /\ a[f] <= rows) \/ (f \in DOMAIN b /\ b[f] <= rows)
    BY DEF DetailFields, DetailTwo
  <1> HIDE DEF a, b
  <1>5. 5 \in 1..8 /\ 6 \in 1..8
    OBVIOUS
  <1>6. f \in Select(Priorities(a) \cup head, rows) <=> f \in DOMAIN a /\ a[f] <= rows
    BY <1>2, <1>3, <1>5, ColumnShows
  <1>7. f \in Select(Priorities(b) \cup head, rows) <=> f \in DOMAIN b /\ b[f] <= rows
    BY <1>2, <1>3, <1>5, ColumnShows
  <1> QED
    BY <1>1, <1>4, <1>6, <1>7

\* The card of one validator shows the fields whose priority is among its rows.
LEMMA DetailCardShows ==
    ASSUME NEW area \in Rect, Inner(area).width > 0, Inner(area).height > 0, NEW f \in DetailFields
    PROVE  f \in CardShows(DetailCard, area) <=> DetailRanking(area)[f] <= Inner(area).height
  <1> DEFINE inner == Inner(area)
             head == ColumnHeading(inner, DetailCard)
             H == IF inner.height >= 5 THEN DetailHeadings ELSE {}
  <1>1. inner.width \in Nat /\ inner.height \in Nat /\ inner.width # 0 /\ inner.height # 0
    BY InnerType DEF Rect
  <1>2. f \in {l[1] : l \in DetailLines}
    <2>1. DetailLines = Priorities(DetailOne) /\ DOMAIN DetailOne = DetailFields
      BY DEF DetailLines, DetailOne, DetailFields
    <2> QED
      BY <2>1, LineNames
  <1>3. /\ DetailCard.lines = DetailLines /\ DetailCard.headings = DetailHeadings
        /\ DetailCard.columns = DetailColumns /\ DetailCard.compact = DetailColumns
        /\ DetailCard.twoColumnHeight = 3 /\ DetailCard.headingHeight = 5
    BY DEF DetailCard, DetailCompactColumns
  <1>4. head \in {{}, {<<"heading", 9>>}} /\ H \in {{}, DetailHeadings} /\ {} \in {{}, {<<"heading", 9>>}}
    BY DEF ColumnHeading
  <1>5. StackedCard(DetailCard, inner) = Select(DetailLines \cup H, inner.height)
    BY <1>3 DEF StackedCard
  <1>6. /\ f \in StackedCard(DetailCard, inner) <=> DetailOne[f] <= inner.height
        /\ f \in Select(DetailLines, inner.height) <=> DetailOne[f] <= inner.height
    <2>1. f \in Select(DetailLines \cup H, inner.height) <=> DetailOne[f] <= inner.height
      BY <1>1, <1>4, DetailOneShows
    <2>2. f \in Select(DetailLines \cup {}, inner.height) <=> DetailOne[f] <= inner.height
      BY <1>1, DetailOneShows
    <2>3. DetailLines \cup {} = DetailLines
      OBVIOUS
    <2> QED
      BY <1>5, <2>1, <2>2, <2>3
  <1>7. f \in ColumnsCard(DetailCard, inner) <=> DetailTwo[f] <= inner.height
    <2>1. ColumnsCard(DetailCard, inner)
             = UNION {Select(DetailColumns[i] \cup head, inner.height) : i \in DOMAIN DetailColumns}
      BY <1>3 DEF ColumnsCard, head
    <2> QED
      BY <1>1, <1>4, <2>1, DetailTwoShows
  <1>8. f \in CompactCard(DetailCard, inner) <=>
           IF inner.width >= TwoColumnWidth /\ inner.height >= 3
           THEN DetailTwo[f] <= inner.height ELSE DetailOne[f] <= inner.height
    <2>1. UNION {Select(DetailColumns[i], inner.height) : i \in DOMAIN DetailColumns}
             = UNION {Select(DetailColumns[i] \cup {}, inner.height) : i \in DOMAIN DetailColumns}
      <3>1. \A i \in DOMAIN DetailColumns : DetailColumns[i] \cup {} = DetailColumns[i]
        OBVIOUS
      <3> QED
        BY <3>1
    <2>2. f \in UNION {Select(DetailColumns[i], inner.height) : i \in DOMAIN DetailColumns}
             <=> DetailTwo[f] <= inner.height
      BY <1>1, <1>4, <2>1, DetailTwoShows
    <2> QED
      BY <1>3, <1>6, <2>2 DEF CompactCard
  <1>9. ~Stacks(inner) <=> inner.height < StackedHeight
    BY <1>1 DEF Stacks, StackedHeight
  <1> HIDE DEF inner, head, H
  <1> QED
    BY <1>1, <1>2, <1>3, <1>6, <1>7, <1>8, <1>9 DEF CardShows, DetailRanking, inner

\* It shows nothing else, and nothing at all without room.
LEMMA DetailCardFields ==
    ASSUME NEW area
    PROVE  CardShows(DetailCard, area) \subseteq DetailFields
  <1>1. {l[1] : l \in DetailCard.lines} = DetailFields
    <2>1. DetailCard.lines = Priorities(DetailOne) /\ DOMAIN DetailOne = DetailFields
      BY DEF DetailCard, DetailLines, DetailOne, DetailFields
    <2> QED
      BY <2>1, LineNames
  <1> QED
    BY <1>1 DEF CardShows

\* A larger card of a validator may lose its address and the time of its update
\* only, where it is stacked in nine or ten rows (render_node_details).
LEMMA DetailCardGrows ==
    ASSUME NEW old, NEW new, Grown(old, new)
    PROVE  CardShows(DetailCard, old) \ CardShows(DetailCard, new) \subseteq
              IF new.width >= CompactWidth /\ Inner(new).width < StackedWidth
                    /\ Inner(new).height \in 9..10
              THEN {"Address", "Updated"} ELSE {}
  <1> SUFFICES ASSUME NEW f \in CardShows(DetailCard, old), f \notin CardShows(DetailCard, new)
               PROVE  f \in {"Address", "Updated"} /\ new.width >= CompactWidth
                         /\ Inner(new).width < StackedWidth /\ Inner(new).height \in 9..10
    OBVIOUS
  <1>1. f \in DetailFields
    BY DetailCardFields
  <1>2. Grown(Inner(old), Inner(new)) /\ old \in Rect /\ new \in Rect
    BY InnerGrows DEF Grown
  <1>3. /\ Inner(old).width \in Nat /\ Inner(old).height \in Nat
        /\ Inner(new).width \in Nat /\ Inner(new).height \in Nat
        /\ Inner(old).width <= Inner(new).width /\ Inner(old).height <= Inner(new).height
        /\ old.width \in Nat /\ new.width \in Nat /\ old.width <= new.width
        /\ Inner(old).width = LessNat(old.width, 2) /\ Inner(new).width = LessNat(new.width, 2)
    BY <1>2 DEF Grown, Rect, Inner
  <1>4. Inner(old).width > 0 /\ Inner(old).height > 0
    BY <1>3 DEF CardShows
  <1>5. Inner(new).width > 0 /\ Inner(new).height > 0
    BY <1>3, <1>4
  <1>6. DetailRanking(old)[f] <= Inner(old).height
    BY <1>1, <1>2, <1>4, DetailCardShows
  <1>7. ~(DetailRanking(new)[f] <= Inner(new).height)
    BY <1>1, <1>2, <1>5, DetailCardShows
  <1>8. /\ DetailOne[f] \in 1..11 /\ DetailTwo[f] \in 1..6 /\ DetailTwo[f] <= DetailOne[f]
        /\ DetailOne[f] > 9 => f \in {"Address", "Updated"}
    BY <1>1 DEF DetailFields, DetailOne, DetailTwo
  <1> DEFINE w == Inner(old).width
             h == Inner(old).height
             x == Inner(new).width
             k == Inner(new).height
             one == DetailOne[f]
             two == DetailTwo[f]
  <1>9. /\ DetailRanking(old)[f] = IF old.width < 110 \/ (w < 150 /\ h < 9)
                                   THEN IF w >= 72 /\ h >= 3 THEN two ELSE one
                                   ELSE IF w < 150 THEN one ELSE two
        /\ DetailRanking(new)[f] = IF new.width < 110 \/ (x < 150 /\ k < 9)
                                   THEN IF x >= 72 /\ k >= 3 THEN two ELSE one
                                   ELSE IF x < 150 THEN one ELSE two
    BY DEF DetailRanking, CompactWidth, StackedWidth, StackedHeight, TwoColumnWidth
  <1> HIDE DEF w, h, x, k, one, two
  <1> QED
    BY <1>3, <1>6, <1>7, <1>8, <1>9
    DEF w, h, x, k, one, two, CompactWidth, StackedWidth, LessNat

-----------------------------------------------------------------------------
\* A larger panel shows no less, but for what is conceded.
LEMMA PanelsGrow ==
    ASSUME NEW c, IsView(c.peers), IsChart(c.chart),
           c.nodes \in Nat, c.details \in Nat, c.disks \in Nat, AreWraps(c.wraps),
           c.nodeWidths \in [NodeListFields -> Nat], c.detailWidths \in [DetailListFields -> Nat],
           NEW width \in Nat, NEW wider \in Nat, NEW low \in Nat, NEW high \in Nat,
           NEW s \in BOOLEAN, width <= wider, low <= high,
           NEW p \in Drawn(width, low, s)
    PROVE  Shows(p, c, Area(p, width, low, s)) \ Shows(p, c, Area(p, wider, high, s))
              \subseteq Conceded(p, c, Area(p, width, low, s), Area(p, wider, high, s))
  <1> DEFINE old == Area(p, width, low, s)
             new == Area(p, wider, high, s)
  <1>1. p \in Names /\ old.height >= 3
    BY DEF Drawn, MinPanelHeight
  <1>2. /\ p \notin {"time", "txs"} => Grown(old, new)
        /\ old.width <= new.width
        /\ old.height <= new.height \/ new.height >= 10
    BY <1>1, AreasGrow
  <1>3. /\ old \in Rect /\ new \in Rect /\ Inner(old).height \in Nat /\ Inner(old).height > 0
        /\ Inner(new).height \in Nat
    <2>1. old \in Rect /\ new \in Rect
      BY <1>1, AreaType
    <2> HIDE DEF old, new
    <2> QED
      BY <1>1, <2>1 DEF Inner, Rect, LessNat
  <1>4. p = "disks" => DisksShown(c, old) \subseteq DisksShown(c, new)
    BY <1>1, <1>2, DisksGrow
  <1> HIDE DEF old, new
  <1> SUFFICES Shows(p, c, old) \ Shows(p, c, new) \subseteq Conceded(p, c, old, new)
    BY DEF old, new
  <1>5. p \notin {"time", "txs"} =>
            Inner(old).width \in Nat /\ Inner(new).width \in Nat
               /\ Inner(old).width <= Inner(new).width
    BY <1>2, StripGrows
  <1>6. CASE p = "system"
    <2>1. Shows(p, c, old) = SystemShown(old) /\ Shows(p, c, new) = SystemShown(new)
      BY <1>6 DEF Shows
    <2>2. SystemShown(old) \subseteq SystemShown(new)
      BY <1>2, <1>6, SystemGrows
    <2> QED
      BY <2>1, <2>2
  <1>7. CASE p = "disks"
    <2>1. Shows(p, c, old) = DisksShown(c, old) /\ Shows(p, c, new) = DisksShown(c, new)
      BY <1>7 DEF Shows
    <2> QED
      BY <1>4, <1>7, <2>1
  <1>8. CASE p = "countries"
    <2>1. Shows(p, c, old) = CountriesShown(c, old) /\ Shows(p, c, new) = CountriesShown(c, new)
      BY <1>8 DEF Shows
    <2>2. CountriesShown(c, old) \subseteq CountriesShown(c, new)
      BY <1>2, <1>8, CountriesGrow
    <2> QED
      BY <2>1, <2>2
  <1>9. CASE p \in {"time", "txs"}
    <2>1. /\ Shows(p, c, old) = MetricsShown(p, c.chart, old)
          /\ Shows(p, c, new) = MetricsShown(p, c.chart, new)
      BY <1>9 DEF Shows
    <2>2. CASE old.width < NarrowWidth \/ ~AllMetricsFit(p, c.chart, old)
      <3>1. Conceded(p, c, old, new) = 1..4
        BY <1>9, <2>2 DEF Conceded
      <3>2. MetricsShown(p, c.chart, old) \subseteq 1..4
        BY <1>3, MetricsAreFour
      <3> QED
        BY <2>1, <3>1, <3>2
    <2>3. CASE old.width >= NarrowWidth /\ AllMetricsFit(p, c.chart, old)
      <3>1. MetricsShown(p, c.chart, old) \subseteq MetricsShown(p, c.chart, new)
        BY <1>2, <1>3, <2>3, MetricsGrow
      <3> QED
        BY <2>1, <3>1
    <2>4. old.width \in Nat /\ NarrowWidth \in Nat
      BY <1>3 DEF Rect, NarrowWidth
    <2> QED
      BY <2>2, <2>3, <2>4
  <1>10. CASE p = "node"
    <2>1. Shows(p, c, old) = NodesShown(c, old) /\ Shows(p, c, new) = NodesShown(c, new)
      BY <1>10 DEF Shows
    <2>2. CASE c.nodes = 0
      BY <2>1, <2>2 DEF NodesShown
    <2>3. CASE c.nodes = 1
      <3>1. /\ NodesShown(c, old) = CardShows(NodeCard, old)
            /\ NodesShown(c, new) = CardShows(NodeCard, new)
        BY <2>3 DEF NodesShown
      <3>2. Conceded(p, c, old, new)
               = IF Inner(old).width < TwoColumnWidth /\ Inner(new).width >= TwoColumnWidth
                       /\ Inner(new).height = 5
                 THEN {"Committed"} ELSE {}
        BY <1>10, <2>3 DEF Conceded
      <3> QED
        BY <1>2, <1>10, <2>1, <3>1, <3>2, NodeCardGrows
    <2>4. CASE c.nodes > 1
      <3> DEFINE show(area) == EntriesShow(c.nodes, area, NodeList, c.nodeWidths, NodeTable,
                                           NodeTableWidth)
      <3>1. NodesShown(c, old) = show(old) /\ NodesShown(c, new) = show(new)
        BY <2>4 DEF NodesShown
      <3>2. Conceded(p, c, old, new)
               = IF old.width < NodeTableWidth /\ new.width >= NodeTableWidth
                 THEN {<<"row", Inner(new).height>>} \cup Fields(NodeListFields) ELSE {}
        BY <1>10, <2>4 DEF Conceded
      <3>3. ListFields(NodeList, c.nodeWidths, Inner(old).width)
               \ ListFields(NodeList, c.nodeWidths, Inner(new).width) \subseteq {}
        BY <1>5, <1>10, NodeListGrows
      <3>4. NodeTableWidth \in Nat /\ Fields({}) = {}
        BY DEF NodeTableWidth, Fields
      <3>5. show(old) \ show(new)
               \subseteq (IF old.width < NodeTableWidth /\ new.width >= NodeTableWidth
                          THEN {<<"row", Inner(new).height>>} \cup Fields(NodeListFields)
                          ELSE Fields({}))
        BY <1>2, <1>3, <1>10, <3>3, <3>4, ListNames, EntriesGrow
      <3> QED
        BY <2>1, <3>1, <3>2, <3>4, <3>5
    <2> QED
      BY <2>2, <2>3, <2>4
  <1>11. CASE p = "details"
    <2>1. Shows(p, c, old) = DetailsShown(c, old) /\ Shows(p, c, new) = DetailsShown(c, new)
      BY <1>11 DEF Shows
    <2>2. CASE c.details = 0
      BY <2>1, <2>2 DEF DetailsShown
    <2>3. CASE c.details = 1
      <3>1. /\ DetailsShown(c, old) = CardShows(DetailCard, old)
            /\ DetailsShown(c, new) = CardShows(DetailCard, new)
        BY <2>3 DEF DetailsShown
      <3>2. Conceded(p, c, old, new)
               = IF new.width >= CompactWidth /\ Inner(new).width < StackedWidth
                       /\ Inner(new).height \in 9..10
                 THEN {"Address", "Updated"} ELSE {}
        BY <1>11, <2>3 DEF Conceded
      <3> QED
        BY <1>2, <1>11, <2>1, <3>1, <3>2, DetailCardGrows
    <2>4. CASE c.details > 1
      <3> DEFINE show(area) == EntriesShow(c.details, area, DetailList, c.detailWidths, DetailTable,
                                           DetailTableWidth)
                 crossed == \E w \in {44, 62} : Inner(old).width < w /\ w <= Inner(new).width
                 lost == IF crossed THEN {"Status"} ELSE {}
      <3>1. DetailsShown(c, old) = show(old) /\ DetailsShown(c, new) = show(new)
        BY <2>4 DEF DetailsShown
      <3>2. Conceded(p, c, old, new)
               = IF old.width < DetailTableWidth /\ new.width >= DetailTableWidth
                 THEN {<<"row", Inner(new).height>>} \cup Fields(DetailListFields)
                 ELSE IF crossed THEN Fields({"Status"}) ELSE {}
        BY <1>11, <2>4 DEF Conceded
      <3>3. ListFields(DetailList, c.detailWidths, Inner(old).width)
               \ ListFields(DetailList, c.detailWidths, Inner(new).width) \subseteq lost
        BY <1>5, <1>11, DetailListGrows
      <3>4. DetailTableWidth \in Nat /\ Fields({}) = {}
        BY DEF DetailTableWidth, Fields
      <3> HIDE DEF lost
      <3>5. show(old) \ show(new)
               \subseteq (IF old.width < DetailTableWidth /\ new.width >= DetailTableWidth
                          THEN {<<"row", Inner(new).height>>} \cup Fields(DetailListFields)
                          ELSE Fields(lost))
        BY <1>2, <1>3, <1>11, <3>3, <3>4, ListNames, EntriesGrow
      <3>6. Fields(lost) = IF crossed THEN Fields({"Status"}) ELSE {}
        BY <3>4 DEF lost
      <3> QED
        BY <2>1, <3>1, <3>2, <3>5, <3>6
    <2> QED
      BY <2>2, <2>3, <2>4
  <1>12. p \in {"system", "disks", "countries", "time", "txs", "node", "details"}
    BY <1>1 DEF Names
  <1> QED
    BY <1>6, <1>7, <1>8, <1>9, <1>10, <1>11, <1>12

\* For any terminal and any content: a terminal that becomes larger draws every
\* panel it drew and shows in it what it showed, but for the conceded cases
\* (draw_widgets, content_row_heights, and the widgets' choices of layout).
THEOREM GrowingShowsMore == Spec => GrowingHidesNothing
  <1> DEFINE Step == height' >= height /\ column' >= column /\ status' = status /\ content' = content
                     => LET before == Shown(Width, height, status, content)
                            after == Shown(Widths[column'], height', status, content)
                        IN \A p \in DOMAIN before :
                              /\ p \in DOMAIN after
                              /\ before[p] \ after[p] \subseteq
                                    Conceded(p, content, AreaNow(p),
                                             Area(p, Widths[column'], height', status))
  <1>1. ASSUME PanelsInv, PanelsInv',
               height' >= height, column' >= column, status' = status, content' = content,
               NEW p \in Drawn(Width, height, status)
        PROVE  /\ p \in Drawn(Widths[column'], height', status)
               /\ Shows(p, content, Area(p, Width, height, status))
                     \ Shows(p, content, Area(p, Widths[column'], height', status))
                     \subseteq Conceded(p, content, Area(p, Width, height, status),
                                        Area(p, Widths[column'], height', status))
    <2>1. /\ Width \in Nat /\ height \in Nat /\ status \in BOOLEAN
          /\ IsView(content.peers) /\ IsChart(content.chart)
          /\ content.nodes \in Nat /\ content.details \in Nat /\ content.disks \in Nat
          /\ content.nodeWidths \in [NodeListFields -> Nat]
          /\ content.detailWidths \in [DetailListFields -> Nat]
          /\ AreWraps(content.wraps)
      BY <1>1, SizeShape, ContentShape
    <2>2. /\ column \in DOMAIN Widths /\ column' \in DOMAIN Widths /\ height' \in Nat
      BY <1>1, SizesAssumption DEF PanelsInv
    <2>3. Widths[column'] \in Nat /\ Width <= Widths[column']
      <3>1. /\ Widths \in Seq(Nat) /\ DOMAIN Widths = 1..Len(Widths) /\ Len(Widths) \in Nat
            /\ \A i, j \in DOMAIN Widths : i < j => Widths[i] < Widths[j]
        BY SizesAssumption
      <3>2. CASE column' = column
        BY <2>1, <2>2, <3>1, <3>2 DEF Width
      <3>3. CASE column < column'
        BY <2>1, <2>2, <3>1, <3>3 DEF Width
      <3> QED
        BY <1>1, <2>2, <3>1, <3>2, <3>3
    <2>4. Drawn(Width, height, status) \subseteq Drawn(Widths[column'], height', status)
      BY <1>1, <2>1, <2>2, <2>3, GrowingDrawsAll
    <2> QED
      BY <1>1, <2>1, <2>2, <2>3, <2>4, PanelsGrow
  <1>2. ASSUME PanelsInv, PanelsInv'
        PROVE  Step
    BY <1>1, <1>2 DEF Shown, AreaNow
  <1>3. PanelsInv /\ PanelsInv' => [Step]_vars
    BY <1>2
  <1>4. [][Step]_vars => GrowingHidesNothing
    BY DEF GrowingHidesNothing
  <1> HIDE DEF Step
  <1> QED
    BY <1>3, <1>4, PanelsInvAlways, PTL
=============================================================================
