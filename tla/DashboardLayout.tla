--------------------------- MODULE DashboardLayout ---------------------------
(***************************************************************************)
(* Where the panels of the dashboard are drawn (draw.rs).  Positions and   *)
(* sizes are in cells of the terminal, from its upper left corner.         *)
(***************************************************************************)
EXTENDS Integers

Smaller(a, b) == IF a < b THEN a ELSE b
Larger(a, b) == IF a < b THEN b ELSE a
LessNat(a, b) == IF a < b THEN 0 ELSE a - b

Rect == [x : Nat, y : Nat, width : Nat, height : Nat]

Within(r, s) ==
    /\ s.x <= r.x /\ r.x + r.width <= s.x + s.width
    /\ s.y <= r.y /\ r.y + r.height <= s.y + s.height

Apart(r, s) ==
    \/ r.x + r.width <= s.x \/ s.x + s.width <= r.x
    \/ r.y + r.height <= s.y \/ s.y + s.height <= r.y

\* The area within a panel's border.
Inner(r) == [x |-> r.x + Smaller(1, r.width), y |-> r.y + Smaller(1, r.height),
             width |-> LessNat(r.width, 2), height |-> LessNat(r.height, 2)]

-----------------------------------------------------------------------------
StatusHeight == 3
AuxiliaryHeight == 6
MinPanelHeight == 3

\* The status bar's Length(3) yields to the dashboard's Min(1).
MainHeight(height, status) ==
    IF status THEN Larger(Smaller(1, height), LessNat(height, StatusHeight)) ELSE height

AuxiliaryRow(total) == Smaller(AuxiliaryHeight, total)

\* content_row_heights.
BottomHeight(total) ==
    LET remaining == total - AuxiliaryRow(total)
        preferred == IF remaining >= 28 THEN (2 * remaining) \div 5
                     ELSE IF remaining >= 22 THEN 10 ELSE 8
    IN IF remaining <= 16 THEN remaining \div 2 ELSE Larger(8, Smaller(preferred, remaining - 8))

ChartHeight(total) == LessNat(total, AuxiliaryRow(total) + BottomHeight(total))

Names == {"system", "disks", "countries", "time", "txs", "node", "details"}

RowOf == [p \in Names |->
            CASE p \in {"system", "disks", "countries"} -> "auxiliary"
              [] p \in {"time", "txs"} -> "charts"
              [] OTHER -> "bottom"]

\* The columns, in quarters of the width.
FirstQuarter == [p \in Names |->
    CASE p \in {"system", "time", "node"} -> 0 [] p = "countries" -> 3 [] OTHER -> 2]
Quarters == [p \in Names |-> IF p \in {"disks", "countries"} THEN 1 ELSE 2]

\* draw_widgets; a width that four divides is split exactly.
Area(p, width, height, status) ==
    LET total == MainHeight(height, status)
        first == height - total
    IN [x |-> FirstQuarter[p] * (width \div 4),
        width |-> Quarters[p] * (width \div 4),
        y |-> CASE RowOf[p] = "auxiliary" -> first
                [] RowOf[p] = "charts" -> first + AuxiliaryRow(total)
                [] OTHER -> first + AuxiliaryRow(total) + ChartHeight(total),
        height |-> CASE RowOf[p] = "auxiliary" -> AuxiliaryRow(total)
                     [] RowOf[p] = "charts" -> ChartHeight(total)
                     [] OTHER -> BottomHeight(total)]

\* A row that is too low is left empty.
Drawn(width, height, status) ==
    {p \in Names : Area(p, width, height, status).height >= MinPanelHeight}

\* Every drawn panel lies within the screen and apart from the others.
AreasApart(width, height, status) ==
    \A p \in Drawn(width, height, status) :
        /\ Within(Area(p, width, height, status),
                  [x |-> 0, y |-> 0, width |-> width, height |-> height])
        /\ \A q \in Drawn(width, height, status) \ {p} :
              Apart(Area(p, width, height, status), Area(q, width, height, status))
=============================================================================
