---------------------------- MODULE CountriesPanel ----------------------------
(***************************************************************************)
(* The Peer Countries panel (widgets/countries.rs): a grid of cells, each  *)
(* a country code and its count, with its flag if there is room, and a     *)
(* line that sums up.  The view v holds the counts, largest first, the     *)
(* peers of unknown country, whether it was read at all, and whether the   *)
(* terminal shows flags.                                                   *)
(***************************************************************************)
EXTENDS DashboardLayout, Sequences

ColumnGap == 2
MaxColumns == 5
DataRows == 3           \* a fourth row is the summary line

\* Of a count below 10,000: the peers of a node are no more.
Digits(n) == IF n < 10 THEN 1 ELSE IF n < 100 THEN 2 ELSE IF n < 1000 THEN 3 ELSE 4

Peers(v) ==
    LET upTo[i \in 0..Len(v.countries)] ==
            IF i = 0 THEN v.unknown ELSE upTo[i - 1] + v.countries[i]
    IN upTo[Len(v.countries)]

\* "US [12]"; a flag is two cells wide and followed by a space.
CellWidth(mode, n) ==
    CASE mode = "full" -> 8 + Digits(n) [] mode = "code" -> 5 + Digits(n) [] OTHER -> 0

\* The count of most digits: all codes are equally wide.
Widest(v) == IF v.countries = <<>> THEN v.unknown ELSE Larger(v.countries[1], v.unknown)

Mode(v, width) ==
    IF v.flags /\ width >= CellWidth("full", Widest(v)) THEN "full"
    ELSE IF width >= CellWidth("code", Widest(v)) THEN "code" ELSE "summary"

ColumnWidth(v, area) == CellWidth(Mode(v, area.width), Widest(v))

\* Mutant: the gap is forgotten.
ColumnsTight(v, area) ==
    IF ColumnWidth(v, area) = 0 THEN 1
    ELSE Larger(1, Smaller(MaxColumns, area.width \div ColumnWidth(v, area)))

Columns(v, area) ==
    IF ColumnWidth(v, area) = 0 THEN 1
    ELSE Larger(1, Smaller(MaxColumns, (area.width + ColumnGap) \div (ColumnWidth(v, area) + ColumnGap)))

\* Mutant: no room is kept for the peers of unknown country.
KnownRowsAll(v, area) ==
    IF Mode(v, area.width) = "summary" THEN 0
    ELSE Smaller(Len(v.countries), Smaller(DataRows, area.height) * Columns(v, area))

KnownRows(v, area) ==
    IF Mode(v, area.width) = "summary" THEN 0
    ELSE Smaller(Len(v.countries),
                 Smaller(DataRows, area.height) * Columns(v, area) - (IF v.unknown > 0 THEN 1 ELSE 0))

Cell(v, area, i) ==
    LET x == area.x + (i % Columns(v, area)) * (ColumnWidth(v, area) + ColumnGap)
    IN [x |-> x, y |-> area.y + i \div Columns(v, area),
        width |-> Smaller(area.x + area.width - x, ColumnWidth(v, area)), height |-> 1]

HasGrid(v, area) == v.loaded /\ Peers(v) > 0 /\ area.width > 0 /\ area.height > 0

\* The cells handed out, by index from 0; the last may be that of the unknown.
Cells(v, area) ==
    IF ~HasGrid(v, area) THEN {}
    ELSE 0 .. KnownRows(v, area) - 1
             \cup IF v.unknown > 0 /\ Mode(v, area.width) # "summary"
                  THEN {KnownRows(v, area)} ELSE {}

CountAt(v, area, i) == IF i < KnownRows(v, area) THEN v.countries[i + 1] ELSE v.unknown

\* A row that is wider than its cell is not painted.
PaintedCells(v, area) ==
    {i \in Cells(v, area) :
        CellWidth(Mode(v, area.width), CountAt(v, area, i)) <= Cell(v, area, i).width}

HiddenCountries(v, area) == Len(v.countries) - KnownRows(v, area)

\* "+3 countries · 40 peers", or "+3c · 40p".
SummaryWidths(v, area) ==
    LET hidden == HiddenCountries(v, area)
        n == IF hidden > 0 THEN hidden ELSE Len(v.countries)
        figures == Smaller(1, hidden) + Digits(n) + Digits(Peers(v))
    IN [full |-> figures + (IF n = 1 THEN 8 ELSE 10) + 3 + (IF Peers(v) = 1 THEN 5 ELSE 6),
        compact |-> figures + 5]

SummaryPainted(v, area) ==
    v.loaded /\ area.height > DataRows /\ SummaryWidths(v, area).compact <= area.width
=============================================================================
