------------------------------ MODULE InfoCards ------------------------------
(***************************************************************************)
(* The two bottom panels (widgets/node.rs, widgets/node_detail.rs): a card *)
(* for one entry, a list or a table for several, and what each shows in an *)
(* area of a given size.  A line is its field and its priority; a heading  *)
(* or spacer is a line without a field of the card.                        *)
(***************************************************************************)
EXTENDS DashboardLayout, FiniteSets, Sequences

Priorities(ranks) == {<<f, ranks[f]>> : f \in DOMAIN ranks}

\* select_prioritized_lines (no two lines that matter have one priority).
Select(lines, rows) ==
    {l[1] : l \in {k \in lines : Cardinality({j \in lines : j[2] < k[2]}) < rows}}

NodeLines == Priorities([Name |-> 1, Role |-> 2, Block |-> 3, Epoch |-> 4, Committed |-> 5,
                         QC |-> 6, View |-> 7, Host |-> 8, Locked |-> 9])

NodeHeadings == {<<"heading1", 20>>, <<"heading2", 21>>, <<"heading3", 22>>,
                 <<"spacer1", 30>>, <<"spacer2", 31>>}

NodeColumns == <<Priorities([Name |-> 1, Role |-> 2, Host |-> 3]),
                 Priorities([Block |-> 1, Epoch |-> 2, View |-> 3]),
                 Priorities([Committed |-> 1, QC |-> 2, Locked |-> 3])>>

NodeCompactColumns == <<NodeColumns[1],
                        Priorities([Block |-> 1, Epoch |-> 2, View |-> 3, QC |-> 4, Locked |-> 5,
                                    Committed |-> 6])>>

NodeCard == [lines |-> NodeLines, headings |-> NodeHeadings, columns |-> NodeColumns,
             compact |-> NodeCompactColumns, twoColumnHeight |-> 4, headingHeight |-> 6]

DetailLines == Priorities([Name |-> 1, Rank |-> 2, Blocks |-> 3, Rate |-> 4, Day |-> 5,
                           Verifier |-> 6, Ratio |-> 7, System |-> 8, Rewards |-> 9,
                           Address |-> 10, Updated |-> 11])

DetailHeadings == {<<"heading1", 20>>, <<"heading2", 21>>, <<"spacer1", 30>>}

DetailColumns == <<Priorities([Name |-> 1, Rank |-> 2, Blocks |-> 3, Rate |-> 4, Day |-> 5]),
                   Priorities([Verifier |-> 1, Ratio |-> 2, System |-> 3, Rewards |-> 4,
                               Address |-> 5, Updated |-> 6])>>

DetailCompactColumns == DetailColumns

DetailCard == [lines |-> DetailLines, headings |-> DetailHeadings, columns |-> DetailColumns,
               compact |-> DetailCompactColumns, twoColumnHeight |-> 3, headingHeight |-> 5]

\* COMPACT_LAYOUT_WIDTH is of the panel, the others are of its inner area.
CompactWidth == 110
StackedWidth == 150
StackedHeight == 9
TwoColumnWidth == 72

ColumnHeading(inner, card) ==
    IF inner.height >= card.headingHeight THEN {<<"heading", 9>>} ELSE {}

CompactCard(card, inner) ==
    IF inner.width >= TwoColumnWidth /\ inner.height >= card.twoColumnHeight
    THEN UNION {Select(card.compact[i], inner.height) : i \in DOMAIN card.compact}
    ELSE Select(card.lines, inner.height)

StackedCard(card, inner) ==
    Select(card.lines \cup
              (IF inner.height >= card.headingHeight THEN card.headings ELSE {}),
           inner.height)

ColumnsCard(card, inner) ==
    UNION {Select(card.columns[i] \cup ColumnHeading(inner, card), inner.height) :
              i \in DOMAIN card.columns}

\* Mutant: the stacked card is chosen where it is too low.
StacksEarly(inner) == inner.height >= 6

Stacks(inner) == inner.height >= StackedHeight

\* render_single_node and render_node_details.
CardShows(card, area) ==
    LET inner == Inner(area)
        lines == IF area.width < CompactWidth \/ (inner.width < StackedWidth /\ ~Stacks(inner))
                 THEN CompactCard(card, inner)
                 ELSE IF inner.width < StackedWidth THEN StackedCard(card, inner)
                 ELSE ColumnsCard(card, inner)
    IN IF inner.width = 0 \/ inner.height = 0 THEN {}
       ELSE lines \cap {l[1] : l \in card.lines}

-----------------------------------------------------------------------------
(* Several entries.                                                        *)

\* A row of a list is one line: its fields in order, a space apart.  A field is
\* its name, the inner width from which on it is there, and by how much its text
\* is kept shorter than that width (none: 0).
NodeList == <<<<"Name", 0, 0>>, <<"Role", 0, 0>>, <<"Block", 0, 0>>,
              <<"Epoch", 48, 0>>, <<"View", 60, 0>>, <<"Host", 76, 38>>>>
DetailList == <<<<"Name", 0, 0>>, <<"Rank", 0, 0>>, <<"Blocks", 44, 0>>,
                <<"Rate", 62, 0>>, <<"Status", 0, 0>>, <<"Updated", 78, 0>>>>

NodeTable == {"Name", "Host", "Block", "Epoch", "View", "QC", "Locked", "Committed", "Role"}
DetailTable == {"Name", "Rank", "Blocks", "Rate", "Day", "Ratio", "Status", "Updated", "Address"}

NodeTableWidth == 129
DetailTableWidth == 98

\* compact_list_lines: the last line counts the entries that are not listed.
ListMore(n, rows) == rows > 1 /\ n > rows

ListRows(n, rows) == Smaller(n, IF ListMore(n, rows) THEN rows - 1 ELSE rows)

CountedEntries(n, rows) == IF ListMore(n, rows) THEN n - (rows - 1) ELSE 0

FieldWidth(field, widths, w) ==
    IF field[3] = 0 THEN widths[field[1]] ELSE Smaller(widths[field[1]], LessNat(w, field[3]))

\* What the k-th field adds to the line, with the space before it.
FieldTakes(list, widths, w, k) ==
    IF w < list[k][2] THEN 0 ELSE FieldWidth(list[k], widths, w) + (IF k = 1 THEN 0 ELSE 1)

\* Where the first k fields end in a line of width w.
LineEnds(list, widths, w) ==
    LET end[k \in 0..Len(list)] ==
            IF k = 0 THEN 0 ELSE end[k - 1] + FieldTakes(list, widths, w, k)
    IN end

\* The line is cut at the right edge: the fields that are there as a whole.
ListFields(list, widths, w) ==
    {list[k][1] : k \in {j \in 1..Len(list) : w >= list[j][2] /\ LineEnds(list, widths, w)[j] <= w}}

\* A table has a header; the rows below its area are cut off.
TableRows(n, inner) == Smaller(n, LessNat(inner.height, 1))

Rows(n) == {<<"row", i>> : i \in 1..n}
Fields(names) == {<<f, 0>> : f \in names}
TableColumns(names) == {<<f, 1>> : f \in names}

\* The rows of a list or a table, the fields of one row of the list, and the
\* columns of the table.
EntriesShow(n, area, list, widths, table, tableWidth) ==
    LET inner == Inner(area)
    IN IF area.width >= tableWidth
       THEN Rows(TableRows(n, inner)) \cup TableColumns(table)
       ELSE IF inner.width = 0 THEN {}
       ELSE Rows(ListRows(n, inner.height)) \cup Fields(ListFields(list, widths, inner.width))
=============================================================================
