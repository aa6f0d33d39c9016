------------------------------ MODULE MCPanels ------------------------------
(* An instance of Panels for TLC: the widths lie on both sides of every     *)
(* threshold, the contents are one entry, several, many, and none.          *)
EXTENDS Panels

MCWidths == <<16, 28, 36, 44, 48, 60, 80, 100, 148, 156, 180, 192, 196, 216, 220, 256, 260, 264,
              268, 288, 300, 304, 400>>

Chart(figure, digits, label, top, points) ==
    [figure |-> figure, digits |-> digits, label |-> label, top |-> top, points |-> points]
Peers4(countries, unknown, flags) ==
    [loaded |-> TRUE, flags |-> flags, unknown |-> unknown, countries |-> countries]

NodeTexts(name, role, block, epoch, view, host) ==
    [Name |-> name, Role |-> role, Block |-> block, Epoch |-> epoch, View |-> view, Host |-> host]
DetailTexts(name, rank, blocks, rate, state, updated) ==
    [Name |-> name, Rank |-> rank, Blocks |-> blocks, Rate |-> rate, Status |-> state,
     Updated |-> updated]
Short == <<<<14, 8, 5>>, <<28, 16, 11>>, <<20, 12, 8>>>>
Long == <<<<60, 34, 24>>, <<36, 20, 13>>, <<22, 13, 9>>>>

\* In the second content the status ends at column 37 of a row, and at 50 once the
\* blocks are there; the third one has room for all, and for a long host in part.
MCContents == {
    [nodes |-> 1, details |-> 1, disks |-> 1, disk |-> 0, wraps |-> Short,
     nodeWidths |-> NodeTexts(6, 9, 8, 3, 3, 14), detailWidths |-> DetailTexts(6, 3, 8, 6, 2, 3),
     peers |-> Peers4(<<7, 3>>, 1, TRUE), chart |-> Chart(4, 9, 3, 10, <<0, 3, 10, 1>>)],
    [nodes |-> 5, details |-> 3, disks |-> 8, disk |-> 6, wraps |-> Long,
     nodeWidths |-> NodeTexts(22, 9, 12, 7, 3, 50), detailWidths |-> DetailTexts(27, 3, 12, 6, 5, 3),
     peers |-> Peers4(<<120, 40, 12, 9, 8, 7, 6, 5, 4, 3, 2, 2, 1, 1, 1, 1>>, 25, FALSE),
     chart |-> Chart(5, 8, 5, 200, <<120, 1, 0, 0, 200, 7, 7, 80, 81, 9>>)],
    [nodes |-> 14, details |-> 12, disks |-> 2, disk |-> 1, wraps |-> Short,
     nodeWidths |-> NodeTexts(6, 9, 8, 3, 3, 60), detailWidths |-> DetailTexts(6, 3, 8, 6, 2, 3),
     peers |-> Peers4(<<12, 9, 1, 1, 1>>, 0, TRUE), chart |-> Chart(3, 1, 2, 10, <<0>>)],
    [nodes |-> 0, details |-> 0, disks |-> 0, disk |-> 0, wraps |-> Short,
     nodeWidths |-> NodeTexts(1, 1, 1, 1, 1, 1), detailWidths |-> DetailTexts(1, 1, 1, 1, 1, 1),
     peers |-> [Peers4(<<>>, 0, FALSE) EXCEPT !.loaded = FALSE], chart |-> Chart(1, 1, 4, 1000, <<0>>)]}
=============================================================================
