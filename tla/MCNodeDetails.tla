--------------------------- MODULE MCNodeDetails ----------------------------
(* An instance of NodeDetails for TLC: two nodes of the same name, months of *)
(* two days, and a history that just reaches back over one of them.         *)
EXTENDS NodeDetails, TLC

MCNodes == {1, 2}
MCNameOf == 1 :> "same" @@ 2 :> "same"
MCQuantities == 1..3
\* The count of the first node falls once; the second one is listed for a day.
MCAnswers ==
    1 :> (1 :> {1} @@ 2 :> {1} @@ 3 :> {2} @@ 4 :> {1} @@ 5 :> {3}) @@
    2 :> (1 :> {} @@ 2 :> {} @@ 3 :> {3} @@ 4 :> {} @@ 5 :> {})
MCFirstDays == {3, 5}
MCRankings == {1}
=============================================================================
