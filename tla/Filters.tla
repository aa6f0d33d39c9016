------------------------------- MODULE Filters -------------------------------
(***************************************************************************)
(* The elements of a sequence that lie in a set, in their order: what      *)
(* filter_map leaves of the points of a chart (widgets/chart.rs), and a    *)
(* selection of disks in the order of the whole list.                      *)
(***************************************************************************)
EXTENDS Integers, Sequences

Filtered(s, S) ==
    LET upTo[i \in 0..Len(s)] ==
            IF i = 0 THEN <<>>
            ELSE IF s[i] \in S THEN Append(upTo[i - 1], s[i]) ELSE upTo[i - 1]
    IN upTo[Len(s)]
=============================================================================
