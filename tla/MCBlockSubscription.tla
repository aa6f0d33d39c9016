------------------------ MODULE MCBlockSubscription -------------------------
(* An instance of BlockSubscription for TLC: two endpoints, charts of three *)
(* points, integers up to 7 and times that repeat, fall and leap, so that   *)
(* two intervals in a row may saturate.                                     *)
EXTENDS BlockSubscription, TLC

Block(number, time, txs) == [number |-> number, time |-> time, txs |-> txs]
MCBlocks ==
    {Block(1, 0, 2), Block(1, 1, 0), Block(1, 1, 2), Block(2, 3, 2), Block(2, 5, 3)}
MCAxisSteps == <<<<2, 1>>, <<4, 3>>>>

\* A significand of two bits: five and seven lie between two floats and go to
\* the even one.
MCFloat == [n \in 0..7 |-> CASE n = 5 -> 4 [] n = 7 -> 8 [] OTHER -> n]
=============================================================================
