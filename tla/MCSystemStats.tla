--------------------------- MODULE MCSystemStats ----------------------------
(* An instance of SystemStats for TLC: two mount points, one of them named, *)
(* and an interface that can leave.                                         *)
EXTENDS SystemStats

CONSTANTS root, data

MCMounts == <<root, data>>
MCManual == {data}
MCWaits == 0..2
=============================================================================
