---------------------------- MODULE MCUiRefresh ----------------------------
(* Instances of UiRefresh for TLC: which collectors run and which messages *)
(* they report.                                                            *)
EXTENDS UiRefresh, TLC

CONSTANTS empty, full

MCContents == {empty, full}
MCManyDisks == {full}
MCGeoWarning == [level |-> "Warn", text |-> "geo"]
MCMessages == {MCGeoWarning, [level |-> "Error", text |-> "rpc"]}
MCOneMessage == {MCGeoWarning}
MCSystemAndDetails == {"system", "node_details"}
MCSystem == {"system"}
=============================================================================
