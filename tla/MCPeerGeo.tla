------------------------------ MODULE MCPeerGeo ------------------------------
(* Instances of PeerGeo for TLC.  Slots are interchangeable.               *)
EXTENDS PeerGeo, TLC

CONSTANTS public, private, cc, node1, node2, s1, s2

MCPublicOnly == {public}
MCBothIps == {public, private}
MCCountries == {cc}
MCOneUrl == {node1}
MCTwoUrls == {node1, node2}
MCOneSlot == {s1}
MCTwoSlots == {s1, s2}
MCClients == Slots \cup {Poll, Ui}
MCSqlite == {"sqlite"}
MCEitherStore == {"sqlite", "null"}

SlotSymmetry == Permutations(Slots)
=============================================================================
