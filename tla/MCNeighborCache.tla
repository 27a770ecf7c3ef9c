-------------------------- MODULE MCNeighborCache --------------------------
(* Instances of NeighborCache for TLC: one neighbor with two link-layer    *)
(* addresses, or two routers of two preferences.                           *)
EXTENDS NeighborCache

=============================================================================
