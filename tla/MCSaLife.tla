----------------------------- MODULE MCSaLife ------------------------------
(* Instances of SaLife for TLC: two SAs, two indices, two requests.        *)
EXTENDS SaLife

=============================================================================
