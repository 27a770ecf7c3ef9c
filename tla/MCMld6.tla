------------------------------- MODULE MCMld6 ------------------------------
(* Two hosts on a link, one of each variant.                               *)
EXTENDS Mld6

CONSTANTS h1, h2

=============================================================================
