------------------------------- MODULE MCDad -------------------------------
(* Instances of Dad for TLC: one interface with two or three of a          *)
(* link-local address ll, an address ga that userland or a router          *)
(* advertisement configures, another one xa (anycast in a run), and a home *)
(* address hm.                                                             *)
EXTENDS Dad

CONSTANT ifn

MCIfOf == [a \in Ifa |-> ifn]

=============================================================================
