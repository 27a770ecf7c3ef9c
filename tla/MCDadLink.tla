----------------------------- MODULE MCDadLink -----------------------------
(* Instances of DadLink for TLC: two nodes, n1 and n2.                     *)
EXTENDS DadLink, TLC

MCIfOf == [a \in Ifa |-> a]

MCSymmetry == Permutations(Ifa)

=============================================================================
