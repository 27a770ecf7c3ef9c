------------------------------ MODULE MCFrag6 ------------------------------
(* An instance of Frag6 for TLC: a packet of three units, and one of two   *)
(* units whose unfragmentable part makes it one unit too long.             *)
EXTENDS Frag6, TLC

CONSTANTS k1, k2

MCTotal == (k1 :> 3) @@ (k2 :> 2)
MCUnfrg == (k1 :> 0) @@ (k2 :> 2)
MCEcn == (k1 :> {"notect", "ect", "ce"}) @@ (k2 :> {"ect"})
MCPacketLimit == {-1, 0, 1}
MCFragLimit == {-1, 2}

=============================================================================
