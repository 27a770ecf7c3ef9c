---------------------------- MODULE MCPrefixList ----------------------------
(* An instance of PrefixList for TLC. *)
EXTENDS PrefixList
CONSTANTS p1, p2, r1, r2

MCEntry == {p1, p2}
\* one prefix on two interfaces, a router on each
MCPrefixOf == [e \in MCEntry |-> "p"]
MCAdvertises == [r \in {r1, r2} |-> IF r = r1 THEN {p1} ELSE {p2}]
\* every combination but those without effect on a new prefix, and those
\* that differ by the A bit of a lifetime of zero
MCFlags == {[onlink |-> f[1], auto |-> f[2], valid |-> f[3]] :
              f \in {<<TRUE, TRUE, TRUE>>, <<TRUE, FALSE, TRUE>>,
                     <<FALSE, TRUE, TRUE>>, <<TRUE, FALSE, FALSE>>}}
MCShortage == {{}, {"router"}, {"prefix"}, {"advertiser"}}
====
