------------------------------ MODULE DadLink ------------------------------
(***************************************************************************)
(* Nodes of one link that all want the same IPv6 address, each running the *)
(* DAD of module Dad: element a of Ifa is that address on the node whose   *)
(* interface is IfOf[a].  The link carries DAD solicitations and the       *)
(* advertisements that answer them; it may reorder them, and lose up to    *)
(* MaxLoss of them.                                                        *)
(*                                                                         *)
(* The only assumption on time is the one RFC 2461 makes of RetransTimer:  *)
(* a solicitation and the answer to it take less time than the timer.      *)
(* Without a clock: every packet carries in before the addresses whose     *)
(* callouts were armed for RetransTimer since it, or the solicitation it   *)
(* answers, was sent; these callouts do not run before it is delivered.    *)
(***************************************************************************)
EXTENDS Dad

CONSTANTS
    MaxLoss,   \* copies of packets the link may lose
    Churn      \* whether addresses are removed and memory may run out

ASSUME LinkAssumption ==
    /\ MaxLoss \in Nat
    /\ Churn \in BOOLEAN

VARIABLES
    wire,      \* packets in flight, one copy per receiver
    lost       \* copies lost so far

linkvars == <<vars, wire, lost>>

Packet == [kind : {"NS", "NA"}, from : Ifa, to : Ifa, before : SUBSET Ifa]

LinkTypeOK == TypeOK /\ wire \subseteq Packet /\ lost \in 0..MaxLoss

LinkInit ==
    /\ assigned = {}
    /\ flags = [a \in Ifa |-> {}]
    /\ dp = [a \in Ifa |-> NoDp]
    /\ refs = [a \in Ifa |-> 0]
    /\ up = [i \in Ifn |-> TRUE]
    /\ running = [i \in Ifn |-> TRUE]
    /\ disabled = [i \in Ifn |-> FALSE]
    /\ wire = {}
    /\ lost = 0

\* The multicast packet a sends: every other node gets a copy.
Multicast(kind, a, before) ==
    [kind : {kind}, from : {a}, to : Ifa \ {a}, before : {before}]

(* The wire after a step of Dad when w is left on it: the probes the step  *)
(* put out are added (nd6_output drops those of a disabled interface), and *)
(* callouts armed for RetransTimer wait for all that is in flight.         *)
Carry(w) ==
    LET probes == UNION {Multicast("NS", a, {}) :
                     a \in {b \in Ifa : /\ dp'[b].ocount > dp[b].ocount
                                        /\ ~disabled[IfOf[b]]}}
        rearmed == {a \in Ifa : dp'[a].tcount > dp[a].tcount}
        idle == {a \in Ifa : ~dp'[a].armed}
    IN  {[p EXCEPT !.before = (@ \ idle) \union rearmed] : p \in w \union probes}

----------------------------------------------------------------------------
LinkAssign ==
    \E a \in Ifa, nodad, delayed \in BOOLEAN, nomem \in SUBSET Ifa :
        /\ nomem # {} => Churn
        /\ AssignAddr(a, FALSE, nodad, delayed, {}, nomem)
        /\ wire' = Carry(wire)
        /\ UNCHANGED lost

LinkPurge ==
    /\ Churn
    /\ \E a \in Ifa : PurgeAddr(a, {}, {})
    /\ wire' = Carry(wire)
    /\ UNCHANGED lost

LinkTimer ==
    \E a \in Ifa :
        /\ \A p \in wire : a \notin p.before
        /\ DadTimer(a)
        /\ wire' = Carry(wire)
        /\ UNCHANGED lost

\* nd6_ns_input: a solicitation for an address we use is answered to all
\* nodes; one for a tentative address goes to DAD; the rest is dropped.
DeliverNs(p) ==
    /\ p \in wire /\ p.kind = "NS"
    /\ \/ DadNsInput(p.to) /\ wire' = Carry(wire \ {p})
       \/ /\ Usable(p.to) /\ Receives(IfOf[p.to])
          /\ wire' = (wire \ {p}) \union Multicast("NA", p.to, p.before)
          /\ UNCHANGED vars
       \/ /\ ~Receives(IfOf[p.to]) \/ p.to \notin assigned \/ Duplicated(p.to)
          /\ wire' = wire \ {p}
          /\ UNCHANGED vars
    /\ UNCHANGED lost

\* nd6_na_input: only a tentative address cares.
DeliverNa(p) ==
    /\ p \in wire /\ p.kind = "NA"
    /\ \/ DadNaInput(p.to) /\ wire' = Carry(wire \ {p})
       \/ /\ ~Receives(IfOf[p.to]) \/ p.to \notin assigned \/ ~Tentative(p.to)
          /\ wire' = wire \ {p}
          /\ UNCHANGED vars
    /\ UNCHANGED lost

Lose(p) ==
    /\ lost < MaxLoss
    /\ lost' = lost + 1
    /\ wire' = wire \ {p}
    /\ UNCHANGED vars

LinkNext ==
    \/ LinkAssign
    \/ LinkPurge
    \/ LinkTimer
    \/ \E p \in wire : DeliverNs(p)
    \/ \E p \in wire : DeliverNa(p)
    \/ \E p \in wire : Lose(p)

LinkSpec == LinkInit /\ [][LinkNext]_linkvars

----------------------------------------------------------------------------
(* DAD does its work: two nodes never use the address at the same time.    *)
(* It needs every part of the procedure: the claim remembered while our    *)
(* own probes are out, the answer for an address in use, and a decision    *)
(* only after a full RetransTimer.                                         *)
UniqueHolder ==
    /\ LinkTypeOK
    /\ \A a, b \in Ifa : Usable(a) /\ Usable(b) => a = b

=============================================================================
