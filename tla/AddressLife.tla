---------------------------- MODULE AddressLife ----------------------------
(***************************************************************************)
(* What Duplicate Address Detection promises about one address at a time:  *)
(* an address that must be checked becomes valid only after DadCount       *)
(* probes, with no claim by another node heard since the first of them;    *)
(* and an address found to be a duplicate stays one until it is removed.   *)
(* Several addresses may move in one step.                                 *)
(***************************************************************************)
EXTENDS Naturals

CONSTANTS
    Addr,      \* addresses
    Exempt,    \* addresses that need no check
    Probes     \* probes to send before an address may be used

VARIABLES
    st,        \* st[a]: none, tentative, valid or duplicated
    sent,      \* sent[a]: probes sent for a tentative address
    claimed    \* claimed[a]: another node was heard to check the same address

vars == <<st, sent, claimed>>

Init ==
    /\ st = [a \in Addr |-> "none"]
    /\ sent = [a \in Addr |-> 0]
    /\ claimed = [a \in Addr |-> FALSE]

Idle(a) == sent'[a] = 0 /\ ~claimed'[a]

\* The check starts, or starts again; or it is given up.
Check(a) ==
    /\ st'[a] = "tentative"
    /\ sent'[a] \in {0, 1}
    /\ ~claimed'[a]

Probe(a) ==
    /\ st[a] = "tentative" /\ st'[a] = "tentative"
    /\ sent'[a] \in {sent[a], sent[a] + 1}
    /\ claimed'[a] = claimed[a]

Claim(a) ==
    /\ st[a] = "tentative" /\ st'[a] = "tentative"
    /\ sent[a] > 0 /\ sent'[a] = sent[a]
    /\ claimed'[a]

Verify(a) ==
    /\ st[a] = "tentative" /\ st'[a] = "valid"
    /\ sent[a] >= Probes /\ ~claimed[a]
    /\ Idle(a)

Trust(a) ==
    /\ st[a] \in {"none", "tentative", "valid"} /\ st'[a] = "valid"
    /\ a \in Exempt
    /\ Idle(a)

Fail(a) ==
    /\ st[a] = "tentative" /\ st'[a] = "duplicated"
    /\ Idle(a)

Remove(a) ==
    /\ st'[a] = "none"
    /\ Idle(a)

Same(a) ==
    /\ st'[a] = st[a] /\ sent'[a] = sent[a] /\ claimed'[a] = claimed[a]

Next ==
    \A a \in Addr :
        \/ st[a] # "duplicated" /\ Check(a)
        \/ Probe(a)
        \/ Claim(a)
        \/ Verify(a)
        \/ Trust(a)
        \/ Fail(a)
        \/ Remove(a)
        \/ Same(a)

Spec == Init /\ [][Next]_vars

=============================================================================
