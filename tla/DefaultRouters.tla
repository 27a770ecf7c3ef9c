--------------------------- MODULE DefaultRouters ---------------------------
(***************************************************************************)
(* The default router list of nd6_rtr.c, as operators.  A list is a record *)
(*   list: the routers of nd_defrouter, in order,                          *)
(*   pref: pref[r], the preference r advertised (rtpref of its flags; 0,    *)
(*         the medium one, for a neighbor not in the list),                *)
(*   inst: the routers whose installed flag is set.                        *)
(* Which neighbors are probably reachable (reach) is the neighbor cache's  *)
(* to say.  Routers live as long as their lifetime has not run out, and no *)
(* other default route competes with the ones installed here.              *)
(***************************************************************************)
EXTENDS Integers, Sequences, SequencesExt, Lists

Routers(l) == {l.list[i] : i \in DOMAIN l.list}

\* Position of the first router of S in the list, 0 if there is none.
FirstOf(l, S) == SelectInSeq(l.list, LAMBDA r : r \in S)

\* Mutant: a reachable router of the same preference replaces the installed one.
DefrouterSelectFlaps(l, reach) ==
    IF l.list = <<>> THEN l
    ELSE LET r == FirstOf(l, reach)
             i == FirstOf(l, l.inst)
             s == IF r = 0 THEN (IF i = 0 \/ i = Len(l.list) THEN 1 ELSE i + 1)
                  ELSE IF i # 0 /\ l.list[i] \in reach
                          /\ l.pref[l.list[r]] < l.pref[l.list[i]]
                  THEN i ELSE r
         IN  IF s = i THEN l
             ELSE [l EXCEPT !.inst = (@ \ {l.list[k] : k \in {i} \ {0}})
                                     \union {l.list[s]}]

\* Mutant: round-robin whether a router is reachable or not.
DefrouterSelectBlind(l, reach) ==
    IF l.list = <<>> THEN l
    ELSE LET i == FirstOf(l, l.inst)
             s == IF i = 0 \/ i = Len(l.list) THEN 1 ELSE i + 1
         IN  IF s = i THEN l
             ELSE [l EXCEPT !.inst = (@ \ {l.list[k] : k \in {i} \ {0}})
                                     \union {l.list[s]}]

(* defrouter_select: the first reachable router, unless the installed one  *)
(* is reachable and preferred as much; round-robin when none is reachable. *)
DefrouterSelect(l, reach) ==
    IF l.list = <<>> THEN l
    ELSE LET r == FirstOf(l, reach)
             i == FirstOf(l, l.inst)
             s == IF r = 0 THEN (IF i = 0 \/ i = Len(l.list) THEN 1 ELSE i + 1)
                  ELSE IF i # 0 /\ l.list[i] \in reach
                          /\ l.pref[l.list[r]] <= l.pref[l.list[i]]
                  THEN i ELSE r
         IN  IF s = i THEN l
             ELSE [l EXCEPT !.inst = (@ \ {l.list[k] : k \in {i} \ {0}})
                                     \union {l.list[s]}]

\* defrtrlist_del: a new router is selected only if r was installed.
DefrtrlistDel(l, r, reach) ==
    LET rest == [l EXCEPT !.list = Without(@, {r}), !.inst = @ \ {r},
                          !.pref[r] = 0]
    IN  IF r \in l.inst THEN DefrouterSelect(rest, reach) ELSE rest

\* The routers of S deleted one after the other, in list order.
DefrtrlistDelAll(l, S, reach) ==
    FoldLeft(LAMBDA m, r : DefrtrlistDel(m, r, reach), l,
             Without(l.list, Routers(l) \ S))

\* defrouter_reset: no route is left, the list stays.
DefrouterReset(l) == [l EXCEPT !.inst = {}]

\* Mutant: the comparison of the preferences the other way round.
InsertUnsorted(l, r, p) ==
    LET i == SelectInSeq(l.list, LAMBDA d : p < l.pref[d])
    IN  [l EXCEPT !.list = IF i = 0 THEN Append(@, r) ELSE InsertAt(@, i, r),
                  !.pref[r] = p]

\* At the end of the routers of its preference.
InsertSorted(l, r, p) ==
    LET i == SelectInSeq(l.list, LAMBDA d : p > l.pref[d])
    IN  [l EXCEPT !.list = IF i = 0 THEN Append(@, r) ELSE InsertAt(@, i, r),
                  !.pref[r] = p]

(* defrtrlist_update for an advertisement from r with preference p; its    *)
(* router lifetime is not zero if alive, and nomem if malloc fails.        *)
DefrtrlistUpdate(l, r, alive, p, nomem, reach) ==
    IF r \in Routers(l)
    THEN IF ~alive THEN DefrtrlistDel(l, r, reach)
         ELSE IF p = l.pref[r] THEN l
         ELSE DefrouterSelect(
                  InsertSorted([l EXCEPT !.list = Without(@, {r})], r, p),
                  reach)
    ELSE IF ~alive \/ nomem THEN l
    ELSE DefrouterSelect(InsertSorted(l, r, p), reach)

=============================================================================
