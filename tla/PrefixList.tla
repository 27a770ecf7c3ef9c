----------------------------- MODULE PrefixList -----------------------------
(* The prefix list of a host and what hangs on it (netinet6/nd6_rtr.c): the *)
(* prefixes learnt from router advertisements or from addresses set by hand, *)
(* the routers that advertise each, the interface route of a prefix, and the *)
(* addresses made from it.  A prefix is kept once per interface; the routing *)
(* table holds one route per prefix value, so interfaces that share a prefix *)
(* take turns.  When the host moves, prefixes without a reachable router are *)
(* detached by pfxlist_onlink_check and lose their route.                    *)
EXTENDS Naturals, FiniteSets, SequencesExt, Lists

CONSTANTS
    Entry,      \* what nd6_prefix_lookup tells apart: (prefix, interface)
    PrefixOf,   \* [Entry -> prefix values], the key of the interface route
    Router,     \* routers that may advertise to the host
    Advertises, \* [Router -> SUBSET Entry]: the entries of its interface
    ByHand,     \* the entries an operator configures an address in
    Flags,      \* the L bits, A bits and lifetimes (zero or not) sent
    Shortage    \* the sets of allocations that may fail within one handler

ASSUME PrefixAssumption ==
    /\ DOMAIN PrefixOf = Entry
    /\ Advertises \in [Router -> SUBSET Entry]
    /\ ByHand \subseteq Entry
    /\ Flags \subseteq [onlink : BOOLEAN, auto : BOOLEAN, valid : BOOLEAN]
    /\ Shortage \subseteq SUBSET {"router", "prefix", "advertiser"}

VARIABLE nd
    \* list     nd_prefix, newest first
    \* entry    per entry: raf_onlink, valid (a lifetime is left), detached
    \*          and onlink (ndpr_stateflags), adv (ndpr_advrtrs), refcnt
    \* route    prefix values that have an interface route
    \* auto     per entry the address autoconfigured from it
    \* manual   entries that have an address set by hand
    \* routers  the default router list
    \* reach    routers whose neighbor cache entry is probably reachable

vars == <<nd>>

Blank == [raf_onlink |-> FALSE, valid |-> FALSE, detached |-> FALSE,
          onlink |-> FALSE, adv |-> {}, refcnt |-> 0]

Same(e, o) == e # o /\ PrefixOf[e] = PrefixOf[o]
Listed(s) == ToSet(s.list)

(* find_pfxlist_reachable_router *)
Reachable(s, e) == s.entry[e].adv \cap s.reach # {}

-----------------------------------------------------------------------------
(* The interface route. *)

\* Mutant: every interface installs the route.
OnlinkAnyway(s, e) ==
    [s EXCEPT !.route = @ \cup {PrefixOf[e]}, !.entry[e].onlink = TRUE]

(* nd6_prefix_onlink: one entry per prefix value owns the route. *)
Onlink(s, e) ==
    IF s.entry[e].onlink \/ \E o \in Listed(s) : Same(e, o) /\ s.entry[o].onlink
    THEN s
    ELSE [s EXCEPT !.route = @ \cup {PrefixOf[e]}, !.entry[e].onlink = TRUE]

\* Mutant: nobody takes the route over.
OfflinkKeepsAway(s, e) ==
    [s EXCEPT !.route = @ \ {PrefixOf[e]}, !.entry[e].onlink = FALSE]

(* nd6_prefix_offlink, of an entry that is on-link: the first entry of the *)
(* same prefix that is not detached takes the route over.                  *)
Offlink(s, e) ==
    LET off == [s EXCEPT !.route = @ \ {PrefixOf[e]}, !.entry[e].onlink = FALSE]
        unfit == {o \in Entry : \/ ~ Same(e, o)
                                \/ s.entry[o].onlink \/ s.entry[o].detached}
    IN FoldLeft(Onlink, off, Without(s.list, unfit))

-----------------------------------------------------------------------------
(* pfxlist_onlink_check *)

\* Mutant: any router will do.
EvidenceAny(s) ==
    \/ \E e \in Listed(s) : s.entry[e].raf_onlink /\ Reachable(s, e)
    \/ s.routers # {}

(* A prefix has a reachable router, or the host has routers and none of them *)
(* advertises a prefix.                                                      *)
Evidence(s) ==
    \/ \E e \in Listed(s) : s.entry[e].raf_onlink /\ Reachable(s, e)
    \/ /\ s.routers # {}
       /\ \A e \in Listed(s) : s.entry[e].adv \cap s.routers = {}

Flagged(s) ==
    LET judged == {e \in Listed(s) : s.entry[e].raf_onlink}
        lost == IF Evidence(s) THEN {e \in judged : ~ Reachable(s, e)} ELSE {}
        entry == s.entry
    IN [s EXCEPT !.entry = [e \in Entry |->
           IF e \in judged THEN [entry[e] EXCEPT !.detached = e \in lost]
                           ELSE entry[e]]]

Rerouted(s, e) ==
    LET x == s.entry[e] IN
    IF ~ x.raf_onlink THEN s
    ELSE IF x.detached /\ x.onlink THEN Offlink(s, e)
    ELSE IF ~ x.detached /\ ~ x.onlink THEN Onlink(s, e)
    ELSE s

(* Addresses follow the prefixes by the same rule, over the addresses. *)
Readdressed(s) ==
    LET formed == {e \in Entry : s.auto[e] # "none"}
        served == {e \in formed : Reachable(s, e)}
    IN [s EXCEPT !.auto = [e \in Entry |->
           IF e \notin formed THEN "none"
           ELSE IF served # {} /\ e \notin served THEN "detached"
           ELSE "attached"]]

Check(s) == Readdressed(FoldLeft(Rerouted, Flagged(s), s.list))

-----------------------------------------------------------------------------
(* The list of routers, as far as prefixes depend on it. *)

(* defrtrlist_del: forget the router in every prefix, then check. *)
DefrtrlistDel(s, r) ==
    LET entry == s.entry
    IN Check([s EXCEPT !.routers = @ \ {r},
                       !.entry = [e \in Entry |->
                                     [entry[e] EXCEPT !.adv = @ \ {r}]]])

(* defrtrlist_update: the caller's router pointer is NULL unless r is listed *)
(* afterwards.                                                               *)
DefrtrlistUpdate(s, r, lifetime, short) ==
    IF r \in s.routers
    THEN IF lifetime THEN s ELSE DefrtrlistDel(s, r)
    ELSE IF lifetime /\ "router" \notin short
         THEN [s EXCEPT !.routers = @ \cup {r}]
         ELSE s

-----------------------------------------------------------------------------
(* The list of prefixes. *)

(* pfxrtr_add, dr being NULL when no router is given: a router already in *)
(* the entry's list is not added again.                                   *)
PfxrtrAdd(s, e, dr, short) ==
    IF dr \subseteq s.entry[e].adv \/ "advertiser" \in short THEN s
    ELSE Check([s EXCEPT !.entry[e].adv = @ \cup dr])

(* nd6_prelist_add, when its allocation succeeds *)
PrelistAdd(s, o, dr, short) ==
    LET e == o.entry
        new == [s EXCEPT !.list = <<e>> \o @,
                         !.entry[e] = [Blank EXCEPT !.raf_onlink = o.onlink,
                                                    !.valid = o.valid]]
        routed == IF o.onlink THEN Onlink(new, e) ELSE new
    IN PfxrtrAdd(routed, e, dr, short)

\* Mutant: the references are not looked at.
RemoveReferenced(s, e) ==
    LET dead == [s EXCEPT !.entry[e].valid = FALSE]
        off == IF dead.entry[e].onlink THEN Offlink(dead, e) ELSE dead
    IN Check([off EXCEPT !.list = Without(@, {e}), !.entry[e] = Blank])

(* prelist_remove: a prefix that addresses refer to stays listed, invalid. *)
PrelistRemove(s, e) ==
    LET dead == [s EXCEPT !.entry[e].valid = FALSE]
        off == IF dead.entry[e].onlink THEN Offlink(dead, e) ELSE dead
    IN IF off.entry[e].refcnt > 0 THEN off
       ELSE Check([off EXCEPT !.list = Without(@, {e}), !.entry[e] = Blank])

(* The part of prelist_update that finds or makes the entry.  Neither the L *)
(* bit nor the A bit is ever taken back; an entry made for its A bit alone  *)
(* is invalid from the start.                                               *)
Learnt(s, o, dr, short) ==
    LET e == o.entry IN
    IF e \in Listed(s)
    THEN LET bit == IF o.onlink
                    THEN Onlink([s EXCEPT !.entry[e].raf_onlink = TRUE,
                                          !.entry[e].valid = o.valid], e)
                    ELSE s
         IN PfxrtrAdd(bit, e, dr, short)
    ELSE IF ~ o.valid \/ ~ (o.onlink \/ o.auto) \/ "prefix" \in short THEN s
    ELSE LET made == PrelistAdd(s, o, dr, short)
         IN IF o.onlink THEN made ELSE [made EXCEPT !.entry[e].valid = FALSE]

\* Mutant: an address for every advertisement.
IfaddEachTime(s, e) ==
    Check([s EXCEPT !.auto[e] = "attached", !.entry[e].refcnt = @ + 1])

(* prelist_update from 5.5.3 (d) on: an address is made from the prefix     *)
(* unless one exists; the lifetimes of the one that exists are left out.    *)
Ifadd(s, e) ==
    IF s.auto[e] # "none" THEN s
    ELSE Check([s EXCEPT !.auto[e] = "attached", !.entry[e].refcnt = @ + 1])

PrelistUpdate(s, o, dr, short) ==
    LET got == Learnt(s, o, dr, short)
    IN IF o.entry \in Listed(got) /\ o.auto /\ o.valid
       THEN Ifadd(got, o.entry)
       ELSE got

-----------------------------------------------------------------------------
(* Addresses. *)

\* Mutant: the other addresses are not looked at.
PurgeUnchecked(s, e, kind) ==
    IF kind = "auto"
    THEN [s EXCEPT !.auto[e] = "none", !.entry[e].refcnt = @ - 1]
    ELSE [s EXCEPT !.manual = @ \ {e}, !.entry[e].refcnt = @ - 1]

(* in6_purgeaddr, through in6_unlink_ifa *)
Purge(s, e, kind) ==
    IF kind = "auto"
    THEN Check([s EXCEPT !.auto[e] = "none", !.entry[e].refcnt = @ - 1])
    ELSE [s EXCEPT !.manual = @ \ {e}, !.entry[e].refcnt = @ - 1]

Has(s, e, kind) == IF kind = "auto" THEN s.auto[e] # "none" ELSE e \in s.manual

-----------------------------------------------------------------------------
Init ==
    nd = [list |-> << >>, entry |-> [e \in Entry |-> Blank], route |-> {},
          auto |-> [e \in Entry |-> "none"], manual |-> {},
          routers |-> {}, reach |-> {}]

(* The prefix options a router may send: none, or one of its prefixes with *)
(* some L bit, A bit and lifetime.                                         *)
Options(r) == {<< >>} \cup
    {<<o>> : o \in {x \in [entry : Advertises[r], onlink : BOOLEAN,
                            auto : BOOLEAN, valid : BOOLEAN] :
                        [onlink |-> x.onlink, auto |-> x.auto,
                         valid |-> x.valid] \in Flags}}

(* The allocations that fail are among those the handler makes. *)
Wanted(r, lifetime, options) ==
    {k \in {"router", "prefix", "advertiser"} :
        CASE k = "router" -> lifetime /\ r \notin nd.routers
          [] k = "prefix" -> \E o \in ToSet(options) : o.entry \notin Listed(nd)
          [] k = "advertiser" ->
                \E o \in ToSet(options) : r \notin nd.entry[o.entry].adv}

(* nd6_ra_input.  At its end the neighbor cache takes the router's link-layer *)
(* address and the prefixes are checked; with no such option the cache keeps  *)
(* what it had, and one of the wrong length ends the handler before both.     *)
RaInput(r, lifetime, options, short) ==
    LET known == DefrtrlistUpdate(nd, r, lifetime, short)
        dr == {r} \cap known.routers
        learnt == FoldLeft(LAMBDA s, o : PrelistUpdate(s, o, dr, short),
                           known, options)
    IN /\ short \subseteq Wanted(r, lifetime, options)
       /\ nd' \in {Check([learnt EXCEPT !.reach = @ \cup {r}]),
                   Check(learnt), learnt}

(* nd6_timer, nd6_na_input and SIOCSRTRFLUSH_IN6 drop a default router. *)
RouterGone(r) == r \in nd.routers /\ nd' = DefrtrlistDel(nd, r)

(* The router answers again: by an advertisement with the R flag, which *)
(* checks the prefixes (nd6_na_input), or by another message.           *)
NeighborUp(r) ==
    /\ r \notin nd.reach
    /\ LET up == [nd EXCEPT !.reach = @ \cup {r}] IN nd' \in {up, Check(up)}

(* nd6_free of the router's cache entry, when unreachability detection fails. *)
NeighborDown(r) ==
    /\ r \in nd.reach
    /\ LET down == [nd EXCEPT !.reach = @ \ {r}]
       IN nd' = IF r \in nd.routers THEN Check(down) ELSE down

(* The operator deletes the cache entry: nd6_rtrequest checks nothing. *)
NeighborDeleted(r) == r \in nd.reach /\ nd' = [nd EXCEPT !.reach = @ \ {r}]

(* nd6_timer expires a prefix or an address, one per action. *)
PrefixExpires(e) == e \in Listed(nd) /\ nd' = PrelistRemove(nd, e)
AddrExpires(e) == nd.auto[e] # "none" /\ nd' = Purge(nd, e, "auto")

(* SIOCAIFADDR_IN6 *)
AddAddr(e, short) ==
    LET asked == [entry |-> e, onlink |-> TRUE, auto |-> FALSE, valid |-> TRUE]
        listed == IF e \in Listed(nd) THEN nd ELSE PrelistAdd(nd, asked, {}, short)
    IN /\ e \in ByHand \ nd.manual
       /\ e \in Listed(nd) \/ "prefix" \notin short
       /\ nd' = Check([listed EXCEPT !.manual = @ \cup {e},
                                     !.entry[e].refcnt = @ + 1])

(* SIOCDIFADDR_IN6: the last address of a prefix takes the prefix along. *)
DeleteAddr(e, kind) ==
    LET purged == Purge(nd, e, kind)
    IN /\ Has(nd, e, kind)
       /\ nd' = IF purged.entry[e].refcnt = 0 THEN PrelistRemove(purged, e)
                                              ELSE purged

(* SIOCSPFXFLUSH_IN6 *)
FlushOne(s, e) ==
    PrelistRemove(IF s.auto[e] # "none" THEN Purge(s, e, "auto") ELSE s, e)
PrefixFlush == nd.list # << >> /\ nd' = FoldLeft(FlushOne, nd, nd.list)

Next ==
    \/ \E r \in Router, lifetime \in BOOLEAN, short \in Shortage :
          \E options \in Options(r) : RaInput(r, lifetime, options, short)
    \/ \E r \in Router : \/ RouterGone(r)
                         \/ NeighborUp(r)
                         \/ NeighborDown(r)
                         \/ NeighborDeleted(r)
    \/ \E e \in Entry : \/ PrefixExpires(e)
                        \/ AddrExpires(e)
                        \/ \E short \in Shortage : AddAddr(e, short)
                        \/ \E kind \in {"auto", "manual"} : DeleteAddr(e, kind)
    \/ PrefixFlush

Spec == Init /\ [][Next]_vars

-----------------------------------------------------------------------------
EntryType == [raf_onlink : BOOLEAN, valid : BOOLEAN, detached : BOOLEAN,
              onlink : BOOLEAN, adv : SUBSET Router, refcnt : 0 .. 2]

(* Every field has its type; no entry is listed twice, and what is not listed *)
(* keeps no state: at most one autoconfigured address and one set by hand     *)
(* refer to a prefix.                                                         *)
TypeOK ==
    /\ nd.entry \in [Entry -> EntryType]
    /\ nd.auto \in [Entry -> {"none", "attached", "detached"}]
    /\ nd.manual \subseteq Entry
    /\ nd.routers \subseteq Router /\ nd.reach \subseteq Router
    /\ IsInjective(nd.list) /\ Listed(nd) \subseteq Entry
    /\ \A e \in Entry \ Listed(nd) : nd.entry[e] = Blank

Owners(v) == {e \in Listed(nd) : PrefixOf[e] = v /\ nd.entry[e].onlink}

(* The routing table and the flags agree: a prefix has its interface route    *)
(* exactly when one entry of it is marked on-link, and never two are, however *)
(* the route moves between interfaces (nd6_prefix_onlink, nd6_prefix_offlink).*)
RouteExact ==
    \A v \in {PrefixOf[e] : e \in Entry} :
        Cardinality(Owners(v)) = (IF v \in nd.route THEN 1 ELSE 0)

(* No pointer dangles: the count of a prefix is the number of addresses made *)
(* in it, a prefix that addresses refer to is not freed (prelist_remove,     *)
(* in6_unlink_ifa), and a prefix names only routers that are still listed    *)
(* (defrtrlist_del).                                                         *)
PointersLive ==
    \A e \in Entry :
        LET held == {k \in {"auto", "manual"} : Has(nd, e, k)}
        IN /\ nd.entry[e].refcnt = Cardinality(held)
           /\ held # {} => e \in Listed(nd)
           /\ nd.entry[e].adv \subseteq nd.routers

(* A valid on-link prefix that is not detached has its interface route, its *)
(* own or that of the same prefix on another interface, also after the      *)
(* interface that held the route gave it up.                                *)
AttachedOnlink ==
    \A e \in Listed(nd) :
        LET x == nd.entry[e]
        IN x.raf_onlink /\ x.valid /\ ~ x.detached => PrefixOf[e] \in nd.route

(* Detachment never takes the last address: while an autoconfigured address *)
(* is detached another one is attached (pfxlist_onlink_check, called by all *)
(* that may take that other address away).                                  *)
SomeAddressUsable ==
    (\E e \in Entry : nd.auto[e] = "detached")
        => \E e \in Entry : nd.auto[e] = "attached"

(* A prefix is detached only while another has a router that is reachable, or *)
(* while the host has routers none of which advertises a prefix: not when the *)
(* only router it knew falls silent.                                          *)
DetachedForReason ==
    [][\A e \in Entry : ~ nd.entry[e].detached /\ nd'.entry[e].detached
           => \/ \E f \in Listed(nd') \ {e} : Reachable(nd', f)
              \/ /\ nd'.routers # {}
                 /\ \A f \in Entry : nd'.entry[f].adv = {}]_vars
=============================================================================
