---------------------------- MODULE NeighborCache ----------------------------
(***************************************************************************)
(* The neighbor cache of a host (ip6_forwarding = 0, ip6_accept_rtadv = 1) *)
(* on one broadcast interface: the llinfo_nd6 entries of nd6.c with their  *)
(* callouts and held packets, and the default router list that their       *)
(* reachability drives.  Packets come in, packets go out, callouts expire, *)
(* memory is drained and userland edits the tables, in any order; each     *)
(* handler runs under splsoftnet and is one step.                          *)
(***************************************************************************)
EXTENDS DefaultRouters, FiniteSets

CONSTANTS
    Neighbor,    \* the on-link nodes
    LLAddr,      \* link-layer addresses
    NoLLAddr,    \* an option left out, an address not recorded
    Prefs,       \* the router preferences advertised
    MaxQueueLen, \* nd6_maxqueuelen: packets held per unresolved entry
    MMaxTries,   \* nd6_mmaxtries: multicast solicitations
    UMaxTries,   \* nd6_umaxtries: unicast solicitations
    MaxNudHint,  \* nd6_maxnudhint: subsequent upper-layer hints accepted
    PerformNud,  \* ND6_IFF_PERFORMNUD is set on the interface
    Mortal,      \* the neighbors that may fall silent
    Admin,       \* userland edits the tables (ndp, ifconfig)
    Late         \* a solicited advertisement may come in when the entry that
                 \* solicited it is gone and another was made

ASSUME NeighborCacheAssumption ==
    /\ NoLLAddr \notin LLAddr
    /\ 0 \in Prefs /\ Prefs \subseteq Int
    /\ MaxQueueLen \in Nat \ {0}
    /\ MMaxTries \in Nat \ {0}
    /\ UMaxTries \in Nat \ {0}
    /\ MaxNudHint \in Nat
    /\ Mortal \subseteq Neighbor
    /\ {PerformNud, Admin, Late} \subseteq BOOLEAN

VARIABLES
    nc,     \* nc[n]: the cache entry of n
    drl,    \* the default router list
    silent  \* the neighbors no packet comes from any more

vars == <<nc, drl, silent>>

OptLLAddr == LLAddr \union {NoLLAddr}

\* "none": no entry.  The others are the ND6_LLINFO states.
State == {"none", "nostate", "incomplete", "reachable", "stale", "delay", "probe"}

(* struct llinfo_nd6 and its route.  hold counts the packets of ln_hold,   *)
(* expire says whether ln_expire is not zero, armed whether the callout is *)
(* pending.  ln_byhint is counted up to the hints that are believed.       *)
Entry == [state : State, lladdr : OptLLAddr, asked : Nat, hold : Nat,
          armed : BOOLEAN, expire : BOOLEAN, router : BOOLEAN,
          byhint : 0..MaxNudHint, static : BOOLEAN]

Absent == [state |-> "none", lladdr |-> NoLLAddr, asked |-> 0, hold |-> 0,
           armed |-> FALSE, expire |-> FALSE, router |-> FALSE, byhint |-> 0,
           static |-> FALSE]

ProbReach(e) == e.state \in {"reachable", "stale", "delay", "probe"}

Permanent(e) == ~e.expire /\ ProbReach(e)

Reach(c) == {n \in Neighbor : ProbReach(c[n])}

----------------------------------------------------------------------------
\* nd6_llinfo_settimer with a tick that is not negative.
SetTimer(e) == [e EXCEPT !.expire = TRUE, !.armed = TRUE]

SetTimerIfAging(e) == IF Permanent(e) THEN e ELSE SetTimer(e)

(* nd6_lookup makes an entry by cloning the interface route (nd6_rtrequest *)
(* RTM_RESOLVE), or adds a host route if none covers the neighbor; the     *)
(* latter has neither lifetime nor timer.                                  *)
NewEntry(cloned) ==
    LET e == [Absent EXCEPT !.state = "nostate"]
    IN  IF cloned THEN SetTimer(e) ELSE e

\* What a look-up of e may have to choose.
Ways(e) == IF e.state = "none" THEN BOOLEAN ELSE {TRUE}

LookupCreate(e, cloned) == IF e.state = "none" THEN NewEntry(cloned) ELSE e

\* Mutant: the first solicitation is sent without a timer.
NdOutputNoTimer(e) ==
    IF e.state = "stale" THEN SetTimer([e EXCEPT !.state = "delay", !.asked = 0])
    ELSE IF ProbReach(e) THEN e
    ELSE LET q == [e EXCEPT !.state = "incomplete",
                            !.hold = IF @ < MaxQueueLen THEN @ + 1 ELSE MaxQueueLen]
         IN  IF e.asked = 0 THEN [q EXCEPT !.asked = 1] ELSE q

(* nd6_output of one packet: sent if the link-layer address is resolved,   *)
(* held if not, pushing out the oldest packet; the first one held starts   *)
(* the solicitations.                                                      *)
NdOutput(e) ==
    IF e.state = "stale" THEN SetTimer([e EXCEPT !.state = "delay", !.asked = 0])
    ELSE IF ProbReach(e) THEN e
    ELSE LET q == [e EXCEPT !.state = "incomplete",
                            !.hold = IF @ < MaxQueueLen THEN @ + 1 ELSE MaxQueueLen]
         IN  IF e.asked = 0 THEN SetTimer([q EXCEPT !.asked = 1]) ELSE q

\* The held packets go through nd6_output again.
SendHeld(e) == IF e.hold = 0 THEN e ELSE NdOutput([e EXCEPT !.hold = 0])

\* do_update: a new entry, a first link-layer address or another one.
CacheUpdates(e, ll) == e.state = "none" \/ (ll # NoLLAddr /\ ll # e.lladdr)

\* Mutant: the packets held for the address that has come are forgotten.
CacheLladdrKeepsHeld(e, ll, cloned, isrouter) ==
    IF e.static THEN e
    ELSE LET a == [LookupCreate(e, cloned) EXCEPT
                      !.lladdr = IF ll = NoLLAddr THEN @ ELSE ll,
                      !.router = @ \/ isrouter]
         IN  IF CacheUpdates(e, ll) /\ ll # NoLLAddr
             THEN SetTimer([a EXCEPT !.state = "stale"]) ELSE a

(* nd6_cache_lladdr on the entry itself, for a solicitation, advertisement *)
(* or redirect with the link-layer address ll, from a router if isrouter.  *)
(* A static entry is left alone.                                           *)
CacheLladdr(e, ll, cloned, isrouter) ==
    IF e.static THEN e
    ELSE LET a == [LookupCreate(e, cloned) EXCEPT
                      !.lladdr = IF ll = NoLLAddr THEN @ ELSE ll,
                      !.router = @ \/ isrouter]
         IN  IF CacheUpdates(e, ll) /\ ll # NoLLAddr
             THEN SendHeld(SetTimer([a EXCEPT !.state = "stale"])) ELSE a

\* The entry has heard of its neighbor, or has reason to doubt what it heard.
Confirmed(e) == SetTimerIfAging([e EXCEPT !.state = "reachable", !.byhint = 0])
Stale(e) == SetTimer([e EXCEPT !.state = "stale"])

\* nd6_na_input on an INCOMPLETE entry, with a link-layer address.
NaResolve(e, ll, solicited, isrouter) ==
    LET a == [e EXCEPT !.lladdr = ll, !.router = isrouter, !.asked = 0]
    IN  SendHeld(IF solicited THEN Confirmed(a) ELSE Stale(a))

\* Another address than the one recorded, without leave to override it.
NaRefused(e, ll, override) == ll \notin {NoLLAddr, e.lladdr} /\ ~override

\* nd6_na_input on an entry in any other state: the "VERY complex" table.
NaUpdate(e, ll, solicited, override, isrouter) ==
    LET a == [e EXCEPT !.lladdr = IF ll = NoLLAddr THEN @ ELSE ll,
                       !.router = isrouter, !.asked = 0]
    IN  IF NaRefused(e, ll, override)
        THEN IF e.state = "reachable" THEN Stale(e) ELSE e
        ELSE SendHeld(IF solicited THEN Confirmed(a)
                      ELSE IF ll \notin {NoLLAddr, e.lladdr} THEN Stale(a) ELSE a)

\* Mutant: an entry in use is collected all the same.
FreeAlways(n, gc) ==
    /\ nc' = [nc EXCEPT ![n] = Absent]
    /\ drl' = IF n \in Routers(drl) THEN DefrouterSelect(drl, Reach(nc) \ {n}) ELSE drl
    /\ UNCHANGED silent

\* Mutant: the router is still taken for reachable when a new one is chosen.
FreeStillReachable(n, gc) ==
    /\ IF gc /\ n \in Routers(drl) /\ nc[n].state = "stale"
       THEN nc' = [nc EXCEPT ![n] = SetTimer(@)] /\ UNCHANGED drl
       ELSE /\ nc' = [nc EXCEPT ![n] = Absent]
            /\ drl' = IF n \in Routers(drl) THEN DefrouterSelect(drl, Reach(nc)) ELSE drl
    /\ UNCHANGED silent

(* nd6_free.  When only garbage is collected, a stale entry of an active   *)
(* default router stays; else the entry goes, and if it was a default      *)
(* router's, a router is selected as if this one were unreachable.         *)
NdFree(n, gc) ==
    /\ IF gc /\ n \in Routers(drl) /\ nc[n].state = "stale"
       THEN nc' = [nc EXCEPT ![n] = SetTimer(@)] /\ UNCHANGED drl
       ELSE /\ nc' = [nc EXCEPT ![n] = Absent]
            /\ drl' = IF n \in Routers(drl) THEN DefrouterSelect(drl, Reach(nc) \ {n}) ELSE drl
    /\ UNCHANGED silent

----------------------------------------------------------------------------
Init ==
    /\ nc = [n \in Neighbor |-> Absent]
    /\ drl = [list |-> <<>>, pref |-> [n \in Neighbor |-> 0], inst |-> {}]
    /\ silent = {}

\* A packet for the neighbor, or through it, is sent.
Output(n, cloned) ==
    /\ cloned \in Ways(nc[n])
    /\ nc' = [nc EXCEPT ![n] = NdOutput(LookupCreate(@, cloned))]
    /\ UNCHANGED <<drl, silent>>

\* A neighbor solicitation from n, with or without its link-layer address.
HeardNs(n, ll, cloned) ==
    /\ n \notin silent
    /\ cloned \in Ways(nc[n])
    /\ nc' = [nc EXCEPT ![n] = CacheLladdr(@, ll, cloned, FALSE)]
    /\ drl' = IF ~nc[n].static /\ CacheUpdates(nc[n], ll) /\ nc'[n].router
              THEN DefrouterSelect(drl, Reach(nc')) ELSE drl
    /\ UNCHANGED silent

(* A redirect to n from the default router in use: to a better router, or  *)
(* to the destination itself, on-link.                                     *)
HeardRedirect(n, ll, cloned, better) ==
    /\ ~(drl.inst \subseteq silent)
    /\ cloned \in Ways(nc[n])
    /\ nc' = [nc EXCEPT ![n] = CacheLladdr(@, ll, cloned, better)]
    /\ drl' = IF ~nc[n].static /\ CacheUpdates(nc[n], ll) /\ nc'[n].router
              THEN DefrouterSelect(drl, Reach(nc')) ELSE drl
    /\ UNCHANGED silent

(* nd6_ra_input: the router list first, then the neighbor cache, where     *)
(* the sender is marked as a router if its link-layer address is known.    *)
HeardRa(n, alive, p, ll, cloned, nomem) ==
    LET d == DefrtrlistUpdate(drl, n, alive, p, nomem, Reach(nc))
    IN  /\ n \notin silent
        /\ cloned \in Ways(nc[n])
        /\ nomem => alive /\ n \notin Routers(drl)
        /\ alive \/ p = 0
        /\ nc' = [nc EXCEPT ![n] = CacheLladdr(@, ll, cloned,
                                       NoLLAddr # ll \/ NoLLAddr # @.lladdr)]
        /\ drl' = IF ~nc[n].static /\ CacheUpdates(nc[n], ll) /\ nc'[n].router
                  THEN DefrouterSelect(d, Reach(nc')) ELSE d
        /\ UNCHANGED silent

\* Mutant: an advertisement without an address resolves the entry.
HeardNaIncompleteAny(n, ll, solicited, isrouter) ==
    /\ n \notin silent
    /\ nc[n].state = "incomplete"
    /\ nc' = [nc EXCEPT ![n] = NaResolve(@, ll, solicited, isrouter)]
    /\ UNCHANGED <<drl, silent>>

\* nd6_na_input, the entry still unresolved; without an address it is ignored.
HeardNaIncomplete(n, ll, solicited, isrouter) ==
    /\ n \notin silent
    /\ nc[n].state = "incomplete" /\ ll # NoLLAddr
    /\ nc' = [nc EXCEPT ![n] = NaResolve(@, ll, solicited, isrouter)]
    /\ UNCHANGED <<drl, silent>>

(* nd6_na_input on an entry in another state.  A router that says it is    *)
(* one no more leaves the default router list.                             *)
HeardNa(n, ll, solicited, override, isrouter) ==
    /\ n \notin silent
    /\ nc[n].state \notin {"none", "incomplete"}
    /\ solicited => Late \/ nc[n].state # "nostate"
    /\ nc' = [nc EXCEPT ![n] = NaUpdate(@, ll, solicited, override, isrouter)]
    /\ drl' = IF /\ n \in Routers(drl)
                 /\ nc[n].router /\ ~isrouter /\ ~NaRefused(nc[n], ll, override)
              THEN DefrtrlistDel(drl, n, Reach(nc')) ELSE drl
    /\ UNCHANGED silent

\* Mutant: a hint too many is believed.
NudHintOneMore(n) ==
    /\ ProbReach(nc[n])
    /\ nc[n].byhint <= MaxNudHint
    /\ nc' = [nc EXCEPT ![n] =
                 SetTimerIfAging([nc[n] EXCEPT !.state = "reachable", !.byhint = @ + 1])]
    /\ UNCHANGED <<drl, silent>>

\* Mutant: hints are not counted.
NudHintUncounted(n) ==
    /\ ProbReach(nc[n])
    /\ nc[n].byhint < MaxNudHint
    /\ nc' = [nc EXCEPT ![n] = SetTimerIfAging([nc[n] EXCEPT !.state = "reachable"])]
    /\ UNCHANGED <<drl, silent>>

\* nd6_nud_hint: TCP moves forward over n.  Hints beyond nd6_maxnudhint
\* change nothing.
NudHint(n) ==
    /\ ProbReach(nc[n])
    /\ nc[n].byhint < MaxNudHint
    /\ nc' = [nc EXCEPT ![n] =
                 SetTimerIfAging([nc[n] EXCEPT !.state = "reachable", !.byhint = @ + 1])]
    /\ UNCHANGED <<drl, silent>>

----------------------------------------------------------------------------
(* nd6_llinfo_timer, by the state of the entry.                            *)

\* The callout of a new entry that nobody used.
TimerNoState(n) ==
    /\ nc[n].armed /\ nc[n].state = "nostate"
    /\ nc' = [nc EXCEPT ![n].armed = FALSE]
    /\ UNCHANGED <<drl, silent>>

\* Another multicast solicitation.
TimerSolicit(n) ==
    /\ nc[n].armed /\ nc[n].state = "incomplete"
    /\ nc[n].asked < MMaxTries
    /\ nc' = [nc EXCEPT ![n] = SetTimer([nc[n] EXCEPT !.asked = @ + 1])]
    /\ UNCHANGED <<drl, silent>>

\* Mutant: one try more than are made.
TimerUnresolvedLate(n) ==
    /\ nc[n].armed /\ nc[n].state = "incomplete"
    /\ nc[n].asked > MMaxTries
    /\ NdFree(n, FALSE)

\* No answer: the first held packet is returned in an ICMPv6 error, the
\* others are dropped with the entry.
TimerUnresolved(n) ==
    /\ nc[n].armed /\ nc[n].state = "incomplete"
    /\ nc[n].asked >= MMaxTries
    /\ NdFree(n, FALSE)

TimerReachable(n) ==
    /\ nc[n].armed /\ nc[n].state = "reachable" /\ ~Permanent(nc[n])
    /\ nc' = [nc EXCEPT ![n] = Stale(@)]
    /\ UNCHANGED <<drl, silent>>

\* Garbage collection.
TimerStale(n) ==
    /\ nc[n].armed /\ nc[n].state = "stale" /\ ~Permanent(nc[n])
    /\ NdFree(n, TRUE)

\* Start probing, or go back to STALE if the interface is told not to.
TimerDelay(n) ==
    /\ nc[n].armed /\ nc[n].state = "delay"
    /\ nc' = [nc EXCEPT ![n] =
                 IF PerformNud THEN SetTimer([@ EXCEPT !.state = "probe", !.asked = 1])
                 ELSE Stale(@)]
    /\ UNCHANGED <<drl, silent>>

\* Another unicast solicitation.
TimerProbe(n) ==
    /\ nc[n].armed /\ nc[n].state = "probe"
    /\ nc[n].asked < UMaxTries
    /\ nc' = [nc EXCEPT ![n] = SetTimer([nc[n] EXCEPT !.asked = @ + 1])]
    /\ UNCHANGED <<drl, silent>>

\* The neighbor is unreachable.
TimerUnreachable(n) ==
    /\ nc[n].armed /\ nc[n].state = "probe"
    /\ nc[n].asked >= UMaxTries
    /\ NdFree(n, FALSE)

LlinfoTimer(n) ==
    \/ TimerNoState(n) \/ TimerSolicit(n) \/ TimerUnresolved(n) \/ TimerReachable(n)
    \/ TimerStale(n) \/ TimerDelay(n) \/ TimerProbe(n) \/ TimerUnreachable(n)

----------------------------------------------------------------------------
\* nd6_rtdrain: the route cache gives up an entry not in active use.
RtDrain(n) ==
    /\ nc[n].state \in {"nostate", "incomplete", "stale"}
    /\ ~nc[n].static
    /\ NdFree(n, TRUE)

\* nd6_drain: memory is short, all held packets go.
Drain ==
    /\ nc' = [n \in Neighbor |-> [nc[n] EXCEPT !.hold = 0]]
    /\ UNCHANGED <<drl, silent>>

\* nd6_timer: the lifetimes of the routers of S have run out.
RoutersExpire(S) ==
    /\ S # {} /\ S \subseteq Routers(drl)
    /\ drl' = DefrtrlistDelAll(drl, S, Reach(nc))
    /\ UNCHANGED <<nc, silent>>

\* SIOCSNDFLUSH_IN6: the routing table is made to follow the list again.
SyncRouters ==
    /\ Admin
    /\ drl' = DefrouterSelect(DefrouterReset(drl), Reach(nc))
    /\ UNCHANGED <<nc, silent>>

\* SIOCSRTRFLUSH_IN6 (ndp -R): all default routers are deleted.
FlushRouters ==
    /\ Admin
    /\ drl' = DefrouterSelect(
                  DefrtrlistDelAll(DefrouterReset(drl), Routers(drl), Reach(nc)), Reach(nc))
    /\ UNCHANGED <<nc, silent>>

\* ndp -s on a neighbor without an entry: RTM_ADD, no lifetime.
AddStatic(n, ll) ==
    /\ Admin
    /\ nc[n].state = "none"
    /\ nc' = [nc EXCEPT ![n] = [Absent EXCEPT !.state = "reachable", !.lladdr = ll,
                                              !.static = TRUE]]
    /\ UNCHANGED <<drl, silent>>

\* ndp -d: RTM_DELETE, past nd6_free.
DeleteEntry(n) ==
    /\ Admin
    /\ nc[n].state # "none"
    /\ nc' = [nc EXCEPT ![n] = Absent]
    /\ UNCHANGED <<drl, silent>>

\* nd6_purge: the interface is detached.
Purge ==
    /\ Admin
    /\ nc' = [n \in Neighbor |-> Absent]
    /\ drl' = [list |-> <<>>, pref |-> [n \in Neighbor |-> 0], inst |-> {}]
    /\ UNCHANGED silent

\* The neighbor crashes or leaves the link.
FallSilent(n) ==
    /\ n \in Mortal
    /\ silent' = silent \union {n}
    /\ UNCHANGED <<nc, drl>>

----------------------------------------------------------------------------
Hears(n) ==
    \E ll \in OptLLAddr, b1, b2, b3 \in BOOLEAN :
        \/ HeardNs(n, ll, b1)
        \/ HeardRedirect(n, ll, b1, b2)
        \/ \E p \in Prefs : HeardRa(n, b1, p, ll, b2, b3)
        \/ HeardNaIncomplete(n, ll, b1, b2)
        \/ HeardNa(n, ll, b1, b2, b3)

Edits ==
    \/ SyncRouters
    \/ FlushRouters
    \/ \E n \in Neighbor, ll \in LLAddr : AddStatic(n, ll)
    \/ \E n \in Neighbor : DeleteEntry(n)
    \/ Purge

Next ==
    \/ \E n \in Neighbor :
        \/ \E cloned \in BOOLEAN : Output(n, cloned)
        \/ Hears(n)
        \/ NudHint(n)
        \/ LlinfoTimer(n)
        \/ RtDrain(n)
        \/ FallSilent(n)
    \/ \E S \in SUBSET Neighbor : RoutersExpire(S)
    \/ Drain
    \/ Edits

Spec == Init /\ [][Next]_vars

\* A pending callout is eventually run by softclock.
Timers == \A n \in Neighbor : WF_vars(LlinfoTimer(n))

\* The workload: packets for off-link destinations keep coming.
Traffic == WF_vars(\E n \in drl.inst, cloned \in BOOLEAN : Output(n, cloned))

FairSpec == Spec /\ Timers

BusySpec == Spec /\ Timers /\ Traffic

----------------------------------------------------------------------------
TypeOK ==
    /\ nc \in [Neighbor -> Entry]
    /\ drl \in [list : Seq(Neighbor), pref : [Neighbor -> Prefs],
                inst : SUBSET Neighbor]
    /\ silent \subseteq Neighbor

(* No entry is left waiting for a callout nobody armed: while it is being  *)
(* resolved, aged or probed its callout is pending.  Only an unused new    *)
(* entry and a REACHABLE one that is permanent have none.                  *)
NeverStuck ==
    \A n \in Neighbor :
        (\/ nc[n].state \in {"incomplete", "stale", "delay", "probe"}
         \/ nc[n].state = "reachable" /\ nc[n].expire) => nc[n].armed

(* A packet is held only while its neighbor is being solicited, with tries *)
(* left and the callout that will send, retry or return it pending; and    *)
(* never more packets than nd6_maxqueuelen.                                *)
HeldPackets ==
    \A n \in Neighbor :
        /\ nc[n].hold <= MaxQueueLen
        /\ nc[n].hold > 0 => /\ nc[n].state = "incomplete" /\ nc[n].armed
                             /\ nc[n].asked \in 1..MMaxTries

(* nd6_storelladdr, on a packet nd6_output sends to an entry without a     *)
(* link-layer address: "this should be impossible".                        *)
Resolved == \A n \in Neighbor : ProbReach(nc[n]) => nc[n].lladdr # NoLLAddr

(* What defrouter_select assumes and leaves: the list has no router twice  *)
(* and goes down in preference, one of its routers is installed ("more     *)
(* than one router is installed ... should not happen"), and no router     *)
(* that is not in the list.                                                *)
RouterListOK ==
    /\ \A i, j \in DOMAIN drl.list :
           i < j => /\ drl.list[i] # drl.list[j]
                    /\ drl.pref[drl.list[i]] >= drl.pref[drl.list[j]]
    /\ drl.inst \subseteq Routers(drl)
    /\ Cardinality(drl.inst) = IF drl.list = <<>> THEN 0 ELSE 1

(* nd6_free: garbage collection does not take the entry of an active       *)
(* default router, as that "would affect default router selection".        *)
ActiveRouterKept ==
    [][\A n \in Neighbor :
          nc[n].state = "stale" /\ n \in Routers(drl) =>
              nc'[n].state # "none" \/ n \notin Routers(drl')]_vars

(* The selection rule: a router is newly installed only if it is reachable *)
(* or none is, and no reachable one is preferred more.                     *)
SelectsBest ==
    [][\A r \in drl'.inst \ drl.inst :
          \A q \in Routers(drl') \intersect Reach(nc') :
              r \in Reach(nc') /\ drl'.pref[r] >= drl'.pref[q]]_vars

(* A reachable router in use is replaced only when it leaves the list or   *)
(* stops being reachable, or by one that is preferred more.                *)
NoFlap ==
    [][\A r \in drl.inst :
          r \in Reach(nc) \intersect Reach(nc') \intersect Routers(drl') =>
              r \in drl'.inst \/ \A q \in drl'.inst : drl'.pref[q] > drl'.pref[r]]_vars

(* When neighbor discovery gives up the entry of the router in use, the    *)
(* host turns to another router if it knows one.                           *)
DeadRouterReplaced ==
    [][\A r \in drl.inst :
          nc[r].state # "none" /\ nc'[r].state = "none" /\ Len(drl'.list) > 1 =>
              r \notin drl'.inst]_vars

\* Held packets do not wait for ever.
HeldSettles == \A n \in Neighbor : nc[n].hold > 0 ~> nc[n].hold = 0

(* A host does not keep sending through a router that has fallen silent    *)
(* while it knows another one, whatever hints TCP gives: neighbor          *)
(* unreachability detection runs its course and another is selected.       *)
FailsOver ==
    \A r \in Neighbor :
        r \in silent \intersect drl.inst ~> r \notin drl.inst \/ Len(drl.list) = 1

=============================================================================
