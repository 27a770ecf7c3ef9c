-------------------------------- MODULE Dad --------------------------------
(***************************************************************************)
(* Duplicate Address Detection as the KAME kernel runs it on the           *)
(* interface addresses of one or more interfaces: the dadq list of         *)
(* nd6_nbr.c with its callouts, and the code of in6.c, nd6_rtr.c and       *)
(* mip6.c that assigns, re-configures, detaches, re-attaches and purges    *)
(* the addresses it works on.                                              *)
(*                                                                         *)
(* The kernel runs every handler below under splnet/splsoftnet, so one     *)
(* handler is one step.  What interleaves is the order of packets,         *)
(* callouts, ioctls and interface events.                                  *)
(***************************************************************************)
EXTENDS Integers, FiniteSets

CONSTANTS
    Ifa,       \* interface addresses (struct in6_ifaddr) that may be configured
    Ifn,       \* interfaces
    IfOf,      \* IfOf[a]: the interface address a belongs to (ifa_ifp)
    LinkLocal, \* the link-local addresses built from a hardware address
    Anycast,   \* the addresses configured with IN6_IFF_ANYCAST
    Home,      \* a mobile node's home addresses (IN6_IFF_HOME)
    DadCount,  \* ip6_dad_count: DAD probes to send
    MaxTry,    \* dad_maxtry: attempts before DAD is abandoned
    Reconfigurable \* the addresses userland sets again while they exist

ASSUME DadAssumption ==
    /\ IfOf \in [Ifa -> Ifn]
    /\ LinkLocal \subseteq Ifa
    /\ Anycast \subseteq Ifa
    /\ Home \subseteq Ifa \ LinkLocal
    /\ DadCount \in Nat
    /\ MaxTry \in Nat
    /\ Reconfigurable \subseteq Ifa

VARIABLES
    assigned,  \* addresses linked in in6_ifaddr and if_addrlist
    flags,     \* flags[a]: ia6_flags
    dp,        \* dp[a]: the dadq entry of a and its callout
    refs,      \* refs[a]: reference count of the ifaddr
    up,        \* up[i]: IFF_UP
    running,   \* running[i]: IFF_RUNNING
    disabled   \* disabled[i]: ND6_IFF_IFDISABLED

vars == <<assigned, flags, dp, refs, up, running, disabled>>

Flag == {"tentative", "duplicated", "detached", "autoconf"}

\* The flags an ioctl cannot change by hand.
READONLY == {"duplicated", "detached"}

\* struct dadq.  The incoming counters are only ever compared with zero.
Dadq == [queued : BOOLEAN, armed : BOOLEAN, tcount : Nat, ocount : Nat,
         icount : BOOLEAN]

\* No entry for the address, and its callout stopped.
NoDp == [queued |-> FALSE, armed |-> FALSE, tcount |-> 0, ocount |-> 0,
         icount |-> FALSE]

TypeOK ==
    /\ assigned \subseteq Ifa
    /\ flags \in [Ifa -> SUBSET Flag]
    /\ dp \in [Ifa -> Dadq]
    /\ refs \in [Ifa -> Nat]
    /\ up \in [Ifn -> BOOLEAN]
    /\ running \in [Ifn -> BOOLEAN]
    /\ disabled \in [Ifn -> BOOLEAN]

Tentative(a) == "tentative" \in flags[a]
Duplicated(a) == "duplicated" \in flags[a]

\* The node may send from the address and answers for it (not NOTREADY).
Usable(a) == a \in assigned /\ ~Tentative(a) /\ ~Duplicated(a)

----------------------------------------------------------------------------
\* Mutant: an attempt on an interface that is not ready does not count.
DadNsOutputOnlySent(d, isup, isrunning) ==
    IF isup /\ isrunning
    THEN [d EXCEPT !.tcount = @ + 1, !.ocount = @ + 1] ELSE d

(* nd6_dad_ns_output: an attempt always counts, a probe only when the      *)
(* interface is up and running.                                            *)
DadNsOutput(d, isup, isrunning) ==
    [d EXCEPT !.tcount = @ + 1,
              !.ocount = IF isup /\ isrunning THEN @ + 1 ELSE @]

\* A new entry, its callout pending; without a delay the first probe is sent.
NewDp(a, delayed, isup) ==
    LET d == [NoDp EXCEPT !.queued = TRUE, !.armed = TRUE]
    IN  IF a \in delayed THEN d ELSE DadNsOutput(d, isup[IfOf[a]], running[IfOf[a]])

\* Mutant: without the "DAD already in progress" check.
DadStartTwice(f, d, r, isup, calls, delayed, nomem) ==
    LET nodad == {a \in calls : a \in Anycast \/ DadCount = 0}
        new   == {a \in (calls \ nodad) \ nomem :
                     "tentative" \in f[a] /\ isup[IfOf[a]]}
    IN  /\ flags' = [a \in Ifa |->
                        IF a \in nodad THEN f[a] \ {"tentative"} ELSE f[a]]
        /\ dp' = [a \in Ifa |->
                     IF a \in new THEN NewDp(a, delayed, isup) ELSE d[a]]
        /\ refs' = [a \in Ifa |-> IF a \in new THEN r[a] + 1 ELSE r[a]]

(* nd6_dad_start, called on each address of calls, when flags, dadq,       *)
(* reference counts and interface state are f, d, r and isup.  It returns  *)
(* early for an address that is not tentative, needs no DAD, sits on an    *)
(* interface that is down, or is already on dadq; in nomem malloc fails.   *)
DadStart(f, d, r, isup, calls, delayed, nomem) ==
    LET nodad == {a \in calls : a \in Anycast \/ DadCount = 0}
        new   == {a \in (calls \ nodad) \ nomem :
                     "tentative" \in f[a] /\ isup[IfOf[a]] /\ ~d[a].queued}
    IN  /\ flags' = [a \in Ifa |->
                        IF a \in nodad THEN f[a] \ {"tentative"} ELSE f[a]]
        /\ dp' = [a \in Ifa |->
                     IF a \in new THEN NewDp(a, delayed, isup) ELSE d[a]]
        /\ refs' = [a \in Ifa |-> IF a \in new THEN r[a] + 1 ELSE r[a]]

(* pfxlist_onlink_check, its part on addresses: the autoconfigured ones    *)
(* among live, of which those in reachable have a prefix with a probably   *)
(* reachable router.  If there is such an address, the others are          *)
(* detached; if there is none, all are treated as attached.  An address    *)
(* that is attached again is tentative again.                              *)
Attached(f, live, reachable) ==
    LET auto == {a \in live : "autoconf" \in f[a]}
    IN  IF auto \intersect reachable = {} THEN auto ELSE auto \intersect reachable

Reattached(f, live, reachable) ==
    {a \in Attached(f, live, reachable) : "detached" \in f[a]}

CheckedFlags(f, live, reachable) ==
    [a \in Ifa |->
        IF a \in Reattached(f, live, reachable)
        THEN (f[a] \ {"detached"}) \union {"tentative"}
        ELSE IF a \in live \ Attached(f, live, reachable) /\ "autoconf" \in f[a]
        THEN f[a] \union {"detached"}
        ELSE f[a]]

\* A caller that ends with pfxlist_onlink_check, after calling
\* nd6_dad_start on the addresses of calls.
StartAndCheck(f, d, r, live, calls, delayed, reachable, nomem) ==
    DadStart(CheckedFlags(f, live, reachable), d, r, up,
             calls \union Reattached(f, live, reachable), delayed, nomem)

\* Mutant: the reference is released twice.
DadDuplicatedFreesTwice(a) ==
    IF ~dp[a].queued THEN UNCHANGED vars
    ELSE /\ flags' = [flags EXCEPT ![a] = (@ \ {"tentative"}) \union {"duplicated"}]
         /\ dp' = [dp EXCEPT ![a] = NoDp]
         /\ refs' = [refs EXCEPT ![a] = @ - 2]
         /\ disabled' = IF a \in LinkLocal
                        THEN [disabled EXCEPT ![IfOf[a]] = TRUE] ELSE disabled
         /\ UNCHANGED <<assigned, up, running>>

\* nd6_dad_duplicated: without a dadq entry it logs and returns.
DadDuplicated(a) ==
    IF ~dp[a].queued THEN UNCHANGED vars
    ELSE /\ flags' = [flags EXCEPT ![a] = (@ \ {"tentative"}) \union {"duplicated"}]
         /\ dp' = [dp EXCEPT ![a] = NoDp]
         /\ refs' = [refs EXCEPT ![a] = @ - 1]
         /\ disabled' = IF a \in LinkLocal
                        THEN [disabled EXCEPT ![IfOf[a]] = TRUE] ELSE disabled
         /\ UNCHANGED <<assigned, up, running>>

----------------------------------------------------------------------------
Init ==
    /\ assigned = {}
    /\ flags = [a \in Ifa |-> {}]
    /\ dp = [a \in Ifa |-> NoDp]
    /\ refs = [a \in Ifa |-> 0]
    /\ up = [i \in Ifn |-> FALSE]
    /\ running = [i \in Ifn |-> FALSE]
    /\ disabled = [i \in Ifn |-> FALSE]

(* A new address: in6_update_ifa with hostIsNew, from a router             *)
(* advertisement (auto) or from SIOCAIFADDR_IN6, which may say nodad: with *)
(* IN6_IFF_NODAD the address is tentative all the same, but DAD is not     *)
(* started.  Advertised link-local prefixes are ignored.                   *)
AssignAddr(a, auto, nodad, delayed, reachable, nomem) ==
    LET f == [flags EXCEPT ![a] =
                 {"tentative"} \union (IF auto THEN {"autoconf"} ELSE {})]
    IN  /\ a \notin assigned \union Home
        /\ auto => ~nodad /\ a \notin LinkLocal
        /\ assigned' = assigned \union {a}
        /\ StartAndCheck(f, dp, [refs EXCEPT ![a] = 1], assigned',
                         IF nodad THEN {} ELSE {a}, IF delayed THEN {a} ELSE {},
                         reachable, nomem)
        /\ UNCHANGED <<up, running, disabled>>

\* A home address is never tentative, and the ioctl stops before the check.
AssignHome(a) ==
    /\ a \in Home \ assigned
    /\ assigned' = assigned \union {a}
    /\ flags' = [flags EXCEPT ![a] = {}]
    /\ refs' = [refs EXCEPT ![a] = 1]
    /\ UNCHANGED <<dp, up, running, disabled>>

(* SIOCAIFADDR_IN6 on an existing address: in6_control adds the old        *)
(* read-only flags to the caller's, in6_update_ifa stores them, clears     *)
(* DUPLICATED and returns; the on-link check follows.                      *)
Reconfigure(a, auto, reachable, nomem) ==
    LET f == [flags EXCEPT ![a] = (((@ \intersect READONLY) \ {"duplicated"})
                         \union (IF auto THEN {"autoconf"} ELSE {}))]
    IN  /\ a \in assigned
        /\ StartAndCheck(f, dp, refs, assigned, {}, {}, reachable, nomem)
        /\ UNCHANGED <<assigned, up, running, disabled>>

\* Mutant: DAD is stopped only for an address that is still tentative.
PurgeAddrStopsTentative(a, reachable, nomem) ==
    LET stop == dp[a].queued /\ Tentative(a)
        d == IF stop THEN [dp EXCEPT ![a] = NoDp] ELSE dp
        f == [flags EXCEPT ![a] = {}]
        r == [refs EXCEPT ![a] = @ - 1 - (IF stop THEN 1 ELSE 0)]
    IN  /\ a \in assigned
        /\ assigned' = assigned \ {a}
        /\ IF "autoconf" \in flags[a]
           THEN StartAndCheck(f, d, r, assigned', {}, {}, reachable, nomem)
           ELSE flags' = f /\ dp' = d /\ refs' = r
        /\ UNCHANGED <<up, running, disabled>>

(* in6_purgeaddr: nd6_dad_stop, then in6_unlink_ifa, which drops the       *)
(* list's reference and runs the on-link check for an autoconfigured       *)
(* address.                                                                *)
PurgeAddr(a, reachable, nomem) ==
    LET d == [dp EXCEPT ![a] = NoDp]
        f == [flags EXCEPT ![a] = {}]
        r == [refs EXCEPT ![a] = @ - 1 - (IF dp[a].queued THEN 1 ELSE 0)]
    IN  /\ a \in assigned
        /\ assigned' = assigned \ {a}
        /\ IF "autoconf" \in flags[a]
           THEN StartAndCheck(f, d, r, assigned', {}, {}, reachable, nomem)
           ELSE flags' = f /\ dp' = d /\ refs' = r
        /\ UNCHANGED <<up, running, disabled>>

\* pfxlist_onlink_check called when a router or prefix appears, expires or
\* changes reachability.
OnlinkCheck(reachable, nomem) ==
    /\ StartAndCheck(flags, dp, refs, assigned, {}, {}, reachable, nomem)
    /\ UNCHANGED <<assigned, up, running, disabled>>

(* in6_if_up: DAD on every tentative address of the interface, each after  *)
(* a random delay that may be zero, then in6_ifattach, which may assign    *)
(* the missing link-local address.                                         *)
IfUp(i, attach, delayed, nomem) ==
    LET mine == {a \in assigned : IfOf[a] = i /\ Tentative(a)}
    IN  /\ ~up[i]
        /\ \A a \in attach : a \in LinkLocal \ assigned /\ IfOf[a] = i
        /\ up' = [up EXCEPT ![i] = TRUE]
        /\ assigned' = assigned \union attach
        /\ DadStart([a \in Ifa |-> IF a \in attach THEN {"tentative"} ELSE flags[a]],
                    dp,
                    [a \in Ifa |-> IF a \in attach THEN 1 ELSE refs[a]],
                    up', mine \union attach, delayed, nomem)
        /\ UNCHANGED <<running, disabled>>

\* The interface goes down; netinet6 has no handler, so callouts stay armed.
IfDown(i) ==
    /\ up[i]
    /\ up' = [up EXCEPT ![i] = FALSE]
    /\ running' = [running EXCEPT ![i] = FALSE]
    /\ UNCHANGED <<assigned, flags, dp, refs, disabled>>

\* The driver raises or drops IFF_RUNNING.
DriverReady(i, b) ==
    /\ up[i]
    /\ running[i] # b
    /\ running' = [running EXCEPT ![i] = b]
    /\ UNCHANGED <<assigned, flags, dp, refs, up, disabled>>

\* SIOCSIFINFO_FLAGS: ndp(8) sets or clears "disabled" by hand.
SetDisabled(i, b) ==
    /\ disabled[i] # b
    /\ disabled' = [disabled EXCEPT ![i] = b]
    /\ UNCHANGED <<assigned, flags, dp, refs, up, running>>

(* mip6_do_dad_lladdr: a mobile node runs DAD again on its link-local      *)
(* address, unless DAD is in progress.                                     *)
DadLladdr(a, nomem) ==
    /\ a \in assigned \intersect LinkLocal
    /\ ~dp[a].queued
    /\ DadStart([flags EXCEPT ![a] = @ \union {"tentative"}], dp, refs, up,
                {a}, {}, nomem)
    /\ UNCHANGED <<assigned, up, running, disabled>>

----------------------------------------------------------------------------
(* nd6_dad_timer, one action per way out of it.                            *)

\* The sanity checks: log and return, leaving the entry without a callout.
TimerSanity(a) ==
    /\ dp[a].armed
    /\ Duplicated(a) \/ ~Tentative(a)
    /\ dp' = [dp EXCEPT ![a].armed = FALSE]
    /\ UNCHANGED <<assigned, flags, refs, up, running, disabled>>

\* Too many attempts: the entry goes, the address stays tentative.
TimerGiveUp(a) ==
    /\ dp[a].armed
    /\ Tentative(a) /\ ~Duplicated(a)
    /\ dp[a].tcount > MaxTry
    /\ dp' = [dp EXCEPT ![a] = NoDp]
    /\ refs' = [refs EXCEPT ![a] = @ - 1]
    /\ UNCHANGED <<assigned, flags, up, running, disabled>>

\* Mutant: the callout is not armed again after a probe.
TimerProbeOnce(a) ==
    /\ dp[a].armed
    /\ Tentative(a) /\ ~Duplicated(a)
    /\ dp[a].tcount <= MaxTry
    /\ dp[a].ocount < DadCount
    /\ dp' = [dp EXCEPT ![a] = [DadNsOutput(@, up[IfOf[a]], running[IfOf[a]])
                               EXCEPT !.armed = FALSE]]
    /\ UNCHANGED <<assigned, flags, refs, up, running, disabled>>

\* More probes to send.
TimerProbe(a) ==
    /\ dp[a].armed
    /\ Tentative(a) /\ ~Duplicated(a)
    /\ dp[a].tcount <= MaxTry
    /\ dp[a].ocount < DadCount
    /\ dp' = [dp EXCEPT ![a] = DadNsOutput(@, up[IfOf[a]], running[IfOf[a]])]
    /\ UNCHANGED <<assigned, flags, refs, up, running, disabled>>

\* Mutant: the solicitations heard are not looked at.
TimerConcludeBlind(a) ==
    /\ dp[a].armed
    /\ Tentative(a) /\ ~Duplicated(a)
    /\ dp[a].tcount <= MaxTry
    /\ dp[a].ocount >= DadCount
    /\ flags' = [flags EXCEPT ![a] = @ \ {"tentative"}]
    /\ dp' = [dp EXCEPT ![a] = NoDp]
    /\ refs' = [refs EXCEPT ![a] = @ - 1]
    /\ UNCHANGED <<assigned, up, running, disabled>>

\* Mutant: concludes one probe early.
TimerConcludeEarly(a) ==
    /\ dp[a].armed
    /\ Tentative(a) /\ ~Duplicated(a)
    /\ dp[a].tcount <= MaxTry
    /\ dp[a].ocount >= DadCount - 1
    /\ IF dp[a].icount THEN DadDuplicated(a)
       ELSE /\ flags' = [flags EXCEPT ![a] = @ \ {"tentative"}]
            /\ dp' = [dp EXCEPT ![a] = NoDp]
            /\ refs' = [refs EXCEPT ![a] = @ - 1]
            /\ UNCHANGED <<assigned, up, running, disabled>>

\* All probes sent: the address is a duplicate if one came in, ours if not.
TimerConclude(a) ==
    /\ dp[a].armed
    /\ Tentative(a) /\ ~Duplicated(a)
    /\ dp[a].tcount <= MaxTry
    /\ dp[a].ocount >= DadCount
    /\ IF dp[a].icount THEN DadDuplicated(a)
       ELSE /\ flags' = [flags EXCEPT ![a] = @ \ {"tentative"}]
            /\ dp' = [dp EXCEPT ![a] = NoDp]
            /\ refs' = [refs EXCEPT ![a] = @ - 1]
            /\ UNCHANGED <<assigned, up, running, disabled>>

DadTimer(a) ==
    TimerSanity(a) \/ TimerGiveUp(a) \/ TimerProbe(a) \/ TimerConclude(a)

----------------------------------------------------------------------------
\* ip6_input takes a packet from the interface (drivers deliver only when up).
Receives(i) == up[i] /\ running[i] /\ ~disabled[i]

(* nd6_ns_input for a solicitation from the unspecified address whose      *)
(* target is tentative, then nd6_dad_ns_input: before our first probe (or  *)
(* without a dadq entry) the other node wins at once.                      *)
DadNsInput(a) ==
    /\ a \in assigned
    /\ Receives(IfOf[a])
    /\ Tentative(a) /\ ~Duplicated(a)
    /\ IF ~dp[a].queued \/ dp[a].ocount = 0 THEN DadDuplicated(a)
       ELSE /\ dp' = [dp EXCEPT ![a].icount = TRUE]
            /\ UNCHANGED <<assigned, flags, refs, up, running, disabled>>

\* nd6_na_input for a tentative target, then nd6_dad_na_input.
DadNaInput(a) ==
    /\ a \in assigned
    /\ Receives(IfOf[a])
    /\ Tentative(a)
    /\ DadDuplicated(a)

----------------------------------------------------------------------------
Configure ==
    \E nomem, reachable \in SUBSET Ifa :
        \/ \E a \in Ifa, auto, nodad, delayed \in BOOLEAN :
               AssignAddr(a, auto, nodad, delayed, reachable, nomem)
        \/ \E a \in Reconfigurable, auto \in BOOLEAN :
               Reconfigure(a, auto, reachable, nomem)
        \/ \E a \in Ifa : PurgeAddr(a, reachable, nomem)
        \/ OnlinkCheck(reachable, nomem)

Interface ==
    \E i \in Ifn :
        \/ \E attach, delayed, nomem \in SUBSET Ifa : IfUp(i, attach, delayed, nomem)
        \/ IfDown(i)
        \/ \E b \in BOOLEAN : DriverReady(i, b)
        \/ \E b \in BOOLEAN : SetDisabled(i, b)

Mobile == \E a \in Ifa, nomem \in SUBSET Ifa : DadLladdr(a, nomem)

Next ==
    \/ Configure
    \/ \E a \in Ifa : AssignHome(a)
    \/ Interface
    \/ Mobile
    \/ \E a \in Ifa : DadTimer(a)
    \/ \E a \in Ifa : DadNsInput(a)
    \/ \E a \in Ifa : DadNaInput(a)

\* A pending callout is eventually run by softclock.
Fairness == \A a \in Ifa : WF_vars(DadTimer(a))

Spec == Init /\ [][Next]_vars

FairSpec == Spec /\ Fairness

----------------------------------------------------------------------------
(* Every ifaddr is counted once for the lists and once for its dadq entry. *)
(* A missing IFAFREE leaks it; one too many frees it while linked.         *)
RefsBalanced ==
    \A a \in Ifa : refs[a] = (IF a \in assigned THEN 1 ELSE 0)
                           + (IF dp[a].queued THEN 1 ELSE 0)

(* The callout carries the ifaddr as its argument: it may be pending only  *)
(* while the address is linked and its dadq entry exists.                  *)
NoDanglingTimer == \A a \in Ifa : dp[a].armed => dp[a].queued /\ a \in assigned

(* What "DAD already in progress" in nd6_dad_start takes for granted: an   *)
(* entry on dadq for a tentative address that is no duplicate still has    *)
(* its callout, so that the address is decided some day.                   *)
DadInProgress ==
    \A a \in Ifa : dp[a].queued /\ Tentative(a) /\ ~Duplicated(a) => dp[a].armed

\* Every callout chain of nd6_dad_timer comes to an end.
DadSettles == \A a \in Ifa : dp[a].armed ~> ~dp[a].armed

----------------------------------------------------------------------------
(* The addresses live the life AddressLife promises, as long as userland   *)
(* does not set an existing address again.  Only the dadq entry of a       *)
(* tentative address is visible there.                                     *)
LifeState ==
    [a \in Ifa |-> IF a \notin assigned THEN "none"
                   ELSE IF Duplicated(a) THEN "duplicated"
                   ELSE IF Tentative(a) THEN "tentative" ELSE "valid"]

UnderDad(a) == LifeState[a] = "tentative" /\ dp[a].queued

\* The addresses that need no DAD; with ip6_dad_count 0 none does.
Unchecked == {a \in Ifa : a \in Anycast \union Home \/ DadCount = 0}

Life == INSTANCE AddressLife WITH
    Addr <- Ifa, Exempt <- Unchecked, Probes <- DadCount,
    st <- LifeState,
    sent <- [a \in Ifa |-> IF UnderDad(a) THEN dp[a].ocount ELSE 0],
    claimed <- [a \in Ifa |-> UnderDad(a) /\ dp[a].icount]

LifeSpec == Life!Spec

=============================================================================
