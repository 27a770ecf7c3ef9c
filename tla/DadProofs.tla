----------------------------- MODULE DadProofs -----------------------------
(***************************************************************************)
(* Theorems about module Dad for any set of addresses and interfaces, any  *)
(* ip6_dad_count and any dad_maxtry; and about DadLink: DAD keeps an       *)
(* address unique on a link with any number of nodes, if ip6_dad_count is  *)
(* larger than the number of packets the link loses.                       *)
(***************************************************************************)
EXTENDS DadLink, TLAPS

----------------------------------------------------------------------------
(* The inductive invariant: what TypeOK, RefsBalanced and NoDanglingTimer  *)
(* need to be preserved.  An entry on dadq is for a linked address that    *)
(* needs DAD, and a callout belongs to an entry.                           *)
Linked == \A a \in Ifa :
    /\ dp[a].armed => dp[a].queued
    /\ dp[a].queued => a \in assigned

IInv == TypeOK /\ RefsBalanced /\ Linked

LEMMA NsOutputType ==
    ASSUME NEW d \in Dadq, NEW isup \in BOOLEAN, NEW isrunning \in BOOLEAN
    PROVE  /\ DadNsOutput(d, isup, isrunning) \in Dadq
           /\ DadNsOutput(d, isup, isrunning).queued = d.queued
           /\ DadNsOutput(d, isup, isrunning).armed = d.armed
<1> DEFINE n == IF isup /\ isrunning THEN d.ocount + 1 ELSE d.ocount
<1>1. n \in Nat /\ d.tcount + 1 \in Nat
  BY DEF Dadq
<1>2. DadNsOutput(d, isup, isrunning) = [d EXCEPT !.tcount = @ + 1, !.ocount = n]
  BY DEF DadNsOutput
<1> HIDE DEF n
<1> QED
  BY <1>1, <1>2 DEF Dadq

LEMMA NoDpType == NoDp \in Dadq /\ ~NoDp.queued /\ ~NoDp.armed
BY DEF NoDp, Dadq

LEMMA NewDpType ==
    ASSUME DadAssumption, running \in [Ifn -> BOOLEAN],
           NEW a \in Ifa, NEW delayed, NEW isup \in [Ifn -> BOOLEAN]
    PROVE  /\ NewDp(a, delayed, isup) \in Dadq
           /\ NewDp(a, delayed, isup).queued
           /\ NewDp(a, delayed, isup).armed
<1> DEFINE d == [NoDp EXCEPT !.queued = TRUE, !.armed = TRUE]
<1>1. d \in Dadq /\ d.queued /\ d.armed
  BY DEF NoDp, Dadq
<1>2. isup[IfOf[a]] \in BOOLEAN /\ running[IfOf[a]] \in BOOLEAN
  BY DEF DadAssumption
<1>3. NewDp(a, delayed, isup) =
        IF a \in delayed THEN d ELSE DadNsOutput(d, isup[IfOf[a]], running[IfOf[a]])
  BY DEF NewDp
<1> HIDE DEF d
<1> QED
  BY <1>1, <1>2, <1>3, NsOutputType

(* nd6_dad_start keeps references and list entries in step: it adds one    *)
(* reference for each entry it adds, on addresses that are linked.         *)
LEMMA DadStartKeeps ==
    ASSUME DadAssumption,
           NEW f \in [Ifa -> SUBSET Flag], NEW d \in [Ifa -> Dadq],
           NEW r \in [Ifa -> Nat], NEW isup \in [Ifn -> BOOLEAN],
           running \in [Ifn -> BOOLEAN], NEW live \in SUBSET Ifa,
           NEW calls \in SUBSET live, NEW delayed, NEW nomem,
           \A a \in Ifa : d[a].armed => d[a].queued,
           \A a \in Ifa : d[a].queued => a \in live,
           \A a \in Ifa : r[a] = (IF a \in live THEN 1 ELSE 0)
                               + (IF d[a].queued THEN 1 ELSE 0),
           DadStart(f, d, r, isup, calls, delayed, nomem),
           assigned' = live
    PROVE  /\ flags' \in [Ifa -> SUBSET Flag]
           /\ dp' \in [Ifa -> Dadq]
           /\ refs' \in [Ifa -> Nat]
           /\ RefsBalanced'
           /\ Linked'
<1> DEFINE nodad == {a \in calls : a \in Anycast \/ DadCount = 0}
           new == {a \in (calls \ nodad) \ nomem :
                     "tentative" \in f[a] /\ isup[IfOf[a]] /\ ~d[a].queued}
<1>1. /\ flags' = [a \in Ifa |->
                      IF a \in nodad THEN f[a] \ {"tentative"} ELSE f[a]]
      /\ dp' = [a \in Ifa |->
                   IF a \in new THEN NewDp(a, delayed, isup) ELSE d[a]]
      /\ refs' = [a \in Ifa |-> IF a \in new THEN r[a] + 1 ELSE r[a]]
  BY DEF DadStart
<1>2. new \subseteq live /\ \A a \in new : ~d[a].queued
  OBVIOUS
<1>0. \A a \in Ifa : /\ NewDp(a, delayed, isup) \in Dadq
                     /\ NewDp(a, delayed, isup).queued
                     /\ NewDp(a, delayed, isup).armed
  BY NewDpType
<1> HIDE DEF nodad, new
<1>3. flags' \in [Ifa -> SUBSET Flag]
  BY <1>1
<1>4. dp' \in [Ifa -> Dadq]
  BY <1>0, <1>1
<1>5. refs' \in [Ifa -> Nat]
  BY <1>1
<1>6. \A a \in Ifa : /\ a \in new => dp'[a].queued /\ dp'[a].armed
                     /\ a \notin new => dp'[a] = d[a]
  BY <1>0, <1>1
<1>7. Linked'
  BY <1>2, <1>6 DEF Linked
<1>8. RefsBalanced'
  BY <1>1, <1>2, <1>6 DEF RefsBalanced
<1> QED
  BY <1>3, <1>4, <1>5, <1>7, <1>8

LEMMA CheckedFlagsType ==
    ASSUME NEW f \in [Ifa -> SUBSET Flag], NEW live \in SUBSET Ifa, NEW reachable
    PROVE  /\ CheckedFlags(f, live, reachable) \in [Ifa -> SUBSET Flag]
           /\ Reattached(f, live, reachable) \subseteq live
<1>1. Reattached(f, live, reachable) \subseteq live
  BY DEF Reattached, Attached
<1>2. CheckedFlags(f, live, reachable) \in [Ifa -> SUBSET Flag]
  BY DEF CheckedFlags, Flag
<1> QED
  BY <1>1, <1>2

(* Every handler that ends with the on-link check is an instance of the    *)
(* two lemmas above.                                                       *)
LEMMA StartAndCheckKeeps ==
    ASSUME DadAssumption,
           NEW f \in [Ifa -> SUBSET Flag], NEW d \in [Ifa -> Dadq],
           NEW r \in [Ifa -> Nat], up \in [Ifn -> BOOLEAN],
           running \in [Ifn -> BOOLEAN], NEW live \in SUBSET Ifa,
           NEW calls \in SUBSET live, NEW delayed, NEW reachable, NEW nomem,
           \A a \in Ifa : d[a].armed => d[a].queued,
           \A a \in Ifa : d[a].queued => a \in live,
           \A a \in Ifa : r[a] = (IF a \in live THEN 1 ELSE 0)
                               + (IF d[a].queued THEN 1 ELSE 0),
           StartAndCheck(f, d, r, live, calls, delayed, reachable, nomem),
           assigned' = live
    PROVE  /\ flags' \in [Ifa -> SUBSET Flag]
           /\ dp' \in [Ifa -> Dadq]
           /\ refs' \in [Ifa -> Nat]
           /\ RefsBalanced'
           /\ Linked'
<1>1. CheckedFlags(f, live, reachable) \in [Ifa -> SUBSET Flag]
  BY CheckedFlagsType
<1>2. calls \union Reattached(f, live, reachable) \in SUBSET live
  BY CheckedFlagsType
<1>3. DadStart(CheckedFlags(f, live, reachable), d, r, up,
               calls \union Reattached(f, live, reachable), delayed, nomem)
  BY DEF StartAndCheck
<1> QED
  BY <1>1, <1>2, <1>3, DadStartKeeps

\* Taking the entry of one linked address off dadq with its reference.
LEMMA ReleaseKeeps ==
    ASSUME IInv, NEW a \in Ifa, dp[a].queued,
           dp' = [dp EXCEPT ![a] = NoDp], refs' = [refs EXCEPT ![a] = @ - 1],
           UNCHANGED assigned
    PROVE  dp' \in [Ifa -> Dadq] /\ refs' \in [Ifa -> Nat] /\ RefsBalanced' /\ Linked'
<1>1. dp' \in [Ifa -> Dadq]
  BY NoDpType DEF IInv, TypeOK
<1>2. \A b \in Ifa : /\ b = a => ~dp'[b].queued /\ ~dp'[b].armed
                     /\ b # a => dp'[b] = dp[b]
  BY NoDpType DEF IInv, TypeOK
<1>3. a \in assigned /\ refs[a] = 2
  BY DEF IInv, Linked, RefsBalanced
<1>4. refs' \in [Ifa -> Nat]
  BY <1>3 DEF IInv, TypeOK
<1>5. refs'[a] = 1 /\ \A b \in Ifa : b # a => refs'[b] = refs[b]
  BY <1>3 DEF IInv, TypeOK
<1>6. Linked'
  BY <1>2 DEF IInv, Linked
<1>7. RefsBalanced'
  BY <1>2, <1>3, <1>5 DEF IInv, RefsBalanced
<1> QED
  BY <1>1, <1>4, <1>6, <1>7

LEMMA DuplicatedKeeps ==
    ASSUME DadAssumption, IInv, NEW a \in Ifa, DadDuplicated(a)
    PROVE  IInv'
<1>1. CASE ~dp[a].queued
  BY <1>1 DEF DadDuplicated, IInv, TypeOK, RefsBalanced, Linked, vars
<1>2. CASE dp[a].queued
  <2>1. /\ flags' = [flags EXCEPT ![a] = (@ \ {"tentative"}) \union {"duplicated"}]
        /\ dp' = [dp EXCEPT ![a] = NoDp]
        /\ refs' = [refs EXCEPT ![a] = @ - 1]
        /\ disabled' = IF a \in LinkLocal
                       THEN [disabled EXCEPT ![IfOf[a]] = TRUE] ELSE disabled
        /\ UNCHANGED <<assigned, up, running>>
    BY <1>2 DEF DadDuplicated
  <2>2. flags' \in [Ifa -> SUBSET Flag]
    BY <2>1 DEF IInv, TypeOK, Flag
  <2>3. disabled' \in [Ifn -> BOOLEAN]
    BY <2>1 DEF IInv, TypeOK
  <2>4. dp' \in [Ifa -> Dadq] /\ refs' \in [Ifa -> Nat] /\ RefsBalanced' /\ Linked'
    BY <1>2, <2>1, ReleaseKeeps
  <2> QED
    BY <2>1, <2>2, <2>3, <2>4 DEF IInv, TypeOK
<1> QED
  BY <1>1, <1>2

\* The callout, whichever way nd6_dad_timer takes.
LEMMA TimerKeeps ==
    ASSUME DadAssumption, IInv, NEW a \in Ifa, DadTimer(a)
    PROVE  IInv'
<1>0. dp \in [Ifa -> Dadq] /\ dp[a] \in Dadq /\ dp[a].armed /\ dp[a].queued
  BY DEF DadTimer, TimerSanity, TimerGiveUp, TimerProbe, TimerConclude,
         IInv, TypeOK, Linked
<1>1. CASE TimerSanity(a)
  <2>1. dp' = [dp EXCEPT ![a] = [@ EXCEPT !.armed = FALSE]]
        /\ UNCHANGED <<assigned, flags, refs, up, running, disabled>>
    BY <1>1 DEF TimerSanity
  <2>2. [dp[a] EXCEPT !.armed = FALSE] \in Dadq
    BY <1>0 DEF Dadq
  <2>3. dp' \in [Ifa -> Dadq]
    BY <1>0, <2>1, <2>2
  <2>4. \A b \in Ifa : /\ dp'[b].queued = dp[b].queued
                       /\ dp'[b].armed => dp[b].armed
    BY <1>0, <2>1 DEF Dadq
  <2> QED
    BY <2>1, <2>3, <2>4 DEF IInv, TypeOK, RefsBalanced, Linked
<1>2. CASE TimerGiveUp(a)
  <2>1. dp' \in [Ifa -> Dadq] /\ refs' \in [Ifa -> Nat] /\ RefsBalanced' /\ Linked'
    BY <1>0, <1>2, ReleaseKeeps DEF TimerGiveUp
  <2> QED
    BY <1>2, <2>1 DEF TimerGiveUp, IInv, TypeOK
<1>3. CASE TimerProbe(a)
  <2> DEFINE d == DadNsOutput(dp[a], up[IfOf[a]], running[IfOf[a]])
  <2>1. dp' = [dp EXCEPT ![a] = d]
        /\ UNCHANGED <<assigned, flags, refs, up, running, disabled>>
    BY <1>3 DEF TimerProbe
  <2>2. up[IfOf[a]] \in BOOLEAN /\ running[IfOf[a]] \in BOOLEAN
    BY DEF DadAssumption, IInv, TypeOK
  <2>3. d \in Dadq /\ d.queued = dp[a].queued /\ d.armed = dp[a].armed
    BY <1>0, <2>2, NsOutputType
  <2> HIDE DEF d
  <2>4. dp' \in [Ifa -> Dadq]
    BY <1>0, <2>1, <2>3
  <2>5. \A b \in Ifa : dp'[b].queued = dp[b].queued /\ dp'[b].armed = dp[b].armed
    BY <1>0, <2>1, <2>3
  <2> QED
    BY <2>1, <2>4, <2>5 DEF IInv, TypeOK, RefsBalanced, Linked
<1>4. CASE TimerConclude(a)
  <2>1. CASE dp[a].icount
    BY <1>4, <2>1, DuplicatedKeeps DEF TimerConclude
  <2>2. CASE ~dp[a].icount
    <3>1. /\ flags' = [flags EXCEPT ![a] = @ \ {"tentative"}]
          /\ dp' = [dp EXCEPT ![a] = NoDp]
          /\ refs' = [refs EXCEPT ![a] = @ - 1]
          /\ UNCHANGED <<assigned, up, running, disabled>>
      BY <1>4, <2>2 DEF TimerConclude
    <3>2. flags' \in [Ifa -> SUBSET Flag]
      BY <3>1 DEF IInv, TypeOK
    <3>3. dp' \in [Ifa -> Dadq] /\ refs' \in [Ifa -> Nat] /\ RefsBalanced' /\ Linked'
      BY <1>0, <3>1, ReleaseKeeps
    <3> QED
      BY <3>1, <3>2, <3>3 DEF IInv, TypeOK
  <2> QED
    BY <2>1, <2>2
<1> QED
  BY <1>1, <1>2, <1>3, <1>4 DEF DadTimer

----------------------------------------------------------------------------
\* One step per action of Next.
LEMMA IInvStep == ASSUME DadAssumption, IInv, [Next]_vars PROVE IInv'
<1>0. /\ flags \in [Ifa -> SUBSET Flag] /\ dp \in [Ifa -> Dadq]
      /\ refs \in [Ifa -> Nat] /\ assigned \in SUBSET Ifa
      /\ up \in [Ifn -> BOOLEAN] /\ running \in [Ifn -> BOOLEAN]
      /\ disabled \in [Ifn -> BOOLEAN]
      /\ RefsBalanced /\ Linked
  BY DEF IInv, TypeOK
<1>1. ASSUME NEW a \in Ifa, NEW auto \in BOOLEAN, NEW nodad \in BOOLEAN,
             NEW delayed \in BOOLEAN, NEW reachable, NEW nomem,
             AssignAddr(a, auto, nodad, delayed, reachable, nomem)
      PROVE  IInv'
  <2> DEFINE f == [flags EXCEPT ![a] =
                      {"tentative"} \union (IF auto THEN {"autoconf"} ELSE {})]
             r == [refs EXCEPT ![a] = 1]
             calls == IF nodad THEN {} ELSE {a}
             late == IF delayed THEN {a} ELSE {}
  <2>1. /\ a \notin assigned /\ assigned' = assigned \union {a}
        /\ StartAndCheck(f, dp, r, assigned', calls, late, reachable, nomem)
        /\ UNCHANGED <<up, running, disabled>>
    BY <1>1 DEF AssignAddr
  <2>2. f \in [Ifa -> SUBSET Flag] /\ r \in [Ifa -> Nat]
    BY <1>0 DEF Flag
  <2>3. assigned' \in SUBSET Ifa /\ calls \in SUBSET assigned'
    BY <1>0, <2>1
  <2>4. /\ \A b \in Ifa : dp[b].armed => dp[b].queued
        /\ \A b \in Ifa : dp[b].queued => b \in assigned'
        /\ \A b \in Ifa : r[b] = (IF b \in assigned' THEN 1 ELSE 0)
                               + (IF dp[b].queued THEN 1 ELSE 0)
    BY <1>0, <2>1 DEF Linked, RefsBalanced
  <2> HIDE DEF f, r, calls, late
  <2>5. /\ flags' \in [Ifa -> SUBSET Flag] /\ dp' \in [Ifa -> Dadq]
        /\ refs' \in [Ifa -> Nat] /\ RefsBalanced' /\ Linked'
    BY <1>0, <2>1, <2>2, <2>3, <2>4, StartAndCheckKeeps
  <2> QED
    BY <1>0, <2>1, <2>3, <2>5 DEF IInv, TypeOK
<1>2. ASSUME NEW a \in Ifa, AssignHome(a) PROVE IInv'
  BY <1>0, <1>2 DEF AssignHome, IInv, TypeOK, RefsBalanced, Linked, Flag
<1>3. ASSUME NEW a \in Ifa, NEW auto \in BOOLEAN, NEW reachable, NEW nomem,
             Reconfigure(a, auto, reachable, nomem)
      PROVE  IInv'
  <2> DEFINE f == [flags EXCEPT ![a] = (((@ \intersect READONLY) \ {"duplicated"})
                      \union (IF auto THEN {"autoconf"} ELSE {}))]
  <2>1. /\ StartAndCheck(f, dp, refs, assigned, {}, {}, reachable, nomem)
        /\ UNCHANGED <<assigned, up, running, disabled>>
    BY <1>3 DEF Reconfigure
  <2>2. f \in [Ifa -> SUBSET Flag]
    BY <1>0 DEF Flag
  <2> HIDE DEF f
  <2>3. /\ flags' \in [Ifa -> SUBSET Flag] /\ dp' \in [Ifa -> Dadq]
        /\ refs' \in [Ifa -> Nat] /\ RefsBalanced' /\ Linked'
    BY <1>0, <2>1, <2>2, StartAndCheckKeeps DEF Linked, RefsBalanced
  <2> QED
    BY <1>0, <2>1, <2>3 DEF IInv, TypeOK
<1>4. ASSUME NEW a \in Ifa, NEW reachable, NEW nomem,
             PurgeAddr(a, reachable, nomem)
      PROVE  IInv'
  <2> DEFINE f == [flags EXCEPT ![a] = {}]
             d == [dp EXCEPT ![a] = NoDp]
             r == [refs EXCEPT ![a] = @ - 1 - (IF dp[a].queued THEN 1 ELSE 0)]
             live == assigned \ {a}
  <2>1. /\ a \in assigned /\ assigned' = live
        /\ IF "autoconf" \in flags[a]
           THEN StartAndCheck(f, d, r, live, {}, {}, reachable, nomem)
           ELSE flags' = f /\ dp' = d /\ refs' = r
        /\ UNCHANGED <<up, running, disabled>>
    BY <1>4 DEF PurgeAddr
  <2>2. f \in [Ifa -> SUBSET Flag] /\ d \in [Ifa -> Dadq]
    BY <1>0, NoDpType
  <2>3. refs[a] = 1 + (IF dp[a].queued THEN 1 ELSE 0)
    BY <1>0, <2>1 DEF RefsBalanced
  <2>4. r \in [Ifa -> Nat] /\ r[a] = 0 /\ \A b \in Ifa : b # a => r[b] = refs[b]
    BY <1>0, <2>3
  <2>5. \A b \in Ifa : /\ b = a => ~d[b].queued /\ ~d[b].armed
                       /\ b # a => d[b] = dp[b]
    BY <1>0, NoDpType
  <2>6. live \in SUBSET Ifa /\ a \notin live /\ \A b \in Ifa : b # a =>
                                                   (b \in live <=> b \in assigned)
    BY <1>0
  <2> HIDE DEF f, d, r, live
  <2>7. /\ \A b \in Ifa : d[b].armed => d[b].queued
        /\ \A b \in Ifa : d[b].queued => b \in live
        /\ \A b \in Ifa : r[b] = (IF b \in live THEN 1 ELSE 0)
                               + (IF d[b].queued THEN 1 ELSE 0)
    BY <1>0, <2>4, <2>5, <2>6 DEF Linked, RefsBalanced
  <2>8. /\ flags' \in [Ifa -> SUBSET Flag] /\ dp' \in [Ifa -> Dadq]
        /\ refs' \in [Ifa -> Nat] /\ RefsBalanced' /\ Linked'
    <3>1. CASE "autoconf" \in flags[a]
      BY <1>0, <2>1, <2>2, <2>4, <2>6, <2>7, <3>1, StartAndCheckKeeps
    <3>2. CASE "autoconf" \notin flags[a]
      BY <2>1, <2>2, <2>4, <2>7, <3>2 DEF Linked, RefsBalanced
    <3> QED
      BY <3>1, <3>2
  <2> QED
    BY <1>0, <2>1, <2>6, <2>8 DEF IInv, TypeOK
<1>5. ASSUME NEW reachable, NEW nomem, OnlinkCheck(reachable, nomem) PROVE IInv'
  <2>1. /\ flags' \in [Ifa -> SUBSET Flag] /\ dp' \in [Ifa -> Dadq]
        /\ refs' \in [Ifa -> Nat] /\ RefsBalanced' /\ Linked'
    BY <1>0, <1>5, StartAndCheckKeeps DEF OnlinkCheck, Linked, RefsBalanced
  <2> QED
    BY <1>0, <1>5, <2>1 DEF OnlinkCheck, IInv, TypeOK
<1>6. ASSUME NEW i \in Ifn, NEW attach \in SUBSET Ifa, NEW delayed, NEW nomem,
             IfUp(i, attach, delayed, nomem)
      PROVE  IInv'
  <2> DEFINE mine == {a \in assigned : IfOf[a] = i /\ Tentative(a)}
             f == [a \in Ifa |-> IF a \in attach THEN {"tentative"} ELSE flags[a]]
             r == [a \in Ifa |-> IF a \in attach THEN 1 ELSE refs[a]]
  <2>1. /\ \A a \in attach : a \notin assigned
        /\ up' = [up EXCEPT ![i] = TRUE]
        /\ assigned' = assigned \union attach
        /\ DadStart(f, dp, r, up', mine \union attach, delayed, nomem)
        /\ UNCHANGED <<running, disabled>>
    BY <1>6 DEF IfUp
  <2>2. f \in [Ifa -> SUBSET Flag] /\ r \in [Ifa -> Nat]
    BY <1>0 DEF Flag
  <2>3. /\ assigned' \in SUBSET Ifa /\ mine \union attach \in SUBSET assigned'
        /\ up' \in [Ifn -> BOOLEAN]
    BY <1>0, <2>1
  <2>4. /\ \A b \in Ifa : dp[b].armed => dp[b].queued
        /\ \A b \in Ifa : dp[b].queued => b \in assigned'
        /\ \A b \in Ifa : r[b] = (IF b \in assigned' THEN 1 ELSE 0)
                               + (IF dp[b].queued THEN 1 ELSE 0)
    BY <1>0, <2>1 DEF Linked, RefsBalanced
  <2> HIDE DEF f, r, mine
  <2>5. /\ flags' \in [Ifa -> SUBSET Flag] /\ dp' \in [Ifa -> Dadq]
        /\ refs' \in [Ifa -> Nat] /\ RefsBalanced' /\ Linked'
    BY <1>0, <2>1, <2>2, <2>3, <2>4, DadStartKeeps
  <2> QED
    BY <1>0, <2>1, <2>3, <2>5 DEF IInv, TypeOK
<1>7. ASSUME NEW i \in Ifn, IfDown(i) PROVE IInv'
  BY <1>0, <1>7 DEF IfDown, IInv, TypeOK, RefsBalanced, Linked
<1>8. ASSUME NEW i \in Ifn, NEW b \in BOOLEAN, DriverReady(i, b) PROVE IInv'
  BY <1>0, <1>8 DEF DriverReady, IInv, TypeOK, RefsBalanced, Linked
<1>9. ASSUME NEW i \in Ifn, NEW b \in BOOLEAN, SetDisabled(i, b) PROVE IInv'
  BY <1>0, <1>9 DEF SetDisabled, IInv, TypeOK, RefsBalanced, Linked
<1>10. ASSUME NEW a \in Ifa, NEW nomem, DadLladdr(a, nomem) PROVE IInv'
  <2> DEFINE f == [flags EXCEPT ![a] = @ \union {"tentative"}]
  <2>1. /\ a \in assigned
        /\ DadStart(f, dp, refs, up, {a}, {}, nomem)
        /\ UNCHANGED <<assigned, up, running, disabled>>
    BY <1>10 DEF DadLladdr
  <2>2. f \in [Ifa -> SUBSET Flag]
    BY <1>0 DEF Flag
  <2> HIDE DEF f
  <2>3. /\ flags' \in [Ifa -> SUBSET Flag] /\ dp' \in [Ifa -> Dadq]
        /\ refs' \in [Ifa -> Nat] /\ RefsBalanced' /\ Linked'
    <3>1. {a} \in SUBSET assigned /\ assigned' = assigned
      BY <2>1
    <3>2. /\ \A b \in Ifa : dp[b].armed => dp[b].queued
          /\ \A b \in Ifa : dp[b].queued => b \in assigned
          /\ \A b \in Ifa : refs[b] = (IF b \in assigned THEN 1 ELSE 0)
                                    + (IF dp[b].queued THEN 1 ELSE 0)
      BY <1>0 DEF Linked, RefsBalanced
    <3> QED
      BY <1>0, <2>1, <2>2, <3>1, <3>2, DadStartKeeps
  <2> QED
    BY <1>0, <2>1, <2>3 DEF IInv, TypeOK
<1>11. ASSUME NEW a \in Ifa, DadTimer(a) PROVE IInv'
  BY <1>11, TimerKeeps
<1>12. ASSUME NEW a \in Ifa, DadNsInput(a) PROVE IInv'
  <2>1. CASE ~dp[a].queued \/ dp[a].ocount = 0
    BY <1>12, <2>1, DuplicatedKeeps DEF DadNsInput
  <2>2. CASE ~(~dp[a].queued \/ dp[a].ocount = 0)
    <3>1. /\ dp' = [dp EXCEPT ![a] = [@ EXCEPT !.icount = TRUE]]
          /\ UNCHANGED <<assigned, flags, refs, up, running, disabled>>
      BY <1>12, <2>2 DEF DadNsInput
    <3>2. \A b \in Ifa : /\ dp'[b].queued = dp[b].queued
                         /\ dp'[b].armed = dp[b].armed
      BY <1>0, <3>1 DEF Dadq
    <3>3. dp' \in [Ifa -> Dadq]
      BY <1>0, <3>1 DEF Dadq
    <3> QED
      BY <1>0, <3>1, <3>2, <3>3 DEF IInv, TypeOK, RefsBalanced, Linked
  <2> QED
    BY <2>1, <2>2
<1>13. ASSUME NEW a \in Ifa, DadNaInput(a) PROVE IInv'
  BY <1>13, DuplicatedKeeps DEF DadNaInput
<1>14. CASE UNCHANGED vars
  BY <1>0, <1>14 DEF vars, IInv, TypeOK, RefsBalanced, Linked
<1>15. CASE Configure
  BY <1>1, <1>3, <1>4, <1>5, <1>15 DEF Configure, DadAssumption
<1>16. CASE Interface
  BY <1>6, <1>7, <1>8, <1>9, <1>16 DEF Interface
<1>17. CASE Mobile
  BY <1>10, <1>17 DEF Mobile
<1> QED
  BY <1>2, <1>11, <1>12, <1>13, <1>14, <1>15, <1>16, <1>17 DEF Next

LEMMA IInvInit == Init => IInv
BY NoDpType DEF Init, IInv, TypeOK, RefsBalanced, Linked, Flag

LEMMA IInvHolds == Spec => []IInv
<1> USE DadAssumption
<1>1. Init => IInv
  BY IInvInit
<1>2. IInv /\ [Next]_vars => IInv'
  BY IInvStep
<1> QED
  BY <1>1, <1>2, PTL DEF Spec

(* Type correctness of the DAD state, reference counts included: no        *)
(* handler takes a count below zero.                                       *)
THEOREM DadTypeCorrect == Spec => []TypeOK
<1>1. IInv => TypeOK
  BY DEF IInv
<1> QED
  BY <1>1, IInvHolds, PTL

(* For any addresses, counts and limits: an ifaddr is held exactly by its  *)
(* lists and its dadq entry, so it is never freed while DAD still has it.  *)
THEOREM DadRefsBalanced == Spec => []RefsBalanced
<1>1. IInv => RefsBalanced
  BY DEF IInv
<1> QED
  BY <1>1, IInvHolds, PTL

(* A DAD callout is never left pending with the address of an ifaddr that  *)
(* was purged.                                                             *)
THEOREM DadNoDanglingTimer == Spec => []NoDanglingTimer
<1>1. IInv => NoDanglingTimer
  BY DEF IInv, Linked, NoDanglingTimer
<1> QED
  BY <1>1, IInvHolds, PTL

----------------------------------------------------------------------------
(* The life of an address.  When userland does not set an existing address *)
(* again, an entry on dadq is for a tentative address that needs DAD, and  *)
(* has its callout unless the address is known as a duplicate.             *)
Decided(f, d, a) ==
    d[a].queued => /\ "tentative" \in f[a]
                   /\ a \notin Anycast /\ DadCount # 0
                   /\ d[a].armed \/ "duplicated" \in f[a]

Deciding == \A a \in Ifa : Decided(flags, dp, a)

LInv == IInv /\ Deciding

\* One of the steps AddressLife allows one address.
LifeStep(a) ==
    \/ LifeState[a] # "duplicated" /\ Life!Check(a)
    \/ Life!Probe(a)
    \/ Life!Claim(a)
    \/ Life!Verify(a)
    \/ Life!Trust(a)
    \/ Life!Fail(a)
    \/ Life!Remove(a)
    \/ Life!Same(a)

LEMMA LifeStateDef ==
    ASSUME NEW a \in Ifa
    PROVE  /\ LifeState[a] = IF a \notin assigned THEN "none"
                             ELSE IF Duplicated(a) THEN "duplicated"
                             ELSE IF Tentative(a) THEN "tentative" ELSE "valid"
           /\ LifeState'[a] = IF a \notin assigned' THEN "none"
                              ELSE IF Duplicated(a)' THEN "duplicated"
                              ELSE IF Tentative(a)' THEN "tentative" ELSE "valid"
BY DEF LifeState, Duplicated, Tentative

(* An address whose flags may only have changed in "detached" and          *)
(* "autoconf", and whose entry is the same, or was and is invisible.       *)
LEMMA LifeSame ==
    ASSUME NEW a \in Ifa,
           a \in assigned' <=> a \in assigned,
           Tentative(a)' <=> Tentative(a),
           Duplicated(a)' <=> Duplicated(a),
           a \in assigned /\ Tentative(a) /\ ~Duplicated(a) => dp'[a] = dp[a]
    PROVE  LifeStep(a)
<1>1. LifeState'[a] = LifeState[a]
  BY LifeStateDef
<1>2. UnderDad(a) => a \in assigned /\ Tentative(a) /\ ~Duplicated(a)
  BY LifeStateDef DEF UnderDad
<1>3. UnderDad(a)' => a \in assigned /\ Tentative(a) /\ ~Duplicated(a)
  BY LifeStateDef DEF UnderDad
<1>4. UnderDad(a)' <=> UnderDad(a)
  BY <1>1, <1>2, <1>3 DEF UnderDad
<1>5. Life!Same(a)
  BY <1>1, <1>2, <1>4 DEF Life!Same
<1> QED
  BY <1>5 DEF LifeStep

\* A check that begins, begins again or is given up.
LEMMA LifeCheck ==
    ASSUME NEW a \in Ifa,
           a \in assigned => ~Duplicated(a),
           a \in assigned', Tentative(a)', ~Duplicated(a)',
           dp'[a].queued => dp'[a].ocount \in {0, 1} /\ ~dp'[a].icount
    PROVE  LifeStep(a)
<1>1. LifeState'[a] = "tentative" /\ LifeState[a] # "duplicated"
  BY LifeStateDef
<1>2. UnderDad(a)' <=> dp'[a].queued
  BY <1>1 DEF UnderDad
<1>3. Life!Check(a)
  BY <1>1, <1>2 DEF Life!Check
<1> QED
  BY <1>1, <1>3 DEF LifeStep

\* An address that needs no check.
LEMMA LifeTrust ==
    ASSUME NEW a \in Unchecked,
           a \in assigned => ~Duplicated(a),
           a \in assigned', ~Tentative(a)', ~Duplicated(a)'
    PROVE  LifeStep(a)
<1>1. a \in Ifa
  BY DEF Unchecked
<1>2. LifeState'[a] = "valid" /\ LifeState[a] \in {"none", "tentative", "valid"}
  BY <1>1, LifeStateDef
<1>3. ~UnderDad(a)'
  BY <1>2 DEF UnderDad
<1>4. Life!Trust(a)
  BY <1>1, <1>2, <1>3 DEF Life!Trust, Life!Idle
<1> QED
  BY <1>4 DEF LifeStep

\* A new entry has sent one probe or none and heard nothing.
LEMMA NewDpFresh ==
    ASSUME NEW a \in Ifa, NEW delayed, NEW isup
    PROVE  /\ NewDp(a, delayed, isup).queued /\ NewDp(a, delayed, isup).armed
           /\ NewDp(a, delayed, isup).ocount \in {0, 1}
           /\ ~NewDp(a, delayed, isup).icount
<1> DEFINE d == [NoDp EXCEPT !.queued = TRUE, !.armed = TRUE]
           n == IF isup[IfOf[a]] /\ running[IfOf[a]] THEN d.ocount + 1 ELSE d.ocount
<1>1. d \in Dadq /\ d.queued /\ d.armed /\ ~d.icount /\ d.ocount = 0
  BY DEF NoDp, Dadq
<1>2. CASE a \in delayed
  BY <1>1, <1>2 DEF NewDp
<1>3. CASE a \notin delayed
  <2>1. NewDp(a, delayed, isup) = [d EXCEPT !.tcount = @ + 1, !.ocount = n]
    BY <1>3 DEF NewDp, DadNsOutput
  <2>2. n \in {0, 1}
    BY <1>1
  <2> HIDE DEF d, n
  <2> QED
    BY <1>1, <2>1, <2>2 DEF Dadq
<1> QED
  BY <1>2, <1>3

\* What nd6_dad_start may do to one address.
Started(f, d, calls, a) ==
    \/ a \notin calls /\ flags'[a] = f[a] /\ dp'[a] = d[a]
    \/ /\ a \in calls /\ (a \in Anycast \/ DadCount = 0)
       /\ flags'[a] = f[a] \ {"tentative"} /\ dp'[a] = d[a]
    \/ /\ a \in calls /\ a \notin Anycast /\ DadCount # 0
       /\ flags'[a] = f[a]
       /\ \/ dp'[a] = d[a]
          \/ /\ ~d[a].queued /\ "tentative" \in f[a]
             /\ dp'[a].queued /\ dp'[a].armed
             /\ dp'[a].ocount \in {0, 1} /\ ~dp'[a].icount

LEMMA DadStartOne ==
    ASSUME NEW f \in [Ifa -> SUBSET Flag], NEW d \in [Ifa -> Dadq], NEW r,
           NEW isup, NEW calls \in SUBSET Ifa, NEW delayed, NEW nomem,
           DadStart(f, d, r, isup, calls, delayed, nomem), NEW a \in Ifa
    PROVE  Started(f, d, calls, a)
<1> DEFINE nodad == {b \in calls : b \in Anycast \/ DadCount = 0}
           new == {b \in (calls \ nodad) \ nomem :
                     "tentative" \in f[b] /\ isup[IfOf[b]] /\ ~d[b].queued}
<1>1. /\ flags'[a] = IF a \in nodad THEN f[a] \ {"tentative"} ELSE f[a]
      /\ dp'[a] = IF a \in new THEN NewDp(a, delayed, isup) ELSE d[a]
  BY DEF DadStart
<1>2. /\ NewDp(a, delayed, isup).queued /\ NewDp(a, delayed, isup).armed
      /\ NewDp(a, delayed, isup).ocount \in {0, 1}
      /\ ~NewDp(a, delayed, isup).icount
  BY NewDpFresh
<1>3. CASE a \in new
  BY <1>1, <1>2, <1>3 DEF Started
<1>4. CASE a \notin new
  BY <1>1, <1>4 DEF Started
<1> QED
  BY <1>3, <1>4

\* The same, for an address that the on-link check looks at as well.
Rechecked(f, d, live, a) ==
    /\ "duplicated" \in flags'[a] <=> "duplicated" \in f[a]
    /\ \/ /\ "tentative" \in flags'[a] <=> "tentative" \in f[a]
          /\ dp'[a] = d[a]
       \/ /\ a \in live /\ (a \in Anycast \/ DadCount = 0)
          /\ "tentative" \notin flags'[a] /\ dp'[a] = d[a]
       \/ /\ a \in live /\ a \notin Anycast /\ DadCount # 0
          /\ "tentative" \in flags'[a]
          /\ \/ dp'[a] = d[a]
             \/ /\ ~d[a].queued
                /\ dp'[a].queued /\ dp'[a].armed
                /\ dp'[a].ocount \in {0, 1} /\ ~dp'[a].icount

LEMMA StartAndCheckOne ==
    ASSUME NEW f \in [Ifa -> SUBSET Flag], NEW d \in [Ifa -> Dadq], NEW r,
           NEW live \in SUBSET Ifa, NEW calls \in SUBSET live, NEW delayed,
           NEW reachable, NEW nomem,
           StartAndCheck(f, d, r, live, calls, delayed, reachable, nomem),
           NEW a \in Ifa
    PROVE  Rechecked(f, d, live, a)
<1> DEFINE g == CheckedFlags(f, live, reachable)
           more == calls \union Reattached(f, live, reachable)
<1>1. g \in [Ifa -> SUBSET Flag] /\ more \in SUBSET live
  BY CheckedFlagsType
<1>2. /\ "duplicated" \in g[a] <=> "duplicated" \in f[a]
      /\ ("tentative" \in g[a] <=> "tentative" \in f[a])
         \/ (a \in more /\ "tentative" \in g[a])
  BY DEF CheckedFlags
<1>3. DadStart(g, d, r, up, more, delayed, nomem)
  BY DEF StartAndCheck
<1> HIDE DEF g, more
<1> DEFINE fl == flags'[a]
           e == dp'[a]
<1>4. \/ a \notin more /\ fl = g[a] /\ e = d[a]
      \/ /\ a \in more /\ (a \in Anycast \/ DadCount = 0)
         /\ fl = g[a] \ {"tentative"} /\ e = d[a]
      \/ /\ a \in more /\ a \notin Anycast /\ DadCount # 0
         /\ fl = g[a]
         /\ \/ e = d[a]
            \/ /\ ~d[a].queued /\ "tentative" \in g[a]
               /\ e.queued /\ e.armed
               /\ e.ocount \in {0, 1} /\ ~e.icount
  <2>1. more \in SUBSET Ifa
    BY <1>1
  <2> HIDE DEF fl, e
  <2>2. Started(g, d, more, a)
    BY <1>1, <1>3, <2>1, DadStartOne
  <2> QED
    BY <2>2 DEF Started, fl, e
<1> HIDE DEF fl, e
<1>5. /\ "duplicated" \in fl <=> "duplicated" \in f[a]
      /\ \/ ("tentative" \in fl <=> "tentative" \in f[a]) /\ e = d[a]
         \/ /\ a \in live /\ (a \in Anycast \/ DadCount = 0)
            /\ "tentative" \notin fl /\ e = d[a]
         \/ /\ a \in live /\ a \notin Anycast /\ DadCount # 0
            /\ "tentative" \in fl
            /\ \/ e = d[a]
               \/ /\ ~d[a].queued
                  /\ e.queued /\ e.armed
                  /\ e.ocount \in {0, 1} /\ ~e.icount
  BY <1>1, <1>2, <1>4
<1> QED
  BY <1>5 DEF fl, e, Rechecked

(* An address that is not the subject of the handler that ends with the    *)
(* on-link check: if it moves at all, its check begins again.              *)
LEMMA CheckLives ==
    ASSUME LInv, NEW f \in [Ifa -> SUBSET Flag], NEW d \in [Ifa -> Dadq], NEW r,
           NEW live \in SUBSET Ifa, NEW calls \in SUBSET live, NEW delayed,
           NEW reachable, NEW nomem,
           StartAndCheck(f, d, r, live, calls, delayed, reachable, nomem),
           assigned' = live,
           NEW a \in Ifa, f[a] = flags[a], d[a] = dp[a],
           a \in live <=> a \in assigned
    PROVE  Decided(flags, dp, a)' /\ LifeStep(a)
<1>0. Rechecked(f, d, live, a)
  BY StartAndCheckOne
<1>1. Decided(flags, dp, a) /\ (dp[a].queued => a \in assigned)
  BY DEF LInv, Deciding, IInv, Linked
<1>2. Duplicated(a)' <=> Duplicated(a)
  BY <1>0 DEF Rechecked, Duplicated
<1>3. CASE (Tentative(a)' <=> Tentative(a)) /\ dp'[a] = dp[a]
  BY <1>1, <1>2, <1>3, LifeSame DEF Decided, Duplicated, Tentative
<1>4. CASE /\ a \in live /\ (a \in Anycast \/ DadCount = 0)
           /\ ~Tentative(a)' /\ dp'[a] = dp[a]
  <2>1. Decided(flags, dp, a)'
    BY <1>1, <1>4 DEF Decided
  <2>2. CASE Duplicated(a)
    <3>1. LifeState'[a] = LifeState[a]
          /\ LifeState[a] # "tentative" /\ LifeState'[a] # "tentative"
      BY <1>2, <1>4, <2>2, LifeStateDef
    <3>2. Life!Same(a)
      BY <3>1 DEF Life!Same, UnderDad
    <3> QED
      BY <2>1, <3>2 DEF LifeStep
  <2>3. CASE ~Duplicated(a)
    BY <1>2, <1>4, <2>1, <2>3, LifeTrust DEF Unchecked
  <2> QED
    BY <2>2, <2>3
<1>5. CASE /\ a \in live /\ a \notin Anycast /\ DadCount # 0
           /\ Tentative(a)'
           /\ \/ dp'[a] = dp[a]
              \/ /\ ~dp[a].queued
                 /\ dp'[a].queued /\ dp'[a].armed
                 /\ dp'[a].ocount \in {0, 1} /\ ~dp'[a].icount
  <2>1. Decided(flags, dp, a)'
    BY <1>1, <1>2, <1>5 DEF Decided, Duplicated, Tentative
  <2>2. CASE Duplicated(a)
    <3>1. LifeState'[a] = LifeState[a]
          /\ LifeState[a] # "tentative" /\ LifeState'[a] # "tentative"
      BY <1>2, <1>5, <2>2, LifeStateDef
    <3>2. Life!Same(a)
      BY <3>1 DEF Life!Same, UnderDad
    <3> QED
      BY <2>1, <3>2 DEF LifeStep
  <2>3. CASE ~Duplicated(a) /\ dp[a].queued
    <3>1. Tentative(a) /\ dp'[a] = dp[a]
      BY <1>1, <1>5, <2>3 DEF Decided, Tentative
    <3> QED
      BY <1>2, <1>5, <2>1, <3>1, LifeSame
  <2>4. CASE ~Duplicated(a) /\ ~dp[a].queued
    <3>1. dp'[a].queued => dp'[a].ocount \in {0, 1} /\ ~dp'[a].icount
      BY <1>5, <2>4
    <3> QED
      BY <1>2, <1>5, <2>1, <2>4, <3>1, LifeCheck
  <2> QED
    BY <2>2, <2>3, <2>4
<1>6. \/ (Tentative(a)' <=> Tentative(a)) /\ dp'[a] = dp[a]
      \/ /\ a \in live /\ (a \in Anycast \/ DadCount = 0)
         /\ ~Tentative(a)' /\ dp'[a] = dp[a]
      \/ /\ a \in live /\ a \notin Anycast /\ DadCount # 0
         /\ Tentative(a)'
         /\ \/ dp'[a] = dp[a]
            \/ /\ ~dp[a].queued
               /\ dp'[a].queued /\ dp'[a].armed
               /\ dp'[a].ocount \in {0, 1} /\ ~dp'[a].icount
  BY <1>0 DEF Rechecked, Tentative
<1> QED
  BY <1>3, <1>4, <1>5, <1>6

\* An address that the handler leaves as it is.
LEMMA UntouchedLives ==
    ASSUME LInv, NEW a \in Ifa, flags'[a] = flags[a], dp'[a] = dp[a],
           a \in assigned' <=> a \in assigned
    PROVE  Decided(flags, dp, a)' /\ LifeStep(a)
<1>1. Decided(flags, dp, a)'
  BY DEF LInv, Deciding, Decided
<1> QED
  BY <1>1, LifeSame DEF Tentative, Duplicated

(* A check begins on an address that is no duplicate: a new one, one whose *)
(* interface comes up, or the mobile node's link-local address.            *)
LEMMA StartLives ==
    ASSUME LInv, NEW f \in [Ifa -> SUBSET Flag], NEW r, NEW isup,
           NEW calls \in SUBSET Ifa, NEW delayed, NEW nomem,
           DadStart(f, dp, r, isup, calls, delayed, nomem),
           NEW a \in calls, a \in assigned',
           "tentative" \in f[a], "duplicated" \notin f[a],
           a \in assigned => ~Duplicated(a),
           dp[a].queued => a \in assigned /\ Tentative(a)
    PROVE  Decided(flags, dp, a)' /\ LifeStep(a)
<1>0. Decided(flags, dp, a) /\ dp \in [Ifa -> Dadq] /\ a \in Ifa
  BY DEF LInv, Deciding, IInv, TypeOK
<1>1. Started(f, dp, calls, a)
  BY <1>0, DadStartOne
<1>2. CASE a \in Anycast \/ DadCount = 0
  <2>1. flags'[a] = f[a] \ {"tentative"} /\ dp'[a] = dp[a] /\ a \in Unchecked
    BY <1>0, <1>1, <1>2 DEF Started, Unchecked
  <2>2. LifeStep(a)
    BY <2>1, LifeTrust DEF Tentative, Duplicated
  <2> QED
    BY <1>0, <1>2, <2>1, <2>2 DEF Decided
<1>3. CASE ~(a \in Anycast \/ DadCount = 0) /\ dp[a].queued
  <2>1. flags'[a] = f[a] /\ dp'[a] = dp[a]
    BY <1>1, <1>3 DEF Started
  <2>2. LifeStep(a)
    BY <1>0, <1>3, <2>1, LifeSame DEF Tentative, Duplicated
  <2>3. dp[a].armed
    BY <1>0, <1>3 DEF Decided, Duplicated
  <2> QED
    BY <1>3, <2>1, <2>2, <2>3 DEF Decided
<1>4. CASE ~(a \in Anycast \/ DadCount = 0) /\ ~dp[a].queued
  <2>1. /\ flags'[a] = f[a]
        /\ dp'[a].queued => dp'[a].armed /\ dp'[a].ocount \in {0, 1}
                                         /\ ~dp'[a].icount
    BY <1>1, <1>4 DEF Started
  <2>2. LifeStep(a)
    BY <1>0, <2>1, LifeCheck DEF Tentative, Duplicated
  <2> QED
    BY <1>4, <2>1, <2>2 DEF Decided
<1> QED
  BY <1>2, <1>3, <1>4

\* A conflict ends the check.
LEMMA DuplicatedLives ==
    ASSUME LInv, NEW a \in Ifa, a \in assigned, Tentative(a), DadDuplicated(a)
    PROVE  \A b \in Ifa : Decided(flags, dp, b)' /\ LifeStep(b)
<1>1. CASE ~dp[a].queued
  <2>1. UNCHANGED vars
    BY <1>1 DEF DadDuplicated
  <2> QED
    BY <2>1, UntouchedLives DEF vars
<1>2. CASE dp[a].queued
  <2>1. /\ flags' = [flags EXCEPT ![a] = (@ \ {"tentative"}) \union {"duplicated"}]
        /\ dp' = [dp EXCEPT ![a] = NoDp]
        /\ assigned' = assigned
    BY <1>2 DEF DadDuplicated
  <2>2. /\ \A b \in Ifa \ {a} : flags'[b] = flags[b] /\ dp'[b] = dp[b]
        /\ dp'[a] = NoDp /\ "duplicated" \in flags'[a]
    BY <2>1 DEF LInv, IInv, TypeOK
  <2>3. Decided(flags, dp, a)'
    BY <2>2, NoDpType DEF Decided
  <2>4. LifeState'[a] = "duplicated" /\ ~UnderDad(a)'
    BY <2>1, <2>2, LifeStateDef DEF Duplicated, UnderDad
  <2>5. LifeStep(a)
    <3>1. CASE Duplicated(a)
      <4>1. LifeState[a] = "duplicated" /\ ~UnderDad(a)
        BY <3>1, LifeStateDef DEF UnderDad
      <4> QED
        BY <2>4, <4>1 DEF LifeStep, Life!Same
    <3>2. CASE ~Duplicated(a)
      <4>1. LifeState[a] = "tentative"
        BY <3>2, LifeStateDef
      <4>2. Life!Fail(a)
        BY <2>4, <4>1 DEF Life!Fail, Life!Idle
      <4> QED
        BY <4>2 DEF LifeStep
    <3> QED
      BY <3>1, <3>2
  <2> QED
    BY <2>1, <2>2, <2>3, <2>5, UntouchedLives
<1> QED
  BY <1>1, <1>2

LEMMA TimerLives ==
    ASSUME DadAssumption, LInv, NEW a \in Ifa, DadTimer(a)
    PROVE  \A b \in Ifa : Decided(flags, dp, b)' /\ LifeStep(b)
<1>0. /\ flags \in [Ifa -> SUBSET Flag] /\ dp \in [Ifa -> Dadq] /\ dp[a] \in Dadq
      /\ dp[a].armed /\ dp[a].queued /\ a \in assigned
      /\ Tentative(a) /\ Decided(flags, dp, a)
  BY DEF DadTimer, TimerSanity, TimerGiveUp, TimerProbe, TimerConclude,
         LInv, Deciding, Decided, IInv, TypeOK, Linked, Tentative
<1>1. CASE TimerSanity(a)
  <2>1. /\ dp' = [dp EXCEPT ![a] = [@ EXCEPT !.armed = FALSE]]
        /\ Duplicated(a) /\ UNCHANGED <<assigned, flags>>
    BY <1>0, <1>1 DEF TimerSanity
  <2>2. \A b \in Ifa \ {a} : dp'[b] = dp[b]
    BY <1>0, <2>1
  <2>3. Decided(flags, dp, a)'
    BY <1>0, <2>1 DEF Decided, Duplicated
  <2>4. LifeStep(a)
    BY <2>1, LifeSame DEF Tentative, Duplicated
  <2> QED
    BY <2>1, <2>2, <2>3, <2>4, UntouchedLives
<1>2. CASE TimerGiveUp(a)
  <2>1. /\ dp' = [dp EXCEPT ![a] = NoDp] /\ ~Duplicated(a)
        /\ UNCHANGED <<assigned, flags>>
    BY <1>2 DEF TimerGiveUp
  <2>2. dp'[a] = NoDp /\ \A b \in Ifa \ {a} : dp'[b] = dp[b]
    BY <1>0, <2>1
  <2>3. Decided(flags, dp, a)'
    BY <2>2, NoDpType DEF Decided
  <2>4. LifeStep(a)
    BY <1>0, <2>1, <2>2, NoDpType, LifeCheck DEF Tentative, Duplicated
  <2> QED
    BY <2>1, <2>2, <2>3, <2>4, UntouchedLives
<1>3. CASE TimerProbe(a)
  <2> DEFINE n == IF up[IfOf[a]] /\ running[IfOf[a]] THEN dp[a].ocount + 1
                                                     ELSE dp[a].ocount
           d == [dp[a] EXCEPT !.tcount = @ + 1, !.ocount = n]
  <2>1. /\ dp' = [dp EXCEPT ![a] = d]
        /\ ~Duplicated(a) /\ UNCHANGED <<assigned, flags>>
    <3>1. dp' = [dp EXCEPT ![a] = DadNsOutput(dp[a], up[IfOf[a]], running[IfOf[a]])]
      BY <1>3 DEF TimerProbe
    <3>2. DadNsOutput(dp[a], up[IfOf[a]], running[IfOf[a]]) = d
      BY DEF DadNsOutput
    <3> QED
      BY <1>3, <3>1, <3>2 DEF TimerProbe
  <2>2. n \in {dp[a].ocount, dp[a].ocount + 1}
    OBVIOUS
  <2> HIDE DEF n
  <2>3. /\ \A b \in Ifa \ {a} : dp'[b] = dp[b]
        /\ dp'[a].queued /\ dp'[a].armed
        /\ dp'[a].icount = dp[a].icount /\ dp'[a].ocount = n
    BY <1>0, <2>1 DEF Dadq
  <2>4. Decided(flags, dp, a)'
    BY <1>0, <2>1, <2>3 DEF Decided
  <2>5. LifeState[a] = "tentative" /\ LifeState'[a] = "tentative"
    BY <1>0, <2>1, LifeStateDef DEF Tentative, Duplicated
  <2>6. UnderDad(a) /\ UnderDad(a)'
    BY <1>0, <2>3, <2>5 DEF UnderDad
  <2>7. Life!Probe(a)
    BY <2>2, <2>3, <2>5, <2>6 DEF Life!Probe
  <2>8. LifeStep(a)
    BY <2>7 DEF LifeStep
  <2> QED
    BY <2>1, <2>3, <2>4, <2>8, UntouchedLives
<1>4. CASE TimerConclude(a) /\ dp[a].icount
  BY <1>0, <1>4, DuplicatedLives DEF TimerConclude
<1>5. CASE TimerConclude(a) /\ ~dp[a].icount
  <2>1. /\ flags' = [flags EXCEPT ![a] = @ \ {"tentative"}]
        /\ dp' = [dp EXCEPT ![a] = NoDp]
        /\ ~Duplicated(a) /\ dp[a].ocount >= DadCount /\ assigned' = assigned
    BY <1>5 DEF TimerConclude
  <2>2. /\ \A b \in Ifa \ {a} : flags'[b] = flags[b] /\ dp'[b] = dp[b]
        /\ dp'[a] = NoDp /\ flags'[a] = flags[a] \ {"tentative"}
    BY <1>0, <2>1
  <2>3. Decided(flags, dp, a)'
    BY <2>2, NoDpType DEF Decided
  <2>4. LifeState[a] = "tentative" /\ LifeState'[a] = "valid"
    BY <1>0, <2>1, <2>2, LifeStateDef DEF Tentative, Duplicated
  <2>5. UnderDad(a) /\ ~UnderDad(a)'
    BY <1>0, <2>4 DEF UnderDad
  <2>6. Life!Verify(a)
    BY <1>5, <2>1, <2>4, <2>5 DEF Life!Verify, Life!Idle
  <2>7. LifeStep(a)
    BY <2>6 DEF LifeStep
  <2> QED
    BY <2>1, <2>2, <2>3, <2>7, UntouchedLives
<1> QED
  BY <1>1, <1>2, <1>3, <1>4, <1>5 DEF DadTimer

\* One step per action of Next: every address keeps to its life.
LEMMA LifeSteps ==
    ASSUME DadAssumption, Reconfigurable = {}, LInv, Next
    PROVE  \A b \in Ifa : Decided(flags, dp, b)' /\ LifeStep(b)
<1>0. /\ flags \in [Ifa -> SUBSET Flag] /\ dp \in [Ifa -> Dadq]
      /\ assigned \in SUBSET Ifa /\ up \in [Ifn -> BOOLEAN]
      /\ \A a \in Ifa : dp[a].queued => a \in assigned /\ Tentative(a)
  BY DEF LInv, IInv, TypeOK, Linked, Deciding, Decided, Tentative
<1>1. ASSUME NEW a \in Ifa, NEW auto \in BOOLEAN, NEW nodad \in BOOLEAN,
             NEW delayed \in BOOLEAN, NEW reachable, NEW nomem,
             AssignAddr(a, auto, nodad, delayed, reachable, nomem)
      PROVE  \A b \in Ifa : Decided(flags, dp, b)' /\ LifeStep(b)
  <2> DEFINE f == [flags EXCEPT ![a] =
                      {"tentative"} \union (IF auto THEN {"autoconf"} ELSE {})]
             r == [refs EXCEPT ![a] = 1]
             calls == IF nodad THEN {} ELSE {a}
             late == IF delayed THEN {a} ELSE {}
  <2>1. /\ a \notin assigned /\ assigned' = assigned \union {a}
        /\ StartAndCheck(f, dp, r, assigned', calls, late, reachable, nomem)
    BY <1>1 DEF AssignAddr
  <2>2. /\ f \in [Ifa -> SUBSET Flag] /\ "tentative" \in f[a]
        /\ "duplicated" \notin f[a] /\ "detached" \notin f[a]
        /\ \A b \in Ifa \ {a} : f[b] = flags[b]
    BY <1>0 DEF Flag
  <2>3. assigned' \in SUBSET Ifa /\ calls \in SUBSET assigned'
    BY <1>0, <2>1
  <2> HIDE DEF f, r, calls, late
  <2>4. ASSUME NEW b \in Ifa \ {a}
        PROVE  Decided(flags, dp, b)' /\ LifeStep(b)
    <3>1. b \in assigned' <=> b \in assigned
      BY <2>1
    <3> QED
      BY <1>0, <2>1, <2>2, <2>3, <3>1, CheckLives
  <2>5. Decided(flags, dp, a)' /\ LifeStep(a)
    <3>1. a \in assigned' /\ ~dp[a].queued
      BY <1>0, <2>1
    <3>2. /\ "duplicated" \notin flags'[a]
          /\ \/ "tentative" \in flags'[a] /\ dp'[a] = dp[a]
             \/ (a \in Anycast \/ DadCount = 0) /\ "tentative" \notin flags'[a]
                /\ dp'[a] = dp[a]
             \/ /\ a \notin Anycast /\ DadCount # 0 /\ "tentative" \in flags'[a]
                /\ \/ dp'[a] = dp[a]
                   \/ /\ dp'[a].queued /\ dp'[a].armed
                      /\ dp'[a].ocount \in {0, 1} /\ ~dp'[a].icount
      <4>1. Rechecked(f, dp, assigned', a)
        BY <1>0, <2>1, <2>2, <2>3, StartAndCheckOne
      <4> QED
        BY <2>2, <3>1, <4>1 DEF Rechecked
    <3>3. Decided(flags, dp, a)'
      BY <3>1, <3>2 DEF Decided
    <3>4. CASE "tentative" \in flags'[a]
      <4>1. dp'[a].queued => dp'[a].ocount \in {0, 1} /\ ~dp'[a].icount
        BY <3>1, <3>2, <3>4
      <4> QED
        BY <2>1, <3>1, <3>2, <3>3, <3>4, <4>1, LifeCheck DEF Tentative, Duplicated
    <3>5. CASE "tentative" \notin flags'[a]
      <4>1. a \in Unchecked
        BY <3>2, <3>5 DEF Unchecked
      <4> QED
        BY <2>1, <3>1, <3>2, <3>3, <3>5, <4>1, LifeTrust DEF Tentative, Duplicated
    <3> QED
      BY <3>4, <3>5
  <2> QED
    BY <2>4, <2>5
<1>2. ASSUME NEW a \in Ifa, AssignHome(a)
      PROVE  \A b \in Ifa : Decided(flags, dp, b)' /\ LifeStep(b)
  <2>1. /\ a \in Home /\ a \notin assigned /\ assigned' = assigned \union {a}
        /\ flags' = [flags EXCEPT ![a] = {}] /\ dp' = dp
    BY <1>2 DEF AssignHome
  <2>2. /\ ~dp'[a].queued /\ flags'[a] = {} /\ a \in assigned' /\ a \in Unchecked
        /\ \A b \in Ifa \ {a} : flags'[b] = flags[b] /\ dp'[b] = dp[b]
                                /\ (b \in assigned' <=> b \in assigned)
    BY <1>0, <2>1 DEF Unchecked
  <2>3. Decided(flags, dp, a)'
    BY <2>2 DEF Decided
  <2>4. LifeStep(a)
    BY <2>1, <2>2, LifeTrust DEF Tentative, Duplicated
  <2> QED
    BY <2>2, <2>3, <2>4, UntouchedLives
<1>3. ASSUME NEW a \in Ifa, NEW reachable, NEW nomem, PurgeAddr(a, reachable, nomem)
      PROVE  \A b \in Ifa : Decided(flags, dp, b)' /\ LifeStep(b)
  <2> DEFINE f == [flags EXCEPT ![a] = {}]
             d == [dp EXCEPT ![a] = NoDp]
             r == [refs EXCEPT ![a] = @ - 1 - (IF dp[a].queued THEN 1 ELSE 0)]
             live == assigned \ {a}
  <2>1. /\ a \in assigned /\ assigned' = live
        /\ IF "autoconf" \in flags[a]
           THEN StartAndCheck(f, d, r, live, {}, {}, reachable, nomem)
           ELSE flags' = f /\ dp' = d /\ refs' = r
    BY <1>3 DEF PurgeAddr
  <2>2. f \in [Ifa -> SUBSET Flag] /\ d \in [Ifa -> Dadq] /\ live \in SUBSET Ifa
    BY <1>0, NoDpType
  <2>3. /\ \A b \in Ifa \ {a} : f[b] = flags[b] /\ d[b] = dp[b]
                                /\ (b \in live <=> b \in assigned)
        /\ f[a] = {} /\ ~d[a].queued /\ a \notin live
    BY <1>0, NoDpType
  <2> HIDE DEF f, d, r, live
  <2>4. ASSUME NEW b \in Ifa \ {a}
        PROVE  Decided(flags, dp, b)' /\ LifeStep(b)
    <3>1. CASE "autoconf" \in flags[a]
      <4>1. {} \in SUBSET live
        OBVIOUS
      <4> QED
        BY <2>1, <2>2, <2>3, <3>1, <4>1, CheckLives
    <3>2. CASE "autoconf" \notin flags[a]
      BY <2>1, <2>3, <3>2, UntouchedLives
    <3> QED
      BY <3>1, <3>2
  <2>5. ~dp'[a].queued
    <3>1. CASE "autoconf" \in flags[a]
      <4>1. {} \in SUBSET live
        OBVIOUS
      <4>2. Rechecked(f, d, live, a)
        BY <2>1, <2>2, <3>1, <4>1, StartAndCheckOne
      <4> QED
        BY <2>3, <4>2 DEF Rechecked
    <3>2. CASE "autoconf" \notin flags[a]
      BY <2>1, <2>3, <3>2
    <3> QED
      BY <3>1, <3>2
  <2>6. LifeState'[a] = "none" /\ ~UnderDad(a)'
    BY <2>1, <2>3, LifeStateDef DEF UnderDad
  <2>7. Life!Remove(a)
    BY <2>6 DEF Life!Remove, Life!Idle
  <2> QED
    BY <2>4, <2>5, <2>7 DEF Decided, LifeStep
<1>4. ASSUME NEW reachable, NEW nomem, OnlinkCheck(reachable, nomem)
      PROVE  \A b \in Ifa : Decided(flags, dp, b)' /\ LifeStep(b)
  <2>1. /\ StartAndCheck(flags, dp, refs, assigned, {}, {}, reachable, nomem)
        /\ assigned' = assigned /\ {} \in SUBSET assigned
    BY <1>4 DEF OnlinkCheck
  <2> QED
    BY <1>0, <2>1, CheckLives
<1>5. ASSUME NEW i \in Ifn, NEW attach \in SUBSET Ifa, NEW delayed, NEW nomem,
             IfUp(i, attach, delayed, nomem)
      PROVE  \A b \in Ifa : Decided(flags, dp, b)' /\ LifeStep(b)
  <2> DEFINE mine == {a \in assigned : IfOf[a] = i /\ Tentative(a)}
             f == [a \in Ifa |-> IF a \in attach THEN {"tentative"} ELSE flags[a]]
             r == [a \in Ifa |-> IF a \in attach THEN 1 ELSE refs[a]]
             calls == mine \union attach
  <2>1. /\ \A a \in attach : a \notin assigned
        /\ assigned' = assigned \union attach
        /\ DadStart(f, dp, r, up', calls, delayed, nomem)
    BY <1>5 DEF IfUp
  <2>2. /\ f \in [Ifa -> SUBSET Flag] /\ calls \in SUBSET Ifa
        /\ calls \subseteq assigned' /\ attach \subseteq calls
        /\ \A a \in attach : f[a] = {"tentative"}
        /\ \A a \in Ifa \ attach : f[a] = flags[a]
        /\ \A a \in calls \ attach : a \in assigned /\ Tentative(a)
    BY <1>0, <2>1 DEF Flag
  <2> HIDE DEF mine, f, r, calls
  <2>3. ASSUME NEW b \in Ifa, b \in attach
        PROVE  Decided(flags, dp, b)' /\ LifeStep(b)
    <3>1. /\ b \in calls /\ b \in assigned' /\ b \notin assigned
          /\ "tentative" \in f[b] /\ "duplicated" \notin f[b]
      BY <2>1, <2>2, <2>3
    <3> QED
      BY <1>0, <2>1, <2>2, <3>1, StartLives
  <2>4. ASSUME NEW b \in Ifa, b \in calls, b \notin attach, ~Duplicated(b)
        PROVE  Decided(flags, dp, b)' /\ LifeStep(b)
    <3>1. /\ b \in assigned' /\ "tentative" \in f[b] /\ "duplicated" \notin f[b]
      BY <2>1, <2>2, <2>4 DEF Tentative, Duplicated
    <3> QED
      BY <1>0, <2>1, <2>2, <2>4, <3>1, StartLives
  <2>5. ASSUME NEW b \in Ifa, b \in calls, b \notin attach, Duplicated(b)
        PROVE  Decided(flags, dp, b)' /\ LifeStep(b)
    <3>1. Started(f, dp, calls, b) /\ f[b] = flags[b]
      BY <1>0, <2>1, <2>2, <2>5, DadStartOne
    <3>2. Decided(flags, dp, b)
      BY DEF LInv, Deciding
    <3>3. Decided(flags, dp, b)' /\ "duplicated" \in flags'[b]
      BY <2>5, <3>1, <3>2 DEF Started, Decided, Duplicated
    <3>4. /\ LifeState[b] = "duplicated" /\ LifeState'[b] = "duplicated"
          /\ ~UnderDad(b) /\ ~UnderDad(b)'
      BY <2>1, <2>2, <2>5, <3>3, LifeStateDef DEF UnderDad, Duplicated
    <3>5. Life!Same(b)
      BY <3>4 DEF Life!Same
    <3> QED
      BY <3>3, <3>5 DEF LifeStep
  <2>6. ASSUME NEW b \in Ifa, b \notin calls
        PROVE  Decided(flags, dp, b)' /\ LifeStep(b)
    <3>1. Started(f, dp, calls, b) /\ f[b] = flags[b] /\ b \notin attach
      BY <1>0, <2>1, <2>2, <2>6, DadStartOne
    <3>2. flags'[b] = flags[b] /\ dp'[b] = dp[b]
      BY <2>6, <3>1 DEF Started
    <3> QED
      BY <2>1, <3>1, <3>2, UntouchedLives
  <2> QED
    BY <2>3, <2>4, <2>5, <2>6
<1>6. ASSUME NEW i \in Ifn, \/ IfDown(i)
                            \/ \E b \in BOOLEAN : DriverReady(i, b)
                            \/ \E b \in BOOLEAN : SetDisabled(i, b)
      PROVE  \A b \in Ifa : Decided(flags, dp, b)' /\ LifeStep(b)
  <2>1. UNCHANGED <<assigned, flags, dp>>
    BY <1>6 DEF IfDown, DriverReady, SetDisabled
  <2> QED
    BY <2>1, UntouchedLives
<1>7. ASSUME NEW a \in Ifa, NEW nomem, DadLladdr(a, nomem)
      PROVE  \A b \in Ifa : Decided(flags, dp, b)' /\ LifeStep(b)
  <2> DEFINE f == [flags EXCEPT ![a] = @ \union {"tentative"}]
  <2>1. /\ a \in assigned /\ ~dp[a].queued
        /\ DadStart(f, dp, refs, up, {a}, {}, nomem)
        /\ assigned' = assigned
    BY <1>7 DEF DadLladdr
  <2>2. /\ f \in [Ifa -> SUBSET Flag] /\ f[a] = flags[a] \union {"tentative"}
        /\ \A b \in Ifa \ {a} : f[b] = flags[b]
        /\ {a} \in SUBSET Ifa
    BY <1>0 DEF Flag
  <2> HIDE DEF f
  <2>3. \A b \in Ifa : Started(f, dp, {a}, b)
    BY <1>0, <2>1, <2>2, DadStartOne
  <2>4. ASSUME NEW b \in Ifa \ {a} PROVE Decided(flags, dp, b)' /\ LifeStep(b)
    <3>1. flags'[b] = flags[b] /\ dp'[b] = dp[b]
      BY <2>2, <2>3 DEF Started
    <3> QED
      BY <2>1, <3>1, UntouchedLives
  <2>5. CASE Duplicated(a)
    <3>1. "duplicated" \in flags'[a]
      BY <2>2, <2>3, <2>5 DEF Started, Duplicated
    <3>2. Decided(flags, dp, a)'
      BY <2>1, <2>2, <2>3, <3>1 DEF Started, Decided
    <3>3. /\ LifeState[a] = "duplicated" /\ LifeState'[a] = "duplicated"
          /\ ~UnderDad(a) /\ ~UnderDad(a)'
      BY <2>1, <2>5, <3>1, LifeStateDef DEF UnderDad, Duplicated
    <3>4. Life!Same(a)
      BY <3>3 DEF Life!Same
    <3> QED
      BY <2>4, <3>2, <3>4 DEF LifeStep
  <2>6. CASE ~Duplicated(a)
    <3>1. "tentative" \in f[a] /\ "duplicated" \notin f[a] /\ a \in {a} /\ a \in assigned'
      BY <2>1, <2>2, <2>6 DEF Duplicated
    <3>2. Decided(flags, dp, a)' /\ LifeStep(a)
      BY <1>0, <2>1, <2>2, <2>6, <3>1, StartLives
    <3> QED
      BY <2>4, <3>2
  <2> QED
    BY <2>5, <2>6
<1>8. ASSUME NEW a \in Ifa, DadNsInput(a)
      PROVE  \A b \in Ifa : Decided(flags, dp, b)' /\ LifeStep(b)
  <2>1. a \in assigned /\ Tentative(a) /\ ~Duplicated(a)
    BY <1>8 DEF DadNsInput
  <2>2. CASE DadDuplicated(a)
    BY <2>1, <2>2, DuplicatedLives
  <2>3. CASE ~DadDuplicated(a)
    <3>1. /\ dp[a].queued /\ dp[a].ocount # 0
          /\ dp' = [dp EXCEPT ![a] = [@ EXCEPT !.icount = TRUE]]
          /\ UNCHANGED <<assigned, flags>>
      BY <1>8, <2>3 DEF DadNsInput
    <3>2. /\ dp'[a].icount /\ dp'[a].queued /\ dp'[a].armed = dp[a].armed
          /\ dp'[a].ocount = dp[a].ocount /\ dp[a].ocount > 0
          /\ \A b \in Ifa \ {a} : dp'[b] = dp[b]
      BY <1>0, <3>1 DEF Dadq
    <3>3. Decided(flags, dp, a)'
      BY <3>1, <3>2 DEF LInv, Deciding, Decided
    <3>4. LifeState[a] = "tentative" /\ LifeState'[a] = "tentative"
      BY <2>1, <3>1, LifeStateDef DEF Tentative, Duplicated
    <3>5. UnderDad(a) /\ UnderDad(a)'
      BY <3>1, <3>2, <3>4 DEF UnderDad
    <3>6. Life!Claim(a)
      BY <3>2, <3>4, <3>5 DEF Life!Claim
    <3>7. LifeStep(a)
      BY <3>6 DEF LifeStep
    <3> QED
      BY <3>1, <3>2, <3>3, <3>7, UntouchedLives
  <2> QED
    BY <2>2, <2>3
<1>9. ASSUME NEW a \in Ifa, DadNaInput(a)
      PROVE  \A b \in Ifa : Decided(flags, dp, b)' /\ LifeStep(b)
  BY <1>9, DuplicatedLives DEF DadNaInput
<1>10. CASE Configure
  BY <1>1, <1>3, <1>4, <1>10 DEF Configure
<1>11. CASE Interface
  BY <1>5, <1>6, <1>11 DEF Interface
<1>12. CASE Mobile
  BY <1>7, <1>12 DEF Mobile
<1> QED
  BY <1>2, <1>8, <1>9, <1>10, <1>11, <1>12, TimerLives DEF Next

LEMMA LInvInit == Init => LInv
BY IInvInit, NoDpType DEF Init, LInv, Deciding, Decided

LEMMA LInvStep ==
    ASSUME DadAssumption, Reconfigurable = {}, LInv, [Next]_vars
    PROVE  LInv'
<1>1. IInv'
  BY IInvStep DEF LInv
<1>2. \A a \in Ifa : Decided(flags, dp, a)'
  <2>1. CASE UNCHANGED vars
    BY <2>1 DEF vars, LInv, Deciding, Decided
  <2> QED
    BY <2>1, LifeSteps
<1>3. Deciding'
  BY <1>2 DEF Deciding
<1> QED
  BY <1>1, <1>3 DEF LInv

(* "DAD already in progress" is true: as long as userland does not set an  *)
(* existing address again, every tentative address on dadq that is no      *)
(* duplicate has its callout pending, in any order of packets, callouts,   *)
(* re-attachments, interface events and failed allocations.                *)
THEOREM DadInProgressHolds ==
    ASSUME Reconfigurable = {} PROVE Spec => []DadInProgress
<1> USE DadAssumption
<1>1. Init => LInv
  BY LInvInit
<1>2. LInv /\ [Next]_vars => LInv'
  BY LInvStep
<1>3. LInv => DadInProgress
  BY DEF LInv, Deciding, Decided, DadInProgress, Duplicated
<1> QED
  BY <1>1, <1>2, <1>3, PTL DEF Spec

LEMMA LifeInit == Init => Life!Init
<1>1. ASSUME Init PROVE Life!Init
  <2>1. LifeState = [a \in Ifa |-> "none"]
    BY <1>1 DEF Init, LifeState
  <2>2. \A a \in Ifa : ~UnderDad(a)
    BY <1>1, <2>1 DEF Init, UnderDad
  <2> QED
    BY <2>1, <2>2 DEF Life!Init
<1> QED
  BY <1>1

\* Each step of Dad is a step of AddressLife, or a stutter.
LEMMA LifeNext ==
    ASSUME DadAssumption, Reconfigurable = {}, LInv, [Next]_vars
    PROVE  [Life!Next]_(Life!vars)
<1>1. CASE UNCHANGED vars
  BY <1>1 DEF vars, Life!vars, LifeState, UnderDad, Tentative, Duplicated
<1>2. CASE Next
  <2>1. \A a \in Ifa : LifeStep(a)
    BY <1>2, LifeSteps
  <2>2. Life!Next
    BY <2>1 DEF LifeStep, Life!Next
  <2> QED
    BY <2>2
<1> QED
  BY <1>1, <1>2

(* DAD implements the life AddressLife promises: an address that needs a   *)
(* check becomes valid only from tentative, after ip6_dad_count probes and *)
(* with no claim heard since the first, and a duplicate stays one until    *)
(* the address is removed.                                                 *)
THEOREM DadImplementsLife ==
    ASSUME Reconfigurable = {} PROVE Spec => LifeSpec
<1> USE DadAssumption
<1>1. Init => LInv /\ Life!Init
  BY LInvInit, LifeInit
<1>2. LInv /\ [Next]_vars => LInv' /\ [Life!Next]_(Life!vars)
  BY LInvStep, LifeNext
<1> QED
  BY <1>1, <1>2, PTL DEF Spec, LifeSpec, Life!Spec

----------------------------------------------------------------------------
(* The link.  In its invariant interfaces stay up and enabled, no address  *)
(* is autoconfigured, and a dadq entry is always one whose callout will    *)
(* decide: TimerSanity is never taken.                                     *)
Steady ==
    /\ \A i \in Ifn : up[i] /\ running[i] /\ ~disabled[i]
    /\ \A a \in Ifa :
          /\ flags[a] \subseteq {"tentative", "duplicated"}
          /\ dp[a].queued => dp[a].armed /\ Tentative(a) /\ ~Duplicated(a)
          /\ ~dp[a].queued => dp[a] = NoDp

\* DAD runs on x and has heard no other claim.
Clean(x) == dp[x].queued /\ ~dp[x].icount

\* x is used, or will be if nothing more is heard.
Live(x) == Usable(x) \/ Clean(x)

\* p is a probe of x on its way to y, or the answer of y to one.
Exchange(p, x, y) ==
    \/ p.kind = "NS" /\ p.from = x /\ p.to = y
    \/ p.kind = "NA" /\ p.from = y /\ p.to = x

\* Such a packet arrives before the callout of x runs.
InFlight(x, y) == \E p \in wire : x \in p.before /\ Exchange(p, x, y)

\* Of the probes of x, y never answered: all were lost, or all but the last
\* one, which is still under way.
Unheard(x, y) ==
    \/ lost >= dp[x].ocount
    \/ lost + 1 >= dp[x].ocount /\ InFlight(x, y)

(* Of two nodes that may both come to use the address, one is still        *)
(* checking it, and the other has not heard of that only because the link  *)
(* lost the probes or their answers.                                       *)
Contest ==
    \A a, b \in Ifa : a # b /\ Live(a) /\ Live(b) =>
        \/ Clean(a) /\ Unheard(a, b)
        \/ Clean(b) /\ Unheard(b, a)

LinkInv == IInv /\ LinkTypeOK /\ Steady /\ Contest

\* A global address that needs DAD, on a link that loses fewer packets than
\* probes are sent.
Checked == LinkLocal = {} /\ Anycast = {} /\ MaxLoss < DadCount

----------------------------------------------------------------------------
\* What Carry does to the packets: none is lost, and a probe is sent to
\* every other node before the callout of its sender.
LEMMA CarryKeeps ==
    ASSUME NEW w \in SUBSET Packet, wire' = Carry(w)
    PROVE  /\ wire' \subseteq Packet
           /\ \A p \in w, x \in Ifa : x \in p.before /\ dp'[x].armed =>
                 \E q \in wire' : /\ q.kind = p.kind /\ q.from = p.from
                                  /\ q.to = p.to /\ x \in q.before
           /\ \A x, y \in Ifa :
                 /\ x # y /\ ~disabled[IfOf[x]]
                 /\ dp'[x].ocount > dp[x].ocount
                 /\ dp'[x].tcount > dp[x].tcount
                 => \E q \in wire' : /\ q.kind = "NS" /\ q.from = x
                                     /\ q.to = y /\ x \in q.before
<1> DEFINE senders == {b \in Ifa : /\ dp'[b].ocount > dp[b].ocount
                                   /\ ~disabled[IfOf[b]]}
           probes == UNION {Multicast("NS", a, {}) : a \in senders}
           rearmed == {a \in Ifa : dp'[a].tcount > dp[a].tcount}
           idle == {a \in Ifa : ~dp'[a].armed}
           age(p) == [p EXCEPT !.before = (@ \ idle) \union rearmed]
<1>1. wire' = {age(p) : p \in w \union probes}
  BY DEF Carry
<1>2. probes \subseteq Packet
  BY DEF Multicast, Packet
<1>3. ASSUME NEW p \in Packet
      PROVE  /\ age(p) \in Packet
             /\ age(p).kind = p.kind /\ age(p).from = p.from /\ age(p).to = p.to
             /\ age(p).before = (p.before \ idle) \union rearmed
  BY DEF Packet
<1>4. ASSUME NEW x \in senders, NEW y \in Ifa, x # y
      PROVE  \E p \in probes : p.kind = "NS" /\ p.from = x /\ p.to = y
  <2> DEFINE p == [kind |-> "NS", from |-> x, to |-> y, before |-> {}]
  <2>1. p \in Multicast("NS", x, {})
    BY <1>4 DEF Multicast
  <2> QED
    BY <2>1
<1>5. \A x \in Ifa : (x \in rearmed <=> dp'[x].tcount > dp[x].tcount)
                     /\ (x \in idle <=> ~dp'[x].armed)
  OBVIOUS
<1>6. \A x \in Ifa : x \in senders <=> dp'[x].ocount > dp[x].ocount
                                       /\ ~disabled[IfOf[x]]
  OBVIOUS
<1> HIDE DEF senders, probes, rearmed, idle, age
<1>7. wire' \subseteq Packet
  BY <1>1, <1>2, <1>3
<1>8. \A p \in w, x \in Ifa : x \in p.before /\ dp'[x].armed =>
         \E q \in wire' : /\ q.kind = p.kind /\ q.from = p.from
                          /\ q.to = p.to /\ x \in q.before
  BY <1>1, <1>3, <1>5
<1>9. \A x, y \in Ifa :
         /\ x # y /\ ~disabled[IfOf[x]]
         /\ dp'[x].ocount > dp[x].ocount
         /\ dp'[x].tcount > dp[x].tcount
         => \E q \in wire' : /\ q.kind = "NS" /\ q.from = x
                             /\ q.to = y /\ x \in q.before
  BY <1>1, <1>2, <1>3, <1>4, <1>5, <1>6
<1> QED
  BY <1>7, <1>8, <1>9

LEMMA MulticastType ==
    ASSUME NEW kind \in {"NS", "NA"}, NEW a \in Ifa, NEW before \in SUBSET Ifa
    PROVE  Multicast(kind, a, before) \subseteq Packet
BY DEF Multicast, Packet

(* A step that touches the state of node n alone and no packet between     *)
(* other nodes: what remains to be seen is n against each other node.      *)
LEMMA ContestAround ==
    ASSUME LinkInv, NEW n \in Ifa,
           \A x \in Ifa \ {n} : /\ dp'[x] = dp[x] /\ flags'[x] = flags[x]
                                /\ x \in assigned' <=> x \in assigned,
           lost' = lost,
           \A x, y \in Ifa \ {n} :
              x # y /\ dp[x].armed /\ InFlight(x, y) => InFlight(x, y)',
           \A y \in Ifa \ {n} : Live(n)' /\ Live(y) =>
              \/ Clean(n)' /\ Unheard(n, y)'
              \/ Clean(y) /\ Unheard(y, n)'
    PROVE  Contest'
<1>1. \A x \in Ifa \ {n} : Clean(x)' <=> Clean(x)
  BY DEF Clean
<1>2. \A x \in Ifa \ {n} : Live(x)' <=> Live(x)
  BY <1>1 DEF Live, Usable, Tentative, Duplicated
<1>3. \A x, y \in Ifa \ {n} : x # y /\ Clean(x) /\ Unheard(x, y) => Unheard(x, y)'
  BY DEF Unheard, Clean, LinkInv, Steady
<1>4. \A x, y \in Ifa : x # y /\ Live(x)' /\ Live(y)' =>
         \/ Clean(x)' /\ Unheard(x, y)'
         \/ Clean(y)' /\ Unheard(y, x)'
  <2>1. TAKE x \in Ifa, y \in Ifa
  <2>2. CASE x # n /\ y # n
    BY <1>1, <1>2, <1>3, <2>2 DEF LinkInv, Contest
  <2>3. CASE x = n \/ y = n
    BY <1>1, <1>2, <2>3
  <2> QED
    BY <2>2, <2>3
<1> QED
  BY <1>4 DEF Contest

\* A node that stops being live contests with nobody.
LEMMA ContestWithout ==
    ASSUME LinkInv, NEW n \in Ifa, ~Live(n)',
           \A x \in Ifa \ {n} : /\ dp'[x] = dp[x] /\ flags'[x] = flags[x]
                                /\ x \in assigned' <=> x \in assigned,
           lost' = lost,
           \A x, y \in Ifa \ {n} :
              x # y /\ dp[x].armed /\ InFlight(x, y) => InFlight(x, y)'
    PROVE  Contest'
BY ContestAround

----------------------------------------------------------------------------
(* The handlers of Dad as a steady link sees them.                         *)

LEMMA AssignEffect ==
    ASSUME DadAssumption, Checked, IInv, Steady, NEW a \in Ifa,
           NEW nodad \in BOOLEAN, NEW delayed \in BOOLEAN, NEW nomem,
           AssignAddr(a, FALSE, nodad, delayed, {}, nomem)
    PROVE  /\ a \notin assigned /\ assigned' = assigned \union {a}
           /\ flags' = [flags EXCEPT ![a] = {"tentative"}]
           /\ \/ dp' = dp
              \/ dp' = [dp EXCEPT ![a] = NewDp(a, IF delayed THEN {a} ELSE {}, up)]
           /\ UNCHANGED <<up, running, disabled>>
<1> DEFINE f == [flags EXCEPT ![a] = {"tentative"}]
           r == [refs EXCEPT ![a] = 1]
           calls == IF nodad THEN {} ELSE {a}
           late == IF delayed THEN {a} ELSE {}
<1>1. /\ a \notin assigned /\ assigned' = assigned \union {a}
      /\ UNCHANGED <<up, running, disabled>>
  BY DEF AssignAddr
<1>2. StartAndCheck(f, dp, r, assigned', calls, late, {}, nomem)
  <2>1. [flags EXCEPT ![a] = {"tentative"} \union (IF FALSE THEN {"autoconf"} ELSE {})]
        = f
    OBVIOUS
  <2> QED
    BY <2>1 DEF AssignAddr
<1>3. f \in [Ifa -> SUBSET {"tentative", "duplicated"}]
  BY DEF Steady, IInv, TypeOK
<1> HIDE DEF f, r
<1>4. Reattached(f, assigned', {}) = {} /\ CheckedFlags(f, assigned', {}) = f
  <2>1. {b \in assigned' : "autoconf" \in f[b]} = {}
    BY <1>1, <1>3 DEF IInv, TypeOK
  <2>2. Attached(f, assigned', {}) = {}
    BY <2>1 DEF Attached
  <2>3. Reattached(f, assigned', {}) = {}
    BY <2>2 DEF Reattached
  <2>4. \A b \in Ifa : "autoconf" \notin f[b]
    BY <1>3
  <2>5. CheckedFlags(f, assigned', {}) = [b \in Ifa |-> f[b]]
    BY <2>3, <2>4 DEF CheckedFlags
  <2> QED
    BY <1>3, <2>3, <2>5
<1>5. DadStart(f, dp, r, up, calls, late, nomem)
  BY <1>2, <1>4 DEF StartAndCheck
<1> DEFINE need == {b \in calls : b \in Anycast \/ DadCount = 0}
           new == {b \in (calls \ need) \ nomem :
                     "tentative" \in f[b] /\ up[IfOf[b]] /\ ~dp[b].queued}
<1>6. need = {}
  BY LinkAssumption DEF Checked, DadAssumption
<1>7. new = {} \/ new = {a}
  OBVIOUS
<1>8. /\ flags' = [b \in Ifa |-> IF b \in need THEN f[b] \ {"tentative"} ELSE f[b]]
      /\ dp' = [b \in Ifa |-> IF b \in new THEN NewDp(b, late, up) ELSE dp[b]]
  BY <1>5 DEF DadStart
<1> HIDE DEF need, new, late
<1>9. flags' = f
  BY <1>3, <1>6, <1>8
<1>10. dp' = dp \/ dp' = [dp EXCEPT ![a] = NewDp(a, late, up)]
  BY <1>7, <1>8 DEF IInv, TypeOK
<1> QED
  BY <1>1, <1>9, <1>10 DEF f, late

\* The entry of a new address; its first probe is out unless it was delayed.
LEMMA NewDpOnLink ==
    ASSUME DadAssumption, IInv, Steady, NEW a \in Ifa, NEW delayed
    PROVE  LET d == NewDp(a, delayed, up) IN
           /\ d.queued /\ d.armed /\ ~d.icount
           /\ \/ d.ocount = 0
              \/ d.ocount = 1 /\ d.tcount = 1
<1> DEFINE d == [NoDp EXCEPT !.queued = TRUE, !.armed = TRUE]
<1>1. /\ d \in Dadq /\ d.queued /\ d.armed /\ ~d.icount
      /\ d.ocount = 0 /\ d.tcount = 0
  BY DEF NoDp, Dadq
<1>2. up[IfOf[a]] /\ running[IfOf[a]]
  <2>1. IfOf[a] \in Ifn
    BY DEF DadAssumption
  <2> QED
    BY <2>1 DEF Steady
<1>3. CASE a \in delayed
  BY <1>1, <1>3 DEF NewDp
<1>4. CASE a \notin delayed
  <2>1. NewDp(a, delayed, up) = DadNsOutput(d, up[IfOf[a]], running[IfOf[a]])
    BY <1>4 DEF NewDp
  <2> HIDE DEF d
  <2>2. NewDp(a, delayed, up) = [d EXCEPT !.tcount = @ + 1, !.ocount = @ + 1]
    BY <1>2, <2>1 DEF DadNsOutput
  <2>3. LET n == NewDp(a, delayed, up) IN
        /\ n.queued = d.queued /\ n.armed = d.armed /\ n.icount = d.icount
        /\ n.ocount = d.ocount + 1 /\ n.tcount = d.tcount + 1
    BY <1>1, <2>2 DEF Dadq
  <2> QED
    BY <1>1, <2>3
<1> QED
  BY <1>3, <1>4

\* A conflict ends the use of the address, if DAD had not ended already.
LEMMA DuplicatedEffect ==
    ASSUME DadAssumption, Checked, IInv, Steady, NEW a \in Ifa, Tentative(a),
           DadDuplicated(a)
    PROVE  /\ ~Live(a)' /\ Steady' /\ assigned' = assigned
           /\ \A x \in Ifa \ {a} : dp'[x] = dp[x] /\ flags'[x] = flags[x]
<1>1. CASE ~dp[a].queued
  <2>1. UNCHANGED vars
    BY <1>1 DEF DadDuplicated
  <2> QED
    BY <1>1, <2>1 DEF vars, Live, Clean, Usable, Tentative, Duplicated, Steady
<1>2. CASE dp[a].queued
  <2>1. /\ flags' = [flags EXCEPT ![a] = (@ \ {"tentative"}) \union {"duplicated"}]
        /\ dp' = [dp EXCEPT ![a] = NoDp]
        /\ UNCHANGED <<assigned, up, running, disabled>>
    BY <1>2 DEF DadDuplicated, Checked
  <2>2. dp'[a] = NoDp /\ ~dp'[a].queued /\ "duplicated" \in flags'[a]
        /\ flags'[a] \subseteq {"tentative", "duplicated"}
    BY <2>1, NoDpType DEF IInv, TypeOK, Steady
  <2>3. \A x \in Ifa \ {a} : dp'[x] = dp[x] /\ flags'[x] = flags[x]
    BY <2>1 DEF IInv, TypeOK
  <2>4. ~Live(a)'
    BY <2>2 DEF Live, Clean, Usable, Tentative, Duplicated
  <2>5. Steady'
    BY <2>1, <2>2, <2>3 DEF Steady, Tentative, Duplicated
  <2> QED
    BY <2>1, <2>3, <2>4, <2>5
<1> QED
  BY <1>1, <1>2

\* A solicitation or an advertisement heard while DAD runs ends it, or is
\* remembered: the node is not live any more.
LEMMA InputEffect ==
    ASSUME DadAssumption, Checked, IInv, Steady, NEW a \in Ifa,
           DadNsInput(a) \/ DadNaInput(a)
    PROVE  /\ ~Live(a)' /\ Steady' /\ assigned' = assigned
           /\ \A x \in Ifa \ {a} : dp'[x] = dp[x] /\ flags'[x] = flags[x]
<1>1. Tentative(a)
  BY DEF DadNsInput, DadNaInput
<1>2. CASE DadDuplicated(a)
  BY <1>1, <1>2, DuplicatedEffect
<1>3. CASE ~DadDuplicated(a)
  <2>1. /\ dp[a].queued
        /\ dp' = [dp EXCEPT ![a] = [@ EXCEPT !.icount = TRUE]]
        /\ UNCHANGED <<assigned, flags, up, running, disabled>>
    BY <1>3 DEF DadNsInput, DadNaInput
  <2>2. /\ dp'[a].icount /\ dp'[a].queued /\ dp'[a].armed = dp[a].armed
        /\ \A x \in Ifa \ {a} : dp'[x] = dp[x]
    BY <2>1 DEF IInv, TypeOK, Dadq
  <2>3. ~Live(a)'
    BY <1>1, <2>1, <2>2 DEF Live, Clean, Usable, Tentative
  <2>4. Steady'
    BY <2>1, <2>2 DEF Steady, Tentative, Duplicated
  <2> QED
    BY <2>1, <2>2, <2>3, <2>4
<1> QED
  BY <1>2, <1>3

----------------------------------------------------------------------------
(* One lemma per action of LinkNext.                                       *)

LEMMA LinkAssignKeeps ==
    ASSUME DadAssumption, Checked, LinkInv, LinkAssign
    PROVE  wire' \subseteq Packet /\ lost' = lost /\ Steady' /\ Contest'
<1>1. PICK a \in Ifa, nodad \in BOOLEAN, delayed \in BOOLEAN, nomem \in SUBSET Ifa :
          AssignAddr(a, FALSE, nodad, delayed, {}, nomem)
  BY DEF LinkAssign
<1>2. wire' = Carry(wire) /\ lost' = lost
  BY DEF LinkAssign
<1>3. /\ IInv /\ Steady /\ Contest /\ wire \in SUBSET Packet /\ lost \in Nat
      /\ dp \in [Ifa -> Dadq] /\ flags \in [Ifa -> SUBSET Flag]
  BY LinkAssumption DEF LinkInv, LinkTypeOK, IInv, TypeOK
<1> DEFINE late == IF delayed THEN {a} ELSE {}
           d == NewDp(a, late, up)
<1>4. /\ a \notin assigned /\ assigned' = assigned \union {a}
      /\ flags' = [flags EXCEPT ![a] = {"tentative"}]
      /\ dp' = dp \/ dp' = [dp EXCEPT ![a] = d]
      /\ UNCHANGED <<up, running, disabled>>
  BY <1>1, <1>3, AssignEffect
<1>5. /\ d.queued /\ d.armed /\ ~d.icount
      /\ d.ocount = 0 \/ (d.ocount = 1 /\ d.tcount = 1)
  BY <1>3, NewDpOnLink
<1> HIDE DEF late, d
<1>6. ~dp[a].queued /\ dp[a] = NoDp
  BY <1>3, <1>4 DEF IInv, Linked, Steady
<1>7. \A x \in Ifa \ {a} : /\ dp'[x] = dp[x] /\ flags'[x] = flags[x]
                           /\ x \in assigned' <=> x \in assigned
  BY <1>3, <1>4
<1>8. flags'[a] = {"tentative"} /\ (dp'[a] = NoDp \/ dp'[a] = d)
  BY <1>3, <1>4, <1>6
<1>9. Steady'
  <2>1. \A i \in Ifn : (up[i] /\ running[i] /\ ~disabled[i])'
    BY <1>3, <1>4 DEF Steady
  <2>2. ASSUME NEW x \in Ifa
        PROVE  /\ flags'[x] \subseteq {"tentative", "duplicated"}
               /\ dp'[x].queued => dp'[x].armed /\ Tentative(x)' /\ ~Duplicated(x)'
               /\ ~dp'[x].queued => dp'[x] = NoDp
    <3>1. CASE x # a
      BY <1>3, <1>7, <3>1 DEF Steady, Tentative, Duplicated
    <3>2. CASE x = a
      BY <1>5, <1>8, <3>2, NoDpType DEF Tentative, Duplicated
    <3> QED
      BY <3>1, <3>2
  <2> QED
    BY <2>1, <2>2 DEF Steady
<1>10. \A x, y \in Ifa \ {a} : x # y /\ dp[x].armed /\ InFlight(x, y) => InFlight(x, y)'
  BY <1>2, <1>3, <1>7, CarryKeeps DEF InFlight, Exchange
<1>11. ASSUME NEW y \in Ifa \ {a}, Live(a)'
       PROVE  Clean(a)' /\ Unheard(a, y)'
  <2>1. dp'[a] = d
    BY <1>8, <1>11, NoDpType DEF Live, Clean, Usable, Tentative
  <2>2. CASE d.ocount = 0
    BY <1>2, <1>3, <1>5, <2>1, <2>2 DEF Clean, Unheard
  <2>3. CASE d.ocount = 1 /\ d.tcount = 1
    <3>1. dp'[a].ocount > dp[a].ocount /\ dp'[a].tcount > dp[a].tcount
      BY <1>6, <2>1, <2>3 DEF NoDp
    <3>2. ~disabled[IfOf[a]]
      BY <1>3 DEF DadAssumption, Steady
    <3>3. InFlight(a, y)'
      BY <1>2, <1>3, <3>1, <3>2, CarryKeeps DEF InFlight, Exchange
    <3> QED
      BY <1>2, <1>3, <1>5, <2>1, <2>3, <3>3 DEF Clean, Unheard
  <2> QED
    BY <1>5, <2>2, <2>3
<1>12. Contest'
  BY <1>2, <1>7, <1>10, <1>11, ContestAround
<1> QED
  BY <1>2, <1>3, <1>9, <1>12, CarryKeeps

LEMMA LinkPurgeKeeps ==
    ASSUME DadAssumption, Checked, LinkInv, LinkPurge
    PROVE  wire' \subseteq Packet /\ lost' = lost /\ Steady' /\ Contest'
<1>1. PICK a \in Ifa : PurgeAddr(a, {}, {})
  BY DEF LinkPurge
<1>2. wire' = Carry(wire) /\ lost' = lost
  BY DEF LinkPurge
<1>3. /\ IInv /\ Steady /\ Contest /\ wire \in SUBSET Packet
      /\ dp \in [Ifa -> Dadq] /\ flags \in [Ifa -> SUBSET Flag]
  BY DEF LinkInv, LinkTypeOK, IInv, TypeOK
<1>4. /\ assigned' = assigned \ {a}
      /\ flags' = [flags EXCEPT ![a] = {}]
      /\ dp' = [dp EXCEPT ![a] = NoDp]
      /\ UNCHANGED <<up, running, disabled>>
  <2>1. "autoconf" \notin flags[a]
    BY <1>3 DEF Steady
  <2> QED
    BY <1>1, <2>1 DEF PurgeAddr
<1>5. \A x \in Ifa \ {a} : /\ dp'[x] = dp[x] /\ flags'[x] = flags[x]
                           /\ x \in assigned' <=> x \in assigned
  BY <1>3, <1>4
<1>6. flags'[a] = {} /\ dp'[a] = NoDp /\ a \notin assigned'
  BY <1>3, <1>4
<1>7. Steady'
  BY <1>3, <1>4, <1>5, <1>6, NoDpType DEF Steady, Tentative, Duplicated
<1>8. ~Live(a)'
  BY <1>6, NoDpType DEF Live, Clean, Usable
<1>9. \A x, y \in Ifa \ {a} : x # y /\ dp[x].armed /\ InFlight(x, y) => InFlight(x, y)'
  BY <1>2, <1>3, <1>5, CarryKeeps DEF InFlight, Exchange
<1>10. Contest'
  BY <1>2, <1>5, <1>8, <1>9, ContestWithout
<1> QED
  BY <1>2, <1>3, <1>7, <1>10, CarryKeeps

LEMMA LinkTimerKeeps ==
    ASSUME DadAssumption, Checked, LinkInv, LinkTimer
    PROVE  wire' \subseteq Packet /\ lost' = lost /\ Steady' /\ Contest'
<1>1. PICK a \in Ifa : DadTimer(a) /\ \A p \in wire : a \notin p.before
  BY DEF LinkTimer
<1>2. wire' = Carry(wire) /\ lost' = lost
  BY DEF LinkTimer
<1>3. /\ IInv /\ Steady /\ Contest /\ wire \in SUBSET Packet
      /\ dp \in [Ifa -> Dadq] /\ flags \in [Ifa -> SUBSET Flag]
      /\ lost \in 0..MaxLoss /\ MaxLoss \in Nat /\ DadCount \in Nat
  BY LinkAssumption DEF LinkInv, LinkTypeOK, IInv, TypeOK, DadAssumption
<1>4. dp[a] \in Dadq /\ dp[a].armed /\ dp[a].queued
  BY <1>1, <1>3 DEF DadTimer, TimerSanity, TimerGiveUp, TimerProbe,
                    TimerConclude, IInv, Linked
<1>5. Tentative(a) /\ ~Duplicated(a) /\ ~TimerSanity(a)
  BY <1>3, <1>4 DEF Steady, TimerSanity
<1>6. ASSUME NEW y \in Ifa, ~InFlight(a, y) => FALSE PROVE FALSE
  BY <1>1, <1>6 DEF InFlight
<1>7. \A y \in Ifa \ {a} : Live(y) /\ Clean(a) =>
         \/ lost >= dp[a].ocount
         \/ Clean(y) /\ Unheard(y, a)
  <2>1. \A y \in Ifa : ~InFlight(a, y)
    BY <1>6
  <2> QED
    BY <1>3, <2>1 DEF Contest, Unheard, Live
<1>8. ASSUME \A x \in Ifa \ {a} : /\ dp'[x] = dp[x] /\ flags'[x] = flags[x]
                                  /\ x \in assigned' <=> x \in assigned
      PROVE  /\ \A x, y \in Ifa : x # y /\ x # a /\ dp[x].armed /\ InFlight(x, y)
                   => InFlight(x, y)'
             /\ \A y \in Ifa \ {a} : Clean(y) /\ Unheard(y, a) => Unheard(y, a)'
  <2>1. \A x, y \in Ifa : x # y /\ x # a /\ dp[x].armed /\ InFlight(x, y)
           => InFlight(x, y)'
    BY <1>2, <1>3, <1>8, CarryKeeps DEF InFlight, Exchange
  <2> QED
    BY <1>2, <1>3, <1>8, <2>1 DEF Clean, Unheard, Steady
<1>9. CASE TimerGiveUp(a)
  <2>1. /\ dp' = [dp EXCEPT ![a] = NoDp]
        /\ UNCHANGED <<assigned, flags, up, running, disabled>>
    BY <1>9 DEF TimerGiveUp
  <2>2. dp'[a] = NoDp /\ \A x \in Ifa \ {a} : dp'[x] = dp[x]
    BY <1>3, <2>1
  <2>3. ~Live(a)'
    BY <1>5, <2>1, <2>2, NoDpType DEF Live, Clean, Usable, Tentative
  <2>4. Steady'
    BY <1>3, <2>1, <2>2, NoDpType DEF Steady, Tentative, Duplicated
  <2> QED
    BY <1>2, <1>3, <1>8, <2>1, <2>2, <2>3, <2>4, CarryKeeps, ContestWithout
<1>10. CASE TimerProbe(a)
  <2> DEFINE d == DadNsOutput(dp[a], up[IfOf[a]], running[IfOf[a]])
  <2>1. /\ dp' = [dp EXCEPT ![a] = d]
        /\ UNCHANGED <<assigned, flags, up, running, disabled>>
    BY <1>10 DEF TimerProbe
  <2>2. up[IfOf[a]] /\ running[IfOf[a]] /\ ~disabled[IfOf[a]]
    BY <1>3 DEF DadAssumption, Steady
  <2>3. d = [dp[a] EXCEPT !.tcount = @ + 1, !.ocount = @ + 1]
    BY <2>2 DEF DadNsOutput
  <2> HIDE DEF d
  <2>4. /\ d.queued = dp[a].queued /\ d.armed = dp[a].armed
        /\ d.icount = dp[a].icount
        /\ d.tcount = dp[a].tcount + 1 /\ d.ocount = dp[a].ocount + 1
    BY <1>4, <2>3 DEF Dadq
  <2>5. dp'[a] = d /\ \A x \in Ifa \ {a} : dp'[x] = dp[x]
    BY <1>3, <2>1
  <2>6. Steady'
    BY <1>3, <1>4, <2>1, <2>4, <2>5 DEF Steady, Tentative, Duplicated
  <2>7. dp[a].ocount \in Nat /\ dp[a].tcount \in Nat
    BY <1>4 DEF Dadq
  <2>8. dp'[a].ocount > dp[a].ocount /\ dp'[a].tcount > dp[a].tcount
    BY <2>4, <2>5, <2>7
  <2>9. \A y \in Ifa \ {a} : InFlight(a, y)'
    BY <1>2, <1>3, <2>2, <2>8, CarryKeeps DEF InFlight, Exchange
  <2>10. ASSUME NEW y \in Ifa \ {a}, Live(a)', Live(y)
         PROVE  \/ Clean(a)' /\ Unheard(a, y)'
                \/ Clean(y) /\ Unheard(y, a)'
    <3>1. Clean(a)' /\ Clean(a)
      BY <1>5, <2>1, <2>4, <2>5, <2>10 DEF Live, Clean, Usable, Tentative
    <3>2. CASE lost >= dp[a].ocount
      <4>1. lost' + 1 >= dp'[a].ocount
        BY <1>2, <1>3, <2>4, <2>5, <2>7, <3>2
      <4> QED
        BY <2>9, <3>1, <4>1 DEF Unheard
    <3>3. CASE Clean(y) /\ Unheard(y, a)
      BY <1>8, <2>1, <2>5, <3>3
    <3> QED
      BY <1>7, <2>10, <3>1, <3>2, <3>3
  <2>11. Contest'
    BY <1>2, <1>8, <2>1, <2>5, <2>10, ContestAround
  <2> QED
    BY <1>2, <1>3, <2>6, <2>11, CarryKeeps
<1>11. CASE TimerConclude(a) /\ dp[a].icount
  <2>1. DadDuplicated(a)
    BY <1>11 DEF TimerConclude
  <2>2. /\ ~Live(a)' /\ Steady' /\ assigned' = assigned
        /\ \A x \in Ifa \ {a} : dp'[x] = dp[x] /\ flags'[x] = flags[x]
    BY <1>3, <1>5, <2>1, DuplicatedEffect
  <2> QED
    BY <1>2, <1>3, <1>8, <2>2, CarryKeeps, ContestWithout
<1>12. CASE TimerConclude(a) /\ ~dp[a].icount
  <2>1. /\ flags' = [flags EXCEPT ![a] = @ \ {"tentative"}]
        /\ dp' = [dp EXCEPT ![a] = NoDp]
        /\ dp[a].ocount >= DadCount
        /\ UNCHANGED <<assigned, up, running, disabled>>
    BY <1>12 DEF TimerConclude
  <2>2. /\ dp'[a] = NoDp /\ flags'[a] = flags[a] \ {"tentative"}
        /\ \A x \in Ifa \ {a} : dp'[x] = dp[x] /\ flags'[x] = flags[x]
    BY <1>3, <2>1
  <2>3. Steady'
    BY <1>3, <2>1, <2>2, NoDpType DEF Steady, Tentative, Duplicated
  <2>4. Clean(a)
    BY <1>4, <1>12 DEF Clean
  <2>5. ~(lost >= dp[a].ocount)
    BY <1>3, <1>4, <2>1 DEF Checked, Dadq
  <2>6. \A y \in Ifa \ {a} : Live(y) => Clean(y) /\ Unheard(y, a)'
    BY <1>7, <1>8, <2>1, <2>2, <2>4, <2>5
  <2>7. Contest'
    BY <1>2, <1>8, <2>1, <2>2, <2>6, ContestAround
  <2> QED
    BY <1>2, <1>3, <2>3, <2>7, CarryKeeps
<1> QED
  BY <1>1, <1>5, <1>9, <1>10, <1>11, <1>12 DEF DadTimer

\* The packet that is delivered concerns its receiver; all others stay.
LEMMA DeliveryKeepsFlight ==
    ASSUME LinkInv, NEW p \in wire, wire' = Carry(wire \ {p}),
           \A x \in Ifa \ {p.to} : dp'[x] = dp[x]
    PROVE  /\ wire' \subseteq Packet
           /\ \A x, y \in Ifa \ {p.to} :
                 x # y /\ dp[x].armed /\ InFlight(x, y) => InFlight(x, y)'
<1>1. wire \ {p} \in SUBSET Packet
  BY DEF LinkInv, LinkTypeOK
<1>2. \A x, y \in Ifa \ {p.to} : ~Exchange(p, x, y)
  BY DEF Exchange
<1> QED
  BY <1>1, <1>2, CarryKeeps DEF InFlight, Exchange

LEMMA DeliverNsKeeps ==
    ASSUME DadAssumption, Checked, LinkInv, NEW p \in wire, DeliverNs(p)
    PROVE  wire' \subseteq Packet /\ lost' = lost /\ Steady' /\ Contest'
<1>1. lost' = lost
  BY DEF DeliverNs
<1>2. /\ IInv /\ Steady /\ Contest /\ wire \in SUBSET Packet
      /\ p.kind = "NS" /\ p.from \in Ifa /\ p.to \in Ifa /\ p.before \in SUBSET Ifa
  BY DEF LinkInv, LinkTypeOK, DeliverNs, Packet
<1>3. CASE DadNsInput(p.to) /\ wire' = Carry(wire \ {p})
  <2>1. /\ ~Live(p.to)' /\ Steady' /\ assigned' = assigned
        /\ \A x \in Ifa \ {p.to} : dp'[x] = dp[x] /\ flags'[x] = flags[x]
    BY <1>2, <1>3, InputEffect
  <2> QED
    BY <1>1, <1>2, <1>3, <2>1, DeliveryKeepsFlight, ContestWithout
<1>4. CASE /\ Usable(p.to)
           /\ wire' = (wire \ {p}) \union Multicast("NA", p.to, p.before)
           /\ UNCHANGED vars
  <2>1. wire' \subseteq Packet
    BY <1>2, <1>4, MulticastType
  <2>2. ASSUME NEW x \in Ifa, NEW y \in Ifa, x # y, InFlight(x, y)
        PROVE  InFlight(x, y)'
    <3>1. PICK q \in wire : x \in q.before /\ Exchange(q, x, y)
      BY <2>2 DEF InFlight
    <3>2. CASE q # p
      BY <1>4, <3>1, <3>2 DEF InFlight, Exchange
    <3>3. CASE q = p
      <4> DEFINE r == [kind |-> "NA", from |-> p.to, to |-> x, before |-> p.before]
      <4>1. p.to = y
        BY <1>2, <3>1, <3>3 DEF Exchange
      <4>2. r \in Multicast("NA", p.to, p.before)
        BY <2>2, <4>1 DEF Multicast
      <4>3. x \in r.before /\ Exchange(r, x, y)
        BY <3>1, <3>3, <4>1 DEF Exchange
      <4> HIDE DEF r
      <4>4. r \in wire'
        BY <1>4, <4>2
      <4> QED
        BY <4>3, <4>4 DEF InFlight, Exchange
    <3> QED
      BY <3>2, <3>3
  <2>3. \A x, y \in Ifa : x # y /\ Unheard(x, y) => Unheard(x, y)'
    BY <1>1, <1>4, <2>2 DEF Unheard, vars
  <2>4. \A x \in Ifa : (Clean(x)' <=> Clean(x)) /\ (Live(x)' <=> Live(x))
    BY <1>4 DEF Clean, Live, Usable, Tentative, Duplicated, vars
  <2>5. Contest'
    BY <1>2, <2>3, <2>4 DEF Contest
  <2>6. Steady'
    BY <1>2, <1>4 DEF Steady, Tentative, Duplicated, vars
  <2> QED
    BY <1>1, <2>1, <2>5, <2>6
<1>5. CASE /\ ~Receives(IfOf[p.to]) \/ p.to \notin assigned \/ Duplicated(p.to)
           /\ wire' = wire \ {p}
           /\ UNCHANGED vars
  <2>1. Receives(IfOf[p.to])
    BY <1>2 DEF Receives, Steady, DadAssumption
  <2>2. ~Live(p.to)'
    BY <1>2, <1>5, <2>1 DEF Live, Clean, Usable, Steady, IInv, Linked,
                            Tentative, Duplicated, vars
  <2>3. \A x, y \in Ifa \ {p.to} : InFlight(x, y) => InFlight(x, y)'
    BY <1>5 DEF InFlight, Exchange
  <2>4. \A x \in Ifa \ {p.to} : /\ dp'[x] = dp[x] /\ flags'[x] = flags[x]
                                /\ x \in assigned' <=> x \in assigned
    BY <1>5 DEF vars
  <2>5. Contest'
    BY <1>1, <1>2, <2>2, <2>3, <2>4, ContestWithout
  <2>6. Steady'
    BY <1>2, <1>5 DEF Steady, Tentative, Duplicated, vars
  <2> QED
    BY <1>1, <1>2, <1>5, <2>5, <2>6
<1> QED
  BY <1>3, <1>4, <1>5 DEF DeliverNs

LEMMA DeliverNaKeeps ==
    ASSUME DadAssumption, Checked, LinkInv, NEW p \in wire, DeliverNa(p)
    PROVE  wire' \subseteq Packet /\ lost' = lost /\ Steady' /\ Contest'
<1>1. lost' = lost
  BY DEF DeliverNa
<1>2. /\ IInv /\ Steady /\ Contest /\ wire \in SUBSET Packet
      /\ p.kind = "NA" /\ p.from \in Ifa /\ p.to \in Ifa /\ p.before \in SUBSET Ifa
  BY DEF LinkInv, LinkTypeOK, DeliverNa, Packet
<1>3. CASE DadNaInput(p.to) /\ wire' = Carry(wire \ {p})
  <2>1. /\ ~Live(p.to)' /\ Steady' /\ assigned' = assigned
        /\ \A x \in Ifa \ {p.to} : dp'[x] = dp[x] /\ flags'[x] = flags[x]
    BY <1>2, <1>3, InputEffect
  <2> QED
    BY <1>1, <1>2, <1>3, <2>1, DeliveryKeepsFlight, ContestWithout
<1>4. CASE /\ ~Receives(IfOf[p.to]) \/ p.to \notin assigned \/ ~Tentative(p.to)
           /\ wire' = wire \ {p}
           /\ UNCHANGED vars
  <2>1. Receives(IfOf[p.to])
    BY <1>2 DEF Receives, Steady, DadAssumption
  <2>2. ~Clean(p.to) /\ ~Clean(p.to)'
    BY <1>2, <1>4, <2>1 DEF Clean, Steady, IInv, Linked, vars
  <2>3. \A x, y \in Ifa : x # y /\ x # p.to /\ InFlight(x, y) => InFlight(x, y)'
    BY <1>2, <1>4 DEF InFlight, Exchange
  <2>4. \A x \in Ifa : /\ dp'[x] = dp[x] /\ flags'[x] = flags[x]
                       /\ x \in assigned' <=> x \in assigned
    BY <1>4 DEF vars
  <2>5. \A y \in Ifa \ {p.to} : Live(p.to)' /\ Live(y) =>
           Clean(y) /\ Unheard(y, p.to)'
    <3>1. Live(p.to)' <=> Live(p.to)
      BY <1>2, <2>2, <2>4 DEF Live, Usable, Tentative, Duplicated
    <3>2. \A y \in Ifa \ {p.to} : Unheard(y, p.to) => Unheard(y, p.to)'
      BY <1>1, <1>2, <2>3, <2>4 DEF Unheard
    <3> QED
      BY <1>2, <2>2, <3>1, <3>2 DEF Contest
  <2>6. Contest'
    BY <1>1, <1>2, <2>3, <2>4, <2>5, ContestAround
  <2>7. Steady'
    BY <1>2, <1>4 DEF Steady, Tentative, Duplicated, vars
  <2> QED
    BY <1>1, <1>2, <1>4, <2>6, <2>7
<1> QED
  BY <1>3, <1>4 DEF DeliverNa

\* A loss that matters is one the other node will not hear of, and counts.
LEMMA LoseKeeps ==
    ASSUME LinkInv, NEW p \in wire, Lose(p)
    PROVE  wire' \subseteq Packet /\ lost' \in 0..MaxLoss /\ Steady' /\ Contest'
<1>1. /\ Steady /\ Contest /\ wire \subseteq Packet
      /\ lost \in 0..MaxLoss /\ MaxLoss \in Nat /\ dp \in [Ifa -> Dadq]
      /\ UNCHANGED vars /\ lost' = lost + 1 /\ lost < MaxLoss
      /\ wire' = wire \ {p}
  BY LinkAssumption DEF LinkInv, LinkTypeOK, IInv, TypeOK, Lose
<1>2. \A x, y \in Ifa : Unheard(x, y) => Unheard(x, y)'
  <2>1. ASSUME NEW x \in Ifa, NEW y \in Ifa, Unheard(x, y) PROVE Unheard(x, y)'
    <3>1. dp'[x] = dp[x] /\ dp[x].ocount \in Nat
      BY <1>1 DEF vars, Dadq
    <3>2. lost + 1 >= dp[x].ocount
      BY <1>1, <2>1, <3>1 DEF Unheard
    <3> QED
      BY <1>1, <3>1, <3>2 DEF Unheard
  <2> QED
    BY <2>1
<1>3. \A x \in Ifa : (Clean(x)' <=> Clean(x)) /\ (Live(x)' <=> Live(x))
  BY <1>1 DEF Clean, Live, Usable, Tentative, Duplicated, vars
<1>4. Contest'
  BY <1>1, <1>2, <1>3 DEF Contest
<1>5. Steady'
  BY <1>1 DEF Steady, Tentative, Duplicated, vars
<1> QED
  BY <1>1, <1>4, <1>5

----------------------------------------------------------------------------
\* Whatever happens on the link, each node takes a step of Dad or none.
LEMMA LinkStepIsDadStep ==
    ASSUME DadAssumption, LinkTypeOK, [LinkNext]_linkvars PROVE [Next]_vars
<1>0. \A p \in wire : p.to \in Ifa
  BY DEF LinkTypeOK, Packet
<1>1. CASE LinkAssign
  <2>1. {} \in SUBSET Ifa
    OBVIOUS
  <2> QED
    BY <1>1, <2>1 DEF LinkAssign, Next, Configure
<1>2. CASE LinkPurge
  BY <1>2 DEF LinkPurge, Next, Configure
<1>3. CASE LinkTimer
  BY <1>3 DEF LinkTimer, Next
<1>4. ASSUME NEW p \in wire, DeliverNs(p) PROVE [Next]_vars
  BY <1>0, <1>4 DEF DeliverNs, Next, vars
<1>5. ASSUME NEW p \in wire, DeliverNa(p) PROVE [Next]_vars
  BY <1>0, <1>5 DEF DeliverNa, Next, vars
<1> QED
  BY <1>1, <1>2, <1>3, <1>4, <1>5 DEF LinkNext, Lose, linkvars

LEMMA LinkInvInit == ASSUME DadAssumption PROVE LinkInit => LinkInv
<1>1. ASSUME LinkInit PROVE LinkInv
  <2>1. TypeOK /\ RefsBalanced /\ Linked
    BY <1>1, NoDpType DEF LinkInit, TypeOK, RefsBalanced, Linked, Flag
  <2>2. LinkTypeOK
    BY <1>1, <2>1, LinkAssumption DEF LinkInit, LinkTypeOK
  <2>3. Steady
    BY <1>1, NoDpType DEF LinkInit, Steady, Tentative, Duplicated
  <2>4. Contest
    BY <1>1, NoDpType DEF LinkInit, Contest, Live, Clean, Usable
  <2> QED
    BY <2>1, <2>2, <2>3, <2>4 DEF LinkInv, IInv
<1> QED
  BY <1>1

LEMMA LinkInvStep ==
    ASSUME DadAssumption, Checked, LinkInv, [LinkNext]_linkvars
    PROVE  LinkInv'
<1>1. IInv'
  BY LinkStepIsDadStep, IInvStep DEF LinkInv
<1>2. wire' \subseteq Packet /\ lost' \in 0..MaxLoss /\ Steady' /\ Contest'
  <2>0. lost \in 0..MaxLoss
    BY DEF LinkInv, LinkTypeOK
  <2>1. CASE LinkAssign
    BY <2>0, <2>1, LinkAssignKeeps
  <2>2. CASE LinkPurge
    BY <2>0, <2>2, LinkPurgeKeeps
  <2>3. CASE LinkTimer
    BY <2>0, <2>3, LinkTimerKeeps
  <2>4. ASSUME NEW p \in wire, DeliverNs(p)
        PROVE  wire' \subseteq Packet /\ lost' \in 0..MaxLoss /\ Steady' /\ Contest'
    BY <2>0, <2>4, DeliverNsKeeps
  <2>5. ASSUME NEW p \in wire, DeliverNa(p)
        PROVE  wire' \subseteq Packet /\ lost' \in 0..MaxLoss /\ Steady' /\ Contest'
    BY <2>0, <2>5, DeliverNaKeeps
  <2>6. ASSUME NEW p \in wire, Lose(p)
        PROVE  wire' \subseteq Packet /\ lost' \in 0..MaxLoss /\ Steady' /\ Contest'
    BY <2>6, LoseKeeps
  <2>7. CASE UNCHANGED linkvars
    BY <2>7 DEF LinkInv, LinkTypeOK, linkvars, vars, Steady, Contest, Live, Clean,
                Usable, Tentative, Duplicated, Unheard, InFlight, Exchange
  <2> QED
    BY <2>1, <2>2, <2>3, <2>4, <2>5, <2>6, <2>7 DEF LinkNext
<1> QED
  BY <1>1, <1>2 DEF LinkInv, LinkTypeOK, IInv

\* Both would be past DadCount probes and answers, all lost: too many.
LEMMA LinkInvUnique == LinkInv => UniqueHolder
<1>1. ASSUME LinkInv, NEW a \in Ifa, NEW b \in Ifa, Usable(a), Usable(b)
      PROVE  a = b
  <2>1. ~Clean(a) /\ ~Clean(b)
    BY <1>1 DEF Clean, LinkInv, Steady, Usable
  <2> QED
    BY <1>1, <2>1 DEF LinkInv, Contest, Live
<1> QED
  BY <1>1 DEF UniqueHolder, LinkInv

(* Two nodes of the link never use the same address at once, however many  *)
(* nodes check it, restart and answer in whatever order, as long as the    *)
(* link loses fewer packets than DadCount and a probe and its answer take  *)
(* less than RetransTimer.                                                 *)
THEOREM DadUniqueHolder ==
    ASSUME Checked PROVE LinkSpec => []UniqueHolder
<1> USE DadAssumption
<1>1. LinkInit => LinkInv
  BY LinkInvInit
<1>2. LinkInv /\ [LinkNext]_linkvars => LinkInv'
  BY LinkInvStep
<1>3. LinkInv => UniqueHolder
  BY LinkInvUnique
<1> QED
  BY <1>1, <1>2, <1>3, PTL DEF LinkSpec

=============================================================================
