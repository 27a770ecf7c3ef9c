-------------------------- MODULE PrefixListProofs --------------------------
(***************************************************************************)
(* The invariants of PrefixList, for any number of interfaces, prefixes,   *)
(* routers and addresses.  The functions of nd6_rtr.c call each other      *)
(* while some of the properties are broken for a moment, so the inductive  *)
(* invariant has two layers.  Base holds at every call: one owner for each *)
(* route, exact references, no pointer to a router that has gone.  Full    *)
(* adds what the on-link check restores, and the lemma CheckOK says that   *)
(* it does so from Base alone.  Full(s, D) also says why prefixes are      *)
(* detached: those in D for whatever reason they had before the handler,   *)
(* all others for one that holds in s, so what a handler detaches, it      *)
(* detaches with a reason.  There is a lemma for every function.           *)
(***************************************************************************)
EXTENDS PrefixList, FoldProofs, TLAPS

Values == {PrefixOf[e] : e \in Entry}

EntryRec == [raf_onlink : BOOLEAN, valid : BOOLEAN, detached : BOOLEAN,
             onlink : BOOLEAN, adv : SUBSET Router, refcnt : Int]

ND == [list : Seq(Entry), entry : [Entry -> EntryRec], route : SUBSET Values,
       auto : [Entry -> {"none", "attached", "detached"}],
       manual : SUBSET Entry, routers : SUBSET Router, reach : SUBSET Router]

----------------------------------------------------------------------------
(* The invariant, in parts.                                                *)

\* What is not listed has no state and no address.
Clear(s, e) ==
    LET x == s.entry[e]
    IN  /\ ~ x.raf_onlink /\ ~ x.valid /\ ~ x.detached /\ ~ x.onlink
        /\ x.adv = {} /\ x.refcnt = 0
        /\ s.auto[e] = "none" /\ e \notin s.manual

Held(s, e) == (IF s.auto[e] = "none" THEN 0 ELSE 1) + (IF e \in s.manual THEN 1 ELSE 0)

Tidy(s) ==
    /\ s \in ND
    /\ IsInjective(s.list)
    /\ \A e \in Entry : e \notin Listed(s) => Clear(s, e)
    /\ \A e \in Entry : s.entry[e].refcnt = Held(s, e)
    /\ \A e \in Entry : s.entry[e].adv \subseteq s.routers
    /\ \A e \in Entry : s.entry[e].detached => s.entry[e].raf_onlink

\* Each route has one owner.
OneOwner(s) ==
    /\ \A e, f \in Entry : /\ s.entry[e].onlink /\ s.entry[f].onlink
                           /\ PrefixOf[e] = PrefixOf[f]
                           => e = f
    /\ \A e \in Entry : s.entry[e].onlink => PrefixOf[e] \in s.route
    /\ \A v \in s.route : \E e \in Entry : PrefixOf[e] = v /\ s.entry[e].onlink

Base(s) == Tidy(s) /\ OneOwner(s)

Attached(s) ==
    \A e \in Listed(s) :
        s.entry[e].raf_onlink /\ s.entry[e].valid /\ ~ s.entry[e].detached
            => PrefixOf[e] \in s.route

Usable(s) ==
    (\E e \in Entry : s.auto[e] = "detached") => \E e \in Entry : s.auto[e] = "attached"

\* What a detached prefix loses to: a router of another one that is reachable,
\* or routers that advertise nothing.
Reason(s, e) ==
    \/ \E f \in Listed(s) \ {e} : Reachable(s, f)
    \/ s.routers # {} /\ \A f \in Entry : s.entry[f].adv = {}

\* Only the entries in D are detached without a reason.
Justified(s, D) == \A e \in Entry : s.entry[e].detached => e \in D \/ Reason(s, e)

Full(s, D) == Base(s) /\ Attached(s) /\ Usable(s) /\ Justified(s, D)

----------------------------------------------------------------------------
(* What a function leaves as it was.                                       *)

Alike(x, y) ==
    x.raf_onlink = y.raf_onlink /\ x.valid = y.valid /\ x.adv = y.adv /\ x.refcnt = y.refcnt

\* All but the routes and the detached flags of prefixes and addresses.
Kept(m, s) ==
    /\ m.list = s.list /\ m.manual = s.manual
    /\ m.routers = s.routers /\ m.reach = s.reach
    /\ \A e \in Entry : Alike(m.entry[e], s.entry[e])
    /\ \A e \in Entry : (m.auto[e] = "none") <=> (s.auto[e] = "none")

\* All but the routes.
Still(m, s) ==
    /\ Kept(m, s) /\ m.auto = s.auto
    /\ \A e \in Entry : m.entry[e].detached = s.entry[e].detached

LEMMA Fields ==
    ASSUME NEW s \in ND
    PROVE  /\ s.list \in Seq(Entry) /\ s.entry \in [Entry -> EntryRec]
           /\ s.route \in SUBSET Values
           /\ s.auto \in [Entry -> {"none", "attached", "detached"}]
           /\ s.manual \in SUBSET Entry /\ s.routers \in SUBSET Router
           /\ s.reach \in SUBSET Router
           /\ Listed(s) \subseteq Entry
<1>1. s.list \in Seq(Entry)
  BY DEF ND
<1>2. Listed(s) \subseteq Entry
  BY <1>1 DEF Listed, ToSet
<1> QED
  BY <1>1, <1>2 DEF ND

LEMMA EntryFields ==
    ASSUME NEW x \in EntryRec
    PROVE  /\ x.raf_onlink \in BOOLEAN /\ x.valid \in BOOLEAN
           /\ x.detached \in BOOLEAN /\ x.onlink \in BOOLEAN
           /\ x.adv \in SUBSET Router /\ x.refcnt \in Int
  BY DEF EntryRec

LEMMA KeptTidy ==
    ASSUME NEW s, Tidy(s), NEW m \in ND, Kept(m, s),
           \A e \in Entry : e \notin Listed(s) => ~ m.entry[e].onlink,
           \A e \in Entry : m.entry[e].detached => s.entry[e].raf_onlink
    PROVE  Tidy(m)
<1>1. Listed(m) = Listed(s)
  BY DEF Kept, Listed
<1>2. \A e \in Entry : e \notin Listed(m) => Clear(m, e)
  BY <1>1 DEF Tidy, Clear, Kept, Alike
<1>3. \A e \in Entry : Held(m, e) = Held(s, e)
  BY DEF Kept, Held
<1>4. \A e \in Entry : /\ m.entry[e].refcnt = Held(m, e) /\ m.entry[e].adv \subseteq m.routers
                       /\ m.entry[e].detached => m.entry[e].raf_onlink
  BY <1>3 DEF Tidy, Kept, Alike
<1> QED
  BY <1>2, <1>4 DEF Tidy, Kept

LEMMA KeptTrans ==
    ASSUME NEW s, NEW m, NEW k, Kept(k, m), Kept(m, s) PROVE Kept(k, s)
  BY DEF Kept, Alike

LEMMA StillTrans ==
    ASSUME NEW s, NEW m, NEW k, Still(k, m), Still(m, s) PROVE Still(k, s)
  BY KeptTrans DEF Still

LEMMA KeptReason ==
    ASSUME NEW s, NEW m, Kept(m, s), Listed(s) \subseteq Entry, NEW e, Reason(s, e)
    PROVE  Reason(m, e)
  BY DEF Kept, Alike, Reason, Reachable, Listed

LEMMA StillJustified ==
    ASSUME NEW s, NEW m, Still(m, s), Listed(s) \subseteq Entry, NEW D, Justified(s, D)
    PROVE  Justified(m, D)
  BY KeptReason DEF Still, Justified

LEMMA KeptSelf == \A s : Kept(s, s) /\ Still(s, s)
  BY DEF Kept, Still, Alike

----------------------------------------------------------------------------
(* nd6_prefix_onlink                                                       *)

\* The owner of a route is set or cleared.
Owned(s, e, v, R) == [s EXCEPT !.route = R, !.entry[e].onlink = v]
Changed(m, s, e, v, R) ==
    /\ m \in ND /\ Still(m, s) /\ m.route = R
    /\ m.entry[e].onlink = v
    /\ \A x \in Entry : x # e => m.entry[x].onlink = s.entry[x].onlink

LEMMA Routing ==
    ASSUME NEW s \in ND, NEW e \in Entry, NEW v \in BOOLEAN, NEW R \in SUBSET Values
    PROVE  Changed(Owned(s, e, v, R), s, e, v, R)
<1> DEFINE m == Owned(s, e, v, R)
           t == s.entry
           u == [t EXCEPT ![e].onlink = v]
<1>1. t \in [Entry -> EntryRec]
  BY Fields
<1>2. /\ m.list = s.list /\ m.manual = s.manual /\ m.routers = s.routers
      /\ m.reach = s.reach /\ m.auto = s.auto /\ m.route = R /\ m.entry = u
  BY DEF ND, Owned
<1> HIDE DEF t
<1>3. u \in [Entry -> EntryRec]
  BY <1>1 DEF EntryRec
<1>4. m \in ND
  <2>1. m = [s EXCEPT !.route = R, !.entry = u]
    BY DEF t, Owned
  <2> HIDE DEF u, m
  <2> QED
    BY <1>3, <2>1 DEF ND
<1>5. /\ u[e].onlink = v /\ u[e].detached = t[e].detached /\ Alike(u[e], t[e])
      /\ \A x \in Entry : x # e => u[x] = t[x]
  BY <1>1 DEF EntryRec, Alike
<1> HIDE DEF u
<1>6. \A x \in Entry : Alike(u[x], t[x]) /\ u[x].detached = t[x].detached
  BY <1>5 DEF Alike
<1> QED
  <2> HIDE DEF m
  <2>1. Still(m, s)
    BY <1>2, <1>6 DEF Still, Kept, t
  <2>2. m.entry[e].onlink = v /\ \A x \in Entry : x # e => m.entry[x].onlink = s.entry[x].onlink
    BY <1>2, <1>5 DEF t
  <2> QED
    BY <1>2, <1>4, <2>1, <2>2 DEF m, Changed

LEMMA OnlinkOK ==
    ASSUME NEW s, Base(s), NEW e \in Entry, e \in Listed(s)
    PROVE  LET m == Onlink(s, e)
           IN  /\ Base(m) /\ Still(m, s)
               /\ m.route = s.route \cup {PrefixOf[e]}
               /\ \A x \in Entry : PrefixOf[x] # PrefixOf[e]
                      => m.entry[x].onlink = s.entry[x].onlink
               /\ \A x \in Entry : x # e => m.entry[x].onlink = s.entry[x].onlink
<1> DEFINE m == Onlink(s, e)
           owned == s.entry[e].onlink \/ \E o \in Listed(s) : Same(e, o) /\ s.entry[o].onlink
<1>0. s \in ND /\ Tidy(s) /\ OneOwner(s) /\ Listed(s) \subseteq Entry
  BY Fields DEF Base, Tidy
<1>1. CASE owned
  <2>1. m = s
    BY <1>1 DEF Onlink
  <2>2. PrefixOf[e] \in s.route
    BY <1>0, <1>1 DEF OneOwner, Same
  <2> HIDE DEF m
  <2> QED
    BY <2>1, <2>2, KeptSelf DEF m
<1>2. CASE ~ owned
  <2> DEFINE R == s.route \cup {PrefixOf[e]}
  <2>1. m = Owned(s, e, TRUE, R)
    BY <1>2 DEF Onlink, Owned
  <2>2. R \in SUBSET Values
    BY <1>0, Fields DEF Values
  <2> HIDE DEF m, R
  <2>3. /\ m \in ND /\ Still(m, s) /\ m.route = R
        /\ m.entry[e].onlink = TRUE
        /\ \A x \in Entry : x # e => m.entry[x].onlink = s.entry[x].onlink
    <3>1. s \in ND /\ TRUE \in BOOLEAN
      BY <1>0
    <3>2. Changed(Owned(s, e, TRUE, R), s, e, TRUE, R)
      BY <2>2, <3>1, Routing, Zenon
    <3> QED
      BY <2>1, <3>2 DEF Changed
  <2>4. \A x \in Entry : PrefixOf[x] = PrefixOf[e] => ~ s.entry[x].onlink
    BY <1>0, <1>2 DEF Tidy, Clear, Same
  <2>5. Tidy(m)
    <3>1. /\ \A x \in Entry : x \notin Listed(s) => ~ m.entry[x].onlink
          /\ \A x \in Entry : m.entry[x].detached => s.entry[x].raf_onlink
      BY <1>0, <2>3 DEF Tidy, Clear, Still
    <3> QED
      BY <1>0, <2>3, <3>1, KeptTidy DEF Still
  <2>6. OneOwner(m)
    <3>1. \A v \in m.route : \E x \in Entry : PrefixOf[x] = v /\ m.entry[x].onlink
      <4> SUFFICES ASSUME NEW v \in m.route
                   PROVE  \E x \in Entry : PrefixOf[x] = v /\ m.entry[x].onlink
        OBVIOUS
      <4>1. CASE v = PrefixOf[e]
        BY <2>3, <4>1
      <4>2. CASE v # PrefixOf[e]
        <5>1. PICK x \in Entry : PrefixOf[x] = v /\ s.entry[x].onlink
          BY <1>0, <2>3, <4>2 DEF OneOwner, R
        <5> QED
          BY <2>3, <4>2, <5>1
      <4> QED
        BY <4>1, <4>2
    <3>2. \A x \in Entry : m.entry[x].onlink => PrefixOf[x] \in m.route
      BY <1>0, <2>3 DEF OneOwner, R
    <3>3. ASSUME NEW x \in Entry, NEW y \in Entry, m.entry[x].onlink, m.entry[y].onlink,
                 PrefixOf[x] = PrefixOf[y]
          PROVE  x = y
      <4>1. CASE PrefixOf[x] = PrefixOf[e]
        BY <2>3, <2>4, <3>3, <4>1
      <4>2. CASE PrefixOf[x] # PrefixOf[e]
        BY <1>0, <2>3, <3>3, <4>2 DEF OneOwner
      <4> QED
        BY <4>1, <4>2
    <3> QED
      BY <3>1, <3>2, <3>3 DEF OneOwner
  <2> QED
    BY <2>3, <2>5, <2>6 DEF m, Base, R
<1> QED
  BY <1>1, <1>2

(* Onlink of one entry after the other: A holds all the way, good[n] after *)
(* the first n of them.                                                    *)
OnlinkFold(g, s, es) ==
    g = [T \in SUBSET (DOMAIN es) |->
            IF T = {} THEN s ELSE Onlink(g[T \ {Max(T)}], es[Max(T)])]

OnlinkAll(s, es) == FoldLeft(Onlink, s, es)

OnlinkGoes(es, N, A, good) ==
    /\ DOMAIN es = 1..N
    /\ \A i \in 1..N : \A m \in A : Onlink(m, es[i]) \in A
    /\ \A n \in 1..N : \A m \in A \cap good[n - 1] : Onlink(m, es[n]) \in good[n]

LEMMA OnlinkAllReaches ==
    ASSUME NEW N \in Nat, NEW es, NEW A, NEW s \in A, NEW good, s \in good[0],
           OnlinkGoes(es, N, A, good)
    PROVE  OnlinkAll(s, es) \in A \cap good[N]
<1> DEFINE g == CHOOSE h : OnlinkFold(h, s, es)
           step == [i \in 1..N |-> [m \in A |-> Onlink(m, es[i])]]
           both == [n \in 0..N |-> A \cap good[n]]
<1>0. /\ DOMAIN es = 1..N
      /\ \A i \in 1..N : \A m \in A : Onlink(m, es[i]) \in A
      /\ \A n \in 1..N : \A m \in A \cap good[n - 1] : Onlink(m, es[n]) \in good[n]
  BY DEF OnlinkGoes
<1>1. OnlinkAll(s, es) = g[1..N]
  BY <1>0 DEF OnlinkAll, FoldLeft, MapThenFoldSet, OnlinkFold
<1>2. step \in [1..N -> [A -> A]]
  BY <1>0
<1>3. \A i \in 1..N : \A m \in A : step[i][m] = Onlink(m, es[i])
  OBVIOUS
<1> HIDE DEF step
<1>4. PICK iter \in [SUBSET (1..N) -> A] :
         \A T \in SUBSET (1..N) :
             /\ iter[T] = IF T = {} THEN s ELSE step[Max(T)][iter[T \ {Max(T)}]]
             /\ T # {} => Max(T) \in T
  BY <1>2, ListFoldExists
<1>5. OnlinkFold(iter, s, es)
  <2>1. ASSUME NEW T \in SUBSET (1..N)
        PROVE  iter[T] = IF T = {} THEN s ELSE Onlink(iter[T \ {Max(T)}], es[Max(T)])
    <3>1. CASE T # {}
      <4>1. Max(T) \in 1..N /\ iter[T] = step[Max(T)][iter[T \ {Max(T)}]]
        BY <1>4, <3>1
      <4>2. iter[T \ {Max(T)}] \in A
        BY <1>4
      <4> QED
        BY <1>3, <3>1, <4>1, <4>2
    <3> QED
      BY <1>4, <3>1
  <2>2. iter = [T \in SUBSET (1..N) |->
                   IF T = {} THEN s ELSE Onlink(iter[T \ {Max(T)}], es[Max(T)])]
    BY <1>4, <2>1
  <2> QED
    BY <1>0, <2>2 DEF OnlinkFold
<1>6. OnlinkFold(g, s, es)
  BY <1>5
<1> HIDE DEF g
<1>7. /\ g[{}] = s
      /\ \A n \in 1..N : g[1..n] = Onlink(g[1..(n - 1)], es[n])
  <2>1. \A T \in SUBSET (1..N) :
           g[T] = IF T = {} THEN s ELSE Onlink(g[T \ {Max(T)}], es[Max(T)])
    BY <1>0, <1>6 DEF OnlinkFold
  <2>2. ASSUME NEW n \in 1..N PROVE g[1..n] = Onlink(g[1..(n - 1)], es[n])
    <3>1. /\ Max(1..n) = n /\ (1..n) \ {n} = 1..(n - 1) /\ 1..n # {} /\ 1..n \in SUBSET (1..N)
      BY PrefixMax
    <3> QED
      BY <2>1, <3>1
  <2> QED
    BY <2>1, <2>2
<1>8. g[{}] \in both[0]
  BY <1>7
<1>9. ASSUME NEW n \in 1..N, g[1..(n - 1)] \in both[n - 1] PROVE g[1..n] \in both[n]
  <2>1. n - 1 \in 0..N /\ n \in 0..N
    OBVIOUS
  <2>2. g[1..(n - 1)] \in A \cap good[n - 1]
    BY <1>9, <2>1
  <2>3. g[1..n] \in A /\ g[1..n] \in good[n]
    BY <1>0, <1>7, <2>2
  <2> QED
    BY <2>1, <2>3
<1>10. g[1..N] \in both[N]
  <2> HIDE DEF both
  <2> QED
    BY <1>8, <1>9, Reaches
<1> QED
  BY <1>1, <1>10

----------------------------------------------------------------------------
(* nd6_prefix_offlink: e gives its route up, and whoever may have it after *)
(* e takes it.                                                             *)
LEMMA OfflinkOK ==
    ASSUME NEW s, Base(s), NEW e \in Entry, e \in Listed(s), s.entry[e].onlink
    PROVE  LET m == Offlink(s, e)
           IN  /\ Base(m) /\ Still(m, s) /\ ~ m.entry[e].onlink
               /\ \A v \in s.route : v # PrefixOf[e] => v \in m.route
               /\ \A x \in Listed(s) : x # e /\ PrefixOf[x] = PrefixOf[e] /\ ~ s.entry[x].detached
                      => PrefixOf[e] \in m.route
<1> DEFINE R == s.route \ {PrefixOf[e]}
           off == Owned(s, e, FALSE, R)
           unfit == {o \in Entry : ~ Same(e, o) \/ s.entry[o].onlink \/ s.entry[o].detached}
           heirs == Without(s.list, unfit)
           N == Len(heirs)
           A == {m \in ND : Base(m) /\ Still(m, off) /\ ~ m.entry[e].onlink /\ off.route \subseteq m.route}
           good == [n \in 0..N |-> {m \in ND : n > 0 => PrefixOf[e] \in m.route}]
<1>0. s \in ND /\ Tidy(s) /\ OneOwner(s) /\ Listed(s) \subseteq Entry /\ s.list \in Seq(Entry)
  BY Fields DEF Base, Tidy
<1>1. Changed(off, s, e, FALSE, R)
  <2>1. s \in ND /\ FALSE \in BOOLEAN /\ R \in SUBSET Values
    BY <1>0, Fields
  <2> QED
    BY <2>1, Routing, Zenon
<1>2. Offlink(s, e) = OnlinkAll(off, heirs)
  BY DEF Offlink, Owned, OnlinkAll
<1>3. /\ off \in ND /\ Still(off, s) /\ off.route = R /\ ~ off.entry[e].onlink
      /\ \A x \in Entry : x # e => off.entry[x].onlink = s.entry[x].onlink
  <2> HIDE DEF off
  <2> QED
    BY <1>1 DEF Changed
<1>4. heirs \in Seq(Entry) /\ ToSet(heirs) = ToSet(s.list) \ unfit
  BY <1>0, WithoutFacts
<1>5. /\ N \in Nat /\ DOMAIN heirs = 1..N
      /\ \A i \in 1..N : heirs[i] \in Entry /\ heirs[i] \in ToSet(heirs)
      /\ \A x \in ToSet(heirs) : N > 0
  <2> HIDE DEF heirs
  <2> QED
    BY <1>4 DEF ToSet
<1>6. \A i \in 1..N : Same(e, heirs[i]) /\ heirs[i] \in Listed(s)
  BY <1>4, <1>5 DEF Listed
<1> HIDE DEF off, R, heirs, N
<1>7. Base(off)
  <2>1. Tidy(off)
    <3>1. /\ \A x \in Entry : x \notin Listed(s) => ~ off.entry[x].onlink
          /\ \A x \in Entry : off.entry[x].detached => s.entry[x].raf_onlink
      BY <1>0, <1>3 DEF Tidy, Clear, Still
    <3> QED
      BY <1>0, <1>3, <3>1, KeptTidy DEF Still
  <2>2. \A x \in Entry : off.entry[x].onlink => PrefixOf[x] # PrefixOf[e]
    BY <1>0, <1>3 DEF OneOwner
  <2>3. OneOwner(off)
    BY <1>0, <1>3, <2>2 DEF OneOwner, R
  <2> QED
    BY <2>1, <2>3 DEF Base
<1>8. off \in A
  BY <1>3, <1>7, KeptSelf
<1>9. ASSUME NEW i \in 1..N, NEW m \in A
      PROVE  Onlink(m, heirs[i]) \in A /\ PrefixOf[e] \in Onlink(m, heirs[i]).route
  <2> DEFINE k == Onlink(m, heirs[i])
  <2>1. heirs[i] \in Entry /\ heirs[i] \in Listed(m) /\ heirs[i] # e /\ PrefixOf[heirs[i]] = PrefixOf[e]
    BY <1>3, <1>5, <1>6 DEF Still, Kept, Listed, Same
  <2>2. /\ Base(k) /\ Still(k, m) /\ k.route = m.route \cup {PrefixOf[e]}
        /\ ~ k.entry[e].onlink
    BY <2>1, OnlinkOK
  <2> HIDE DEF k
  <2>3. k \in ND /\ Still(k, off)
    BY <2>2, StillTrans DEF Base, Tidy
  <2> QED
    BY <2>2, <2>3 DEF k
<1>10. \A i \in 1..N : \A m \in A : Onlink(m, heirs[i]) \in A
  BY <1>9
<1>11. \A n \in 1..N : \A m \in A \cap good[n - 1] : Onlink(m, heirs[n]) \in good[n]
  <2> SUFFICES ASSUME NEW n \in 1..N, NEW m \in A PROVE Onlink(m, heirs[n]) \in good[n]
    OBVIOUS
  <2>1. n \in 0..N
    BY <1>5
  <2>2. Onlink(m, heirs[n]) \in ND /\ PrefixOf[e] \in Onlink(m, heirs[n]).route
    BY <1>9
  <2> QED
    BY <2>1, <2>2
<1>12. off \in good[0]
  BY <1>3, <1>5
<1>13. Offlink(s, e) \in A \cap good[N]
  <2> HIDE DEF A, good
  <2>1. OnlinkGoes(heirs, N, A, good)
    BY <1>5, <1>10, <1>11 DEF OnlinkGoes
  <2>2. N \in Nat
    BY <1>5
  <2>3. OnlinkAll(off, heirs) \in A \cap good[N]
    BY <1>8, <1>12, <2>1, <2>2, OnlinkAllReaches, Zenon
  <2> QED
    BY <1>2, <2>3
<1> DEFINE m == Offlink(s, e)
<1>14. /\ m \in ND /\ Base(m) /\ Still(m, off) /\ ~ m.entry[e].onlink
       /\ R \subseteq m.route /\ (N > 0 => PrefixOf[e] \in m.route)
  <2>1. m \in A /\ m \in good[N] /\ N \in 0..N
    BY <1>5, <1>13
  <2> HIDE DEF m
  <2> QED
    BY <1>3, <2>1
<1>15. ASSUME NEW x \in Listed(s), x # e, PrefixOf[x] = PrefixOf[e], ~ s.entry[x].detached
       PROVE  PrefixOf[e] \in m.route
  <2>1. ~ s.entry[x].onlink
    BY <1>0, <1>15 DEF OneOwner
  <2>2. x \in ToSet(heirs)
    BY <1>0, <1>4, <1>15, <2>1 DEF Same, Listed
  <2> QED
    BY <1>5, <1>14, <2>2
<1>16. Still(m, s)
  BY <1>3, <1>14, StillTrans
<1> HIDE DEF m
<1> QED
  BY <1>14, <1>15, <1>16 DEF R, m

----------------------------------------------------------------------------
(* pfxlist_onlink_check                                                    *)

\* Only detached flags change.
LEMMA FlaggedOK ==
    ASSUME NEW s, Base(s)
    PROVE  LET m == Flagged(s)
           IN  /\ Base(m) /\ Kept(m, s) /\ m.auto = s.auto
               /\ \A e \in Entry : m.entry[e].detached => Reason(s, e)
<1> DEFINE m == Flagged(s)
           judged == {e \in Listed(s) : s.entry[e].raf_onlink}
           lost == IF Evidence(s) THEN {e \in judged : ~ Reachable(s, e)} ELSE {}
           t == s.entry
           u == [e \in Entry |->
                   IF e \in judged THEN [t[e] EXCEPT !.detached = e \in lost] ELSE t[e]]
<1>0. s \in ND /\ Tidy(s) /\ OneOwner(s) /\ Listed(s) \subseteq Entry
  BY Fields DEF Base, Tidy
<1>1. t \in [Entry -> EntryRec]
  BY <1>0, Fields
<1>2. m = [s EXCEPT !.entry = u]
  BY DEF Flagged
<1> HIDE DEF m, t, lost
<1>3. u \in [Entry -> EntryRec]
  <2>1. ASSUME NEW e \in Entry PROVE [t[e] EXCEPT !.detached = e \in lost] \in EntryRec
    <3>1. \A b \in BOOLEAN : [t[e] EXCEPT !.detached = b] \in EntryRec
      BY <1>1 DEF EntryRec
    <3>2. (e \in lost) \in BOOLEAN
      OBVIOUS
    <3> QED
      BY <3>1, <3>2, Zenon
  <2> QED
    BY <1>1, <2>1
<1>4. \A e \in Entry : Alike(u[e], t[e]) /\ u[e].onlink = t[e].onlink
  BY <1>1 DEF Alike, EntryRec
<1>5. /\ \A e \in Entry : e \notin judged => u[e] = t[e]
      /\ \A e \in Entry : e \in judged => (u[e].detached <=> e \in lost)
      /\ \A e \in judged : e \in Listed(s) /\ t[e].raf_onlink
  BY <1>1 DEF EntryRec, t
<1>11. \A e \in lost : Reason(s, e)
  <2> SUFFICES ASSUME NEW e \in lost PROVE Reason(s, e)
    OBVIOUS
  <2>1. Evidence(s) /\ ~ Reachable(s, e)
    BY DEF lost
  <2>2. CASE \E f \in Listed(s) : s.entry[f].raf_onlink /\ Reachable(s, f)
    BY <2>1, <2>2 DEF Reason
  <2>3. CASE s.routers # {} /\ \A f \in Listed(s) : s.entry[f].adv \cap s.routers = {}
    <3>1. \A f \in Entry : s.entry[f].adv = {}
      BY <1>0, <2>3 DEF Tidy, Clear
    <3> QED
      BY <2>3, <3>1 DEF Reason
  <2> QED
    BY <2>1, <2>2, <2>3 DEF Evidence
<1> HIDE DEF u, judged
<1>6. /\ m \in ND
      /\ m.list = s.list /\ m.manual = s.manual /\ m.routers = s.routers
      /\ m.reach = s.reach /\ m.auto = s.auto /\ m.route = s.route /\ m.entry = u
  BY <1>0, <1>2, <1>3 DEF ND
<1>7. Kept(m, s)
  BY <1>4, <1>6 DEF Kept, t
<1>8. /\ \A e \in Entry : e \notin Listed(s) => ~ m.entry[e].onlink
      /\ \A e \in Entry : m.entry[e].detached => s.entry[e].raf_onlink
  BY <1>0, <1>5, <1>6 DEF Tidy, Clear, t
<1>9. Tidy(m)
  BY <1>0, <1>6, <1>7, <1>8, KeptTidy
<1>10. OneOwner(m)
  BY <1>0, <1>4, <1>6 DEF OneOwner, t
<1>12. \A e \in Entry : m.entry[e].detached => Reason(s, e)
  <2> SUFFICES ASSUME NEW e \in Entry, u[e].detached PROVE Reason(s, e)
    BY <1>6
  <2>1. CASE e \in judged
    BY <1>5, <1>11, <2>1
  <2>2. CASE e \notin judged
    <3>1. t[e].detached /\ t[e].raf_onlink /\ e \in Listed(s)
      BY <1>0, <1>5, <2>2 DEF Tidy, Clear, t
    <3> QED
      BY <2>2, <3>1 DEF judged, t
  <2> QED
    BY <2>1, <2>2
<1> QED
  BY <1>6, <1>7, <1>9, <1>10, <1>12 DEF Base, m

\* A listed prefix that is not detached gets or keeps its route.
LEMMA ReroutedOK ==
    ASSUME NEW s, Base(s), NEW e \in Entry, e \in Listed(s)
    PROVE  LET m == Rerouted(s, e)
           IN  /\ Base(m) /\ Still(m, s)
               /\ s.entry[e].raf_onlink /\ ~ s.entry[e].detached => PrefixOf[e] \in m.route
               /\ \A x \in Listed(s) : ~ s.entry[x].detached /\ PrefixOf[x] \in s.route
                      => PrefixOf[x] \in m.route
<1> DEFINE m == Rerouted(s, e)
           x == s.entry[e]
<1>1. CASE x.raf_onlink /\ x.detached /\ x.onlink
  <2>1. m = Offlink(s, e)
    BY <1>1 DEF Rerouted
  <2>2. /\ Base(m) /\ Still(m, s)
        /\ \A v \in s.route : v # PrefixOf[e] => v \in m.route
        /\ \A y \in Listed(s) : y # e /\ PrefixOf[y] = PrefixOf[e] /\ ~ s.entry[y].detached
               => PrefixOf[e] \in m.route
    BY <1>1, <2>1, OfflinkOK
  <2> HIDE DEF m
  <2>3. ASSUME NEW y \in Listed(s), ~ s.entry[y].detached, PrefixOf[y] \in s.route
        PROVE  PrefixOf[y] \in m.route
    BY <1>1, <2>2, <2>3
  <2> QED
    BY <1>1, <2>2, <2>3 DEF m
<1>2. CASE ~ x.detached /\ ~ x.onlink /\ x.raf_onlink
  <2>1. m = Onlink(s, e)
    BY <1>2 DEF Rerouted
  <2>2. Base(m) /\ Still(m, s) /\ m.route = s.route \cup {PrefixOf[e]}
    BY <2>1, OnlinkOK
  <2> HIDE DEF m
  <2> QED
    BY <2>2 DEF m
<1>3. CASE ~ x.raf_onlink \/ (x.detached /\ ~ x.onlink) \/ (~ x.detached /\ x.onlink)
  <2>1. m = s
    BY <1>3 DEF Rerouted
  <2>2. x.onlink => PrefixOf[e] \in s.route
    BY DEF Base, OneOwner
  <2> HIDE DEF m
  <2> QED
    BY <1>3, <2>1, <2>2, KeptSelf DEF m
<1> QED
  BY <1>1, <1>2, <1>3

(* The prefixes of the list in their order. *)
ReroutedFold(g, s, es) ==
    g = [T \in SUBSET (DOMAIN es) |->
            IF T = {} THEN s ELSE Rerouted(g[T \ {Max(T)}], es[Max(T)])]

ReroutedAll(s, es) == FoldLeft(Rerouted, s, es)

ReroutedGoes(es, N, A, good) ==
    /\ DOMAIN es = 1..N
    /\ \A i \in 1..N : \A m \in A : Rerouted(m, es[i]) \in A
    /\ \A n \in 1..N : \A m \in A \cap good[n - 1] : Rerouted(m, es[n]) \in good[n]

LEMMA ReroutedAllReaches ==
    ASSUME NEW N \in Nat, NEW es, NEW A, NEW s \in A, NEW good, s \in good[0],
           ReroutedGoes(es, N, A, good)
    PROVE  ReroutedAll(s, es) \in A \cap good[N]
<1> DEFINE g == CHOOSE h : ReroutedFold(h, s, es)
           step == [i \in 1..N |-> [m \in A |-> Rerouted(m, es[i])]]
           both == [n \in 0..N |-> A \cap good[n]]
<1>0. /\ DOMAIN es = 1..N
      /\ \A i \in 1..N : \A m \in A : Rerouted(m, es[i]) \in A
      /\ \A n \in 1..N : \A m \in A \cap good[n - 1] : Rerouted(m, es[n]) \in good[n]
  BY DEF ReroutedGoes
<1>1. ReroutedAll(s, es) = g[1..N]
  BY <1>0 DEF ReroutedAll, FoldLeft, MapThenFoldSet, ReroutedFold
<1>2. step \in [1..N -> [A -> A]]
  BY <1>0
<1>3. \A i \in 1..N : \A m \in A : step[i][m] = Rerouted(m, es[i])
  OBVIOUS
<1> HIDE DEF step
<1>4. PICK iter \in [SUBSET (1..N) -> A] :
         \A T \in SUBSET (1..N) :
             /\ iter[T] = IF T = {} THEN s ELSE step[Max(T)][iter[T \ {Max(T)}]]
             /\ T # {} => Max(T) \in T
  BY <1>2, ListFoldExists
<1>5. ReroutedFold(iter, s, es)
  <2>1. ASSUME NEW T \in SUBSET (1..N)
        PROVE  iter[T] = IF T = {} THEN s ELSE Rerouted(iter[T \ {Max(T)}], es[Max(T)])
    <3>1. CASE T # {}
      <4>1. Max(T) \in 1..N /\ iter[T] = step[Max(T)][iter[T \ {Max(T)}]]
        BY <1>4, <3>1
      <4>2. iter[T \ {Max(T)}] \in A
        BY <1>4
      <4> QED
        BY <1>3, <3>1, <4>1, <4>2
    <3> QED
      BY <1>4, <3>1
  <2>2. iter = [T \in SUBSET (1..N) |->
                   IF T = {} THEN s ELSE Rerouted(iter[T \ {Max(T)}], es[Max(T)])]
    BY <1>4, <2>1
  <2> QED
    BY <1>0, <2>2 DEF ReroutedFold
<1>6. ReroutedFold(g, s, es)
  BY <1>5
<1> HIDE DEF g
<1>7. /\ g[{}] = s
      /\ \A n \in 1..N : g[1..n] = Rerouted(g[1..(n - 1)], es[n])
  <2>1. \A T \in SUBSET (1..N) :
           g[T] = IF T = {} THEN s ELSE Rerouted(g[T \ {Max(T)}], es[Max(T)])
    BY <1>0, <1>6 DEF ReroutedFold
  <2>2. ASSUME NEW n \in 1..N PROVE g[1..n] = Rerouted(g[1..(n - 1)], es[n])
    <3>1. /\ Max(1..n) = n /\ (1..n) \ {n} = 1..(n - 1) /\ 1..n # {} /\ 1..n \in SUBSET (1..N)
      BY PrefixMax
    <3> QED
      BY <2>1, <3>1
  <2> QED
    BY <2>1, <2>2
<1>8. g[{}] \in both[0]
  BY <1>7
<1>9. ASSUME NEW n \in 1..N, g[1..(n - 1)] \in both[n - 1] PROVE g[1..n] \in both[n]
  <2>1. n - 1 \in 0..N /\ n \in 0..N
    OBVIOUS
  <2>2. g[1..(n - 1)] \in A \cap good[n - 1]
    BY <1>9, <2>1
  <2>3. g[1..n] \in A /\ g[1..n] \in good[n]
    BY <1>0, <1>7, <2>2
  <2> QED
    BY <2>1, <2>3
<1>10. g[1..N] \in both[N]
  <2> HIDE DEF both
  <2> QED
    BY <1>8, <1>9, Reaches
<1> QED
  BY <1>1, <1>10

LEMMA ReroutedAllOK ==
    ASSUME NEW s, Base(s)
    PROVE  LET m == FoldLeft(Rerouted, s, s.list)
           IN  /\ Base(m) /\ Still(m, s)
               /\ \A x \in Listed(s) : s.entry[x].raf_onlink /\ ~ s.entry[x].detached
                      => PrefixOf[x] \in m.route
<1> DEFINE es == s.list
           N == Len(es)
           Due(x) == s.entry[x].raf_onlink /\ ~ s.entry[x].detached
           A == {m \in ND : Base(m) /\ Still(m, s)}
           good == [n \in 0..N |-> {m \in ND : \A i \in 1..n : Due(es[i]) => PrefixOf[es[i]] \in m.route}]
<1>0. s \in ND /\ Listed(s) \subseteq Entry /\ es \in Seq(Entry)
  BY Fields DEF Base, Tidy
<1> HIDE DEF es
<1>1. N \in Nat /\ DOMAIN es = 1..N /\ \A i \in 1..N : es[i] \in Entry
  BY <1>0
<1>2. \A x \in Listed(s) : \E i \in 1..N : x = es[i]
  BY <1>1 DEF Listed, ToSet, es
<1>3. \A i \in 1..N : es[i] \in Listed(s)
  BY <1>1 DEF Listed, ToSet, es
<1> HIDE DEF N
<1>4. s \in A
  BY <1>0, KeptSelf
<1>5. ASSUME NEW i \in 1..N, NEW m \in A
      PROVE  /\ Rerouted(m, es[i]) \in A
             /\ Due(es[i]) => PrefixOf[es[i]] \in Rerouted(m, es[i]).route
             /\ \A x \in Listed(s) : Due(x) /\ PrefixOf[x] \in m.route
                   => PrefixOf[x] \in Rerouted(m, es[i]).route
  <2> DEFINE k == Rerouted(m, es[i])
             e == es[i]
  <2>1. e \in Entry /\ e \in Listed(m) /\ Listed(m) = Listed(s) /\ Base(m) /\ Still(m, s)
    BY <1>1, <1>3 DEF Still, Kept, Listed
  <2> HIDE DEF A, e
  <2>2. /\ Base(k) /\ Still(k, m)
        /\ m.entry[e].raf_onlink /\ ~ m.entry[e].detached => PrefixOf[e] \in k.route
        /\ \A x \in Listed(m) : ~ m.entry[x].detached /\ PrefixOf[x] \in m.route
               => PrefixOf[x] \in k.route
    BY <2>1, ReroutedOK DEF e
  <2> HIDE DEF k
  <2>3. \A x \in Entry : Due(x) => m.entry[x].raf_onlink /\ ~ m.entry[x].detached
    BY <2>1 DEF Still, Kept, Alike
  <2>4. k \in ND /\ Still(k, s)
    BY <2>1, <2>2, StillTrans DEF Base, Tidy
  <2>5. \A x \in Listed(s) : Due(x) /\ PrefixOf[x] \in m.route => PrefixOf[x] \in k.route
    BY <1>0, <2>1, <2>2, <2>3
  <2>6. Due(e) => PrefixOf[e] \in k.route
    BY <2>1, <2>2, <2>3
  <2> HIDE DEF Due
  <2> QED
    BY <2>2, <2>4, <2>5, <2>6 DEF k, e, A
<1> HIDE DEF Due
<1>6. \A i \in 1..N : \A m \in A : Rerouted(m, es[i]) \in A
  BY <1>5
<1>7. ASSUME NEW n \in 1..N, NEW m \in A \cap good[n - 1] PROVE Rerouted(m, es[n]) \in good[n]
  <2> DEFINE k == Rerouted(m, es[n])
  <2>1. n \in 0..N /\ n - 1 \in 0..N /\ \A i \in 1..n : (i = n \/ i \in 1..(n - 1)) /\ i \in 1..N
    BY <1>1
  <2>2. \A i \in 1..(n - 1) : Due(es[i]) => PrefixOf[es[i]] \in m.route
    BY <2>1
  <2>3. k \in ND
    BY <1>6
  <2>4. \A i \in 1..n : Due(es[i]) => PrefixOf[es[i]] \in k.route
    BY <1>3, <1>5, <2>1, <2>2
  <2> HIDE DEF k
  <2>5. k \in good[n]
    BY <2>1, <2>3, <2>4
  <2> QED
    BY <2>5 DEF k
<1>8. s \in good[0]
  BY <1>0, <1>1
<1>9. ReroutedAll(s, es) \in A \cap good[N]
  <2> HIDE DEF A, good
  <2>1. ReroutedGoes(es, N, A, good)
    BY <1>1, <1>6, <1>7 DEF ReroutedGoes
  <2>2. N \in Nat
    BY <1>1
  <2> QED
    BY <1>4, <1>8, <2>1, <2>2, ReroutedAllReaches, Zenon
<1> DEFINE m == FoldLeft(Rerouted, s, s.list)
<1>10. m = ReroutedAll(s, es)
  BY DEF ReroutedAll, es
<1> HIDE DEF m
<1>11. Base(m) /\ Still(m, s) /\ \A i \in 1..N : Due(es[i]) => PrefixOf[es[i]] \in m.route
  <2>1. m \in A /\ m \in good[N] /\ N \in 0..N
    BY <1>1, <1>9, <1>10
  <2> QED
    BY <2>1
<1>12. \A x \in Listed(s) : Due(x) => PrefixOf[x] \in m.route
  BY <1>2, <1>11
<1> QED
  BY <1>11, <1>12 DEF m, Due


\* A detached address leaves an attached one.
LEMMA ReaddressedOK ==
    ASSUME NEW s, Base(s)
    PROVE  LET m == Readdressed(s)
           IN  /\ Base(m) /\ Kept(m, s) /\ Usable(m)
               /\ m.entry = s.entry /\ m.route = s.route
<1> DEFINE m == Readdressed(s)
           formed == {e \in Entry : s.auto[e] # "none"}
           served == {e \in formed : Reachable(s, e)}
           u == [e \in Entry |-> IF e \notin formed THEN "none"
                                 ELSE IF served # {} /\ e \notin served THEN "detached"
                                 ELSE "attached"]
<1>0. s \in ND /\ Tidy(s) /\ OneOwner(s)
  BY DEF Base, Tidy
<1>1. m = [s EXCEPT !.auto = u]
  BY DEF Readdressed
<1>2. u \in [Entry -> {"none", "attached", "detached"}]
  OBVIOUS
<1>3. \A e \in Entry : (u[e] = "none") <=> (s.auto[e] = "none")
  OBVIOUS
<1>4. ASSUME NEW e \in Entry, u[e] = "detached" PROVE \E f \in Entry : u[f] = "attached"
  <2>1. PICK f \in served : TRUE
    BY <1>4
  <2>2. f \in Entry /\ u[f] = "attached"
    BY <2>1
  <2> QED
    BY <2>2
<1> HIDE DEF m, u
<1>5. /\ m \in ND
      /\ m.list = s.list /\ m.manual = s.manual /\ m.routers = s.routers
      /\ m.reach = s.reach /\ m.auto = u /\ m.route = s.route /\ m.entry = s.entry
  BY <1>0, <1>1, <1>2 DEF ND
<1>6. Kept(m, s)
  BY <1>3, <1>5 DEF Kept, Alike
<1>7. Tidy(m)
  <2>1. /\ \A e \in Entry : e \notin Listed(s) => ~ m.entry[e].onlink
        /\ \A e \in Entry : m.entry[e].detached => s.entry[e].raf_onlink
    BY <1>0, <1>5 DEF Tidy, Clear
  <2> QED
    BY <1>0, <1>5, <1>6, <2>1, KeptTidy
<1>8. OneOwner(m)
  BY <1>0, <1>5 DEF OneOwner
<1>9. Usable(m)
  BY <1>4, <1>5 DEF Usable
<1> QED
  BY <1>5, <1>6, <1>7, <1>8, <1>9 DEF Base, m

\* The check restores what a change before it may have broken.
LEMMA CheckOK ==
    ASSUME NEW D, NEW s, Base(s)
    PROVE  Full(Check(s), D) /\ Kept(Check(s), s)
<1> DEFINE f == Flagged(s)
           r == FoldLeft(Rerouted, f, f.list)
           m == Readdressed(r)
<1>1. /\ Base(f) /\ Kept(f, s) /\ f.auto = s.auto
      /\ \A e \in Entry : f.entry[e].detached => Reason(s, e)
  BY FlaggedOK
<1>2. Check(s) = m
  <2>1. f.list = s.list
    BY <1>1 DEF Kept
  <2> HIDE DEF f
  <2> QED
    BY <2>1 DEF Check, f
<1> HIDE DEF f
<1>3. /\ Base(r) /\ Still(r, f)
      /\ \A x \in Listed(f) : f.entry[x].raf_onlink /\ ~ f.entry[x].detached
             => PrefixOf[x] \in r.route
  BY <1>1, ReroutedAllOK
<1> HIDE DEF r
<1>4. Base(m) /\ Kept(m, r) /\ Usable(m) /\ m.entry = r.entry /\ m.route = r.route
  BY <1>3, ReaddressedOK
<1> HIDE DEF m
<1>5. Attached(m)
  <2> SUFFICES ASSUME NEW x \in Listed(m), m.entry[x].raf_onlink, ~ m.entry[x].detached
               PROVE  PrefixOf[x] \in m.route
    BY DEF Attached
  <2>1. x \in Listed(f) /\ x \in Entry
    BY <1>3, <1>4, Fields DEF Kept, Still, Listed, Base, Tidy
  <2>2. f.entry[x].raf_onlink /\ ~ f.entry[x].detached
    BY <1>3, <1>4, <2>1 DEF Still, Kept, Alike
  <2> QED
    BY <1>3, <1>4, <2>1, <2>2
<1>6. Kept(m, s)
  BY <1>1, <1>3, <1>4, KeptTrans DEF Still
<1>7. Justified(m, D)
  <2>1. Listed(s) \subseteq Entry
    BY Fields DEF Base, Tidy
  <2>2. \A e \in Entry : m.entry[e].detached => Reason(s, e)
    BY <1>1, <1>3, <1>4 DEF Still
  <2> QED
    BY <1>6, <2>1, <2>2, KeptReason DEF Justified
<1> QED
  BY <1>2, <1>4, <1>5, <1>6, <1>7 DEF Full

----------------------------------------------------------------------------
(* Changes of one entry and its addresses, those that the functions make   *)
(* before they check.                                                      *)
Put(s, e, x, a, M) == [s EXCEPT !.entry[e] = x, !.auto[e] = a, !.manual = M]

Counts(a, e, M) == (IF a = "none" THEN 0 ELSE 1) + (IF e \in M THEN 1 ELSE 0)

\* The fields of k are those of Put(s, e, x, a, M).
Takes(k, s, e, x, a, M) ==
    /\ k \in ND
    /\ k.list = s.list /\ k.route = s.route /\ k.manual = M
    /\ k.routers = s.routers /\ k.reach = s.reach
    /\ k.entry[e] = x /\ \A y \in Entry : y # e => k.entry[y] = s.entry[y]
    /\ k.auto[e] = a /\ \A y \in Entry : y # e => k.auto[y] = s.auto[y]

LEMMA PutTakes ==
    ASSUME NEW s \in ND, NEW e \in Entry, NEW x \in EntryRec,
           NEW a \in {"none", "attached", "detached"}, NEW M \in SUBSET Entry
    PROVE  Takes(Put(s, e, x, a, M), s, e, x, a, M)
<1> DEFINE m == Put(s, e, x, a, M)
           u == [s.entry EXCEPT ![e] = x]
           w == [s.auto EXCEPT ![e] = a]
<1>1. s.entry \in [Entry -> EntryRec] /\ s.auto \in [Entry -> {"none", "attached", "detached"}]
  BY Fields
<1>2. m = [s EXCEPT !.entry = u, !.auto = w, !.manual = M]
  BY DEF Put
<1>3. /\ u \in [Entry -> EntryRec] /\ u[e] = x
      /\ \A y \in Entry : y # e => u[y] = s.entry[y]
  BY <1>1
<1>4. /\ w \in [Entry -> {"none", "attached", "detached"}] /\ w[e] = a
      /\ \A y \in Entry : y # e => w[y] = s.auto[y]
  BY <1>1
<1> HIDE DEF m, u, w
<1>5. /\ m \in ND /\ m.list = s.list /\ m.route = s.route /\ m.routers = s.routers
      /\ m.reach = s.reach /\ m.manual = M /\ m.entry = u /\ m.auto = w
  BY <1>2, <1>3, <1>4 DEF ND
<1> QED
  BY <1>3, <1>4, <1>5 DEF Takes, m

LEMMA TakesBase ==
    ASSUME NEW s, Base(s), NEW e \in Entry, e \in Listed(s), NEW x,
           x.onlink <=> s.entry[e].onlink, x.adv \subseteq s.routers,
           x.detached => x.raf_onlink,
           NEW a, NEW M, x.refcnt = Counts(a, e, M),
           \A y \in Entry : y # e => (y \in M <=> y \in s.manual),
           NEW k, Takes(k, s, e, x, a, M)
    PROVE  Base(k) /\ Listed(k) = Listed(s)
<1>0. s \in ND /\ Tidy(s) /\ OneOwner(s)
  BY DEF Base, Tidy
<1>1. Listed(k) = Listed(s)
  BY DEF Takes, Listed
<1>2. ASSUME NEW y \in Entry, y \notin Listed(k) PROVE Clear(k, y)
  <2>1. y # e /\ Clear(s, y)
    BY <1>0, <1>1, <1>2 DEF Tidy
  <2> QED
    BY <2>1 DEF Clear, Takes
<1>3. ASSUME NEW y \in Entry PROVE k.entry[y].refcnt = Held(k, y)
  <2>1. CASE y = e
    BY <2>1 DEF Takes, Held, Counts
  <2>2. CASE y # e
    <3>1. Held(k, y) = Held(s, y)
      BY <2>2 DEF Held, Takes
    <3> QED
      BY <1>0, <2>2, <3>1 DEF Takes, Tidy
  <2> QED
    BY <2>1, <2>2
<1>4. \A y \in Entry : /\ k.entry[y].adv \subseteq k.routers
                       /\ k.entry[y].detached => k.entry[y].raf_onlink
  BY <1>0 DEF Tidy, Takes
<1>5. Tidy(k)
  BY <1>0, <1>2, <1>3, <1>4 DEF Tidy, Takes
<1>6. \A y \in Entry : k.entry[y].onlink <=> s.entry[y].onlink
  BY DEF Takes
<1>7. OneOwner(k)
  BY <1>0, <1>6 DEF OneOwner, Takes
<1> QED
  BY <1>1, <1>5, <1>7 DEF Base

LEMMA TakesJustified ==
    ASSUME NEW D, NEW s, Full(s, D), NEW e \in Entry, NEW x, NEW a, NEW M,
           NEW k, Takes(k, s, e, x, a, M),
           x.detached <=> s.entry[e].detached, x.adv = s.entry[e].adv
    PROVE  Justified(k, D)
<1>0. Listed(s) \subseteq Entry /\ Listed(k) = Listed(s)
  BY Fields DEF Full, Base, Tidy, Takes, Listed
<1>1. \A y \in Entry : /\ k.entry[y].detached <=> s.entry[y].detached
                       /\ k.entry[y].adv = s.entry[y].adv
  BY DEF Takes
<1>2. \A y \in Entry : Reason(s, y) => Reason(k, y)
  BY <1>0, <1>1 DEF Reason, Reachable, Takes
<1> QED
  BY <1>1, <1>2 DEF Full, Justified

LEMMA TakesFull ==
    ASSUME NEW D, NEW s, Full(s, D), NEW e \in Entry, NEW x, NEW a, NEW M,
           NEW k, Takes(k, s, e, x, a, M), Base(k),
           x.raf_onlink /\ x.valid /\ ~ x.detached => PrefixOf[e] \in s.route,
           x.detached <=> s.entry[e].detached, x.adv = s.entry[e].adv, a = s.auto[e]
    PROVE  Full(k, D)
<1>0. Listed(s) \subseteq Entry /\ Listed(k) = Listed(s)
  BY Fields DEF Full, Base, Tidy, Takes, Listed
<1>1. Attached(k)
  BY <1>0 DEF Full, Attached, Takes
<1>2. \A y \in Entry : k.auto[y] = s.auto[y]
  BY DEF Takes
<1>3. Usable(k)
  BY <1>2 DEF Full, Usable
<1>4. Justified(k, D)
  BY TakesJustified
<1> QED
  BY <1>1, <1>3, <1>4 DEF Full

----------------------------------------------------------------------------
(* The list of routers.                                                    *)

LEMMA DefrtrlistDelOK ==
    ASSUME NEW D, NEW s, Base(s), NEW r \in Router
    PROVE  Full(DefrtrlistDel(s, r), D)
<1> DEFINE t == s.entry
           u == [e \in Entry |-> [t[e] EXCEPT !.adv = @ \ {r}]]
           R == s.routers \ {r}
           k == [s EXCEPT !.routers = R, !.entry = u]
<1>0. s \in ND /\ Tidy(s) /\ OneOwner(s)
  BY DEF Base, Tidy
<1>1. t \in [Entry -> EntryRec] /\ R \in SUBSET Router
  BY <1>0, Fields
<1>2. DefrtrlistDel(s, r) = Check(k)
  BY DEF DefrtrlistDel
<1> HIDE DEF t
<1>3. u \in [Entry -> EntryRec]
  <2>1. \A e \in Entry : [t[e] EXCEPT !.adv = @ \ {r}] \in EntryRec
    BY <1>1 DEF EntryRec
  <2> QED
    BY <2>1
<1>4. \A e \in Entry : /\ u[e].raf_onlink = t[e].raf_onlink /\ u[e].valid = t[e].valid
                       /\ u[e].detached = t[e].detached /\ u[e].onlink = t[e].onlink
                       /\ u[e].refcnt = t[e].refcnt /\ u[e].adv = t[e].adv \ {r}
  BY <1>1 DEF EntryRec
<1> HIDE DEF u, R
<1>5. /\ k \in ND /\ k.list = s.list /\ k.manual = s.manual /\ k.routers = R
      /\ k.auto = s.auto /\ k.route = s.route /\ k.entry = u
  BY <1>0, <1>1, <1>3 DEF ND
<1> HIDE DEF k
<1>6. \A e \in Entry : e \notin Listed(k) => Clear(k, e)
  BY <1>0, <1>4, <1>5 DEF Tidy, Clear, Listed, t
<1>7. \A e \in Entry : Held(k, e) = Held(s, e)
  BY <1>5 DEF Held
<1>8. \A e \in Entry : /\ k.entry[e].refcnt = Held(k, e) /\ k.entry[e].adv \subseteq k.routers
                       /\ k.entry[e].detached => k.entry[e].raf_onlink
  BY <1>0, <1>4, <1>5, <1>7 DEF Tidy, t, R
<1>9. Tidy(k)
  BY <1>0, <1>5, <1>6, <1>8 DEF Tidy
<1>10. OneOwner(k)
  BY <1>0, <1>4, <1>5 DEF OneOwner, t
<1> QED
  BY <1>2, <1>9, <1>10, CheckOK DEF Base

\* What the prefixes and addresses are about does not change.
Outside(k, s) ==
    /\ k \in ND /\ k.list = s.list /\ k.entry = s.entry /\ k.route = s.route
    /\ k.auto = s.auto /\ k.manual = s.manual /\ s.routers \subseteq k.routers

LEMMA OutsideFull ==
    ASSUME NEW D, NEW s, Full(s, D), NEW k, Outside(k, s)
    PROVE  /\ Base(k) /\ Attached(k) /\ Usable(k)
           /\ k.reach = s.reach => Full(k, D)
<1>1. \A e : Held(k, e) = Held(s, e)
  BY DEF Outside, Held
<1>2. Base(k)
  <2>1. Tidy(s) /\ OneOwner(s) /\ s \in ND
    BY DEF Full, Base, Tidy
  <2>2. Tidy(k)
    <3>1. \A e \in Entry : e \notin Listed(k) => Clear(k, e)
      BY <2>1 DEF Tidy, Clear, Outside, Listed
    <3>2. \A e \in Entry : k.entry[e].refcnt = Held(k, e)
      BY <1>1, <2>1 DEF Tidy, Outside
    <3>3. \A e \in Entry : /\ k.entry[e].adv \subseteq k.routers
                           /\ k.entry[e].detached => k.entry[e].raf_onlink
      BY <2>1 DEF Tidy, Outside
    <3>4. k \in ND /\ IsInjective(k.list)
      BY <2>1 DEF Tidy, Outside
    <3> QED
      BY <3>1, <3>2, <3>3, <3>4 DEF Tidy
  <2>3. OneOwner(k)
    BY <2>1 DEF OneOwner, Outside
  <2> QED
    BY <2>2, <2>3 DEF Base
<1>3. Attached(k) /\ Usable(k)
  BY DEF Full, Attached, Usable, Outside, Listed
<1>4. ASSUME k.reach = s.reach PROVE Justified(k, D)
  <2>1. \A e \in Entry : Reason(s, e) => Reason(k, e)
    BY <1>4 DEF Reason, Reachable, Outside, Listed
  <2> QED
    BY <2>1 DEF Full, Justified, Outside
<1> QED
  BY <1>2, <1>3, <1>4 DEF Full

LEMMA DefrtrlistUpdateOK ==
    ASSUME NEW D, NEW s, Full(s, D), NEW r \in Router, NEW lifetime \in BOOLEAN, NEW short
    PROVE  Full(DefrtrlistUpdate(s, r, lifetime, short), D)
<1> DEFINE m == DefrtrlistUpdate(s, r, lifetime, short)
           k == [s EXCEPT !.routers = @ \cup {r}]
<1>1. m \in {s, DefrtrlistDel(s, r), k}
  BY Zenon DEF DefrtrlistUpdate
<1>2. s \in ND
  BY DEF Full, Base, Tidy
<1>3. Outside(k, s) /\ k.reach = s.reach
  <2>1. s.routers \cup {r} \in SUBSET Router
    BY <1>2, Fields
  <2> QED
    BY <1>2, <2>1 DEF Outside, ND
<1> HIDE DEF m, k
<1>4. Full(k, D) /\ Full(DefrtrlistDel(s, r), D)
  BY <1>3, OutsideFull, DefrtrlistDelOK DEF Full
<1> QED
  BY <1>1, <1>4 DEF m

----------------------------------------------------------------------------
(* The list of prefixes.                                                   *)

\* The routers, the addresses set by hand and the entries are those of s,
\* with more entries.
Listing(m, s, more) ==
    /\ m.routers = s.routers /\ m.manual = s.manual
    /\ Listed(m) = Listed(s) \cup more

LEMMA KeptListing == ASSUME NEW m, NEW s, Kept(m, s) PROVE Listing(m, s, {})
  BY DEF Kept, Listing, Listed

LEMMA PfxrtrAddOK ==
    ASSUME NEW D, NEW s, Full(s, D), NEW e \in Entry, e \in Listed(s), NEW dr, dr \subseteq s.routers,
           NEW short
    PROVE  LET m == PfxrtrAdd(s, e, dr, short)
           IN  Full(m, D) /\ Listing(m, s, {})
<1> DEFINE m == PfxrtrAdd(s, e, dr, short)
           y == s.entry[e]
           x == [y EXCEPT !.adv = @ \cup dr]
           k == [s EXCEPT !.entry[e].adv = @ \cup dr]
<1>0. s \in ND /\ Tidy(s) /\ Base(s)
  BY DEF Full, Base, Tidy
<1>1. m = s \/ m = Check(k)
  BY Zenon DEF PfxrtrAdd
<1>2. y \in EntryRec /\ s.auto[e] \in {"none", "attached", "detached"} /\ s.manual \in SUBSET Entry
  BY <1>0, Fields
<1>3. /\ x \in EntryRec /\ x.onlink = y.onlink /\ x.refcnt = y.refcnt
      /\ x.adv = y.adv \cup dr /\ x.detached = y.detached /\ x.raf_onlink = y.raf_onlink
  <2>1. y.adv \cup dr \in SUBSET Router
    BY <1>0, <1>2, Fields, EntryFields
  <2> HIDE DEF y
  <2> QED
    BY <1>2, <2>1 DEF EntryRec
<1>4. k = Put(s, e, x, s.auto[e], s.manual)
  BY <1>0, Fields DEF Put, ND
<1> HIDE DEF x, k, m
<1>5. Takes(k, s, e, x, s.auto[e], s.manual)
  BY <1>0, <1>2, <1>3, <1>4, PutTakes
<1>6. /\ x.refcnt = Counts(s.auto[e], e, s.manual) /\ x.adv \subseteq s.routers
      /\ x.detached => x.raf_onlink
  BY <1>0, <1>3 DEF Tidy, Held, Counts
<1>7. Base(k) /\ Listed(k) = Listed(s)
  BY <1>0, <1>3, <1>5, <1>6, TakesBase
<1>8. Full(Check(k), D) /\ Kept(Check(k), k)
  BY <1>7, CheckOK
<1>9. Listing(Check(k), s, {})
  BY <1>5, <1>7, <1>8 DEF Kept, Listing, Takes, Listed
<1> QED
  BY <1>1, <1>8, <1>9, KeptSelf, KeptListing DEF m

Opt == [entry : Entry, onlink : BOOLEAN, auto : BOOLEAN, valid : BOOLEAN]

LEMMA InFront ==
    ASSUME NEW S, NEW l \in Seq(S), IsInjective(l), NEW e \in S, e \notin ToSet(l)
    PROVE  LET t == <<e>> \o l
           IN  t \in Seq(S) /\ IsInjective(t) /\ ToSet(t) = ToSet(l) \cup {e}
<1> DEFINE t == <<e>> \o l
           N == Len(l)
<1>1. /\ N \in Nat /\ DOMAIN l = 1..N /\ t \in Seq(S) /\ Len(t) = N + 1
      /\ DOMAIN t = 1..(N + 1) /\ t[1] = e
  OBVIOUS
<1>2. \A i \in 1..N : t[i + 1] = l[i]
  OBVIOUS
<1> HIDE DEF t, N
<1>3. \A i \in 1..(N + 1) : i = 1 \/ (i - 1 \in 1..N /\ t[i] = l[i - 1])
  <2> SUFFICES ASSUME NEW i \in 1..(N + 1), i # 1 PROVE i - 1 \in 1..N /\ t[i] = l[i - 1]
    OBVIOUS
  <2>1. i - 1 \in 1..N /\ (i - 1) + 1 = i
    BY <1>1
  <2> QED
    BY <1>2, <2>1
<1>4. ToSet(t) = ToSet(l) \cup {e}
  <2>1. \A x \in ToSet(t) : x \in ToSet(l) \cup {e}
    BY <1>1, <1>3 DEF ToSet
  <2>2. \A x \in ToSet(l) : x \in ToSet(t)
    <3> SUFFICES ASSUME NEW i \in 1..N PROVE l[i] \in ToSet(t)
      BY <1>1 DEF ToSet
    <3>1. i + 1 \in 1..(N + 1)
      BY <1>1
    <3> QED
      BY <1>1, <1>2, <3>1 DEF ToSet
  <2>3. e \in ToSet(t)
    <3>1. 1 \in 1..(N + 1)
      BY <1>1
    <3> QED
      BY <1>1, <3>1 DEF ToSet
  <2> QED
    BY <2>1, <2>2, <2>3
<1>5. ASSUME NEW i \in 1..(N + 1), NEW j \in 1..(N + 1), t[i] = t[j] PROVE i = j
  <2>1. \A k \in 1..N : l[k] # e
    BY <1>1 DEF ToSet
  <2>2. CASE i = 1
    BY <1>1, <1>3, <1>5, <2>1, <2>2
  <2>3. CASE j = 1
    BY <1>1, <1>3, <1>5, <2>1, <2>3
  <2>4. CASE i # 1 /\ j # 1
    <3>1. i - 1 \in 1..N /\ j - 1 \in 1..N /\ l[i - 1] = l[j - 1]
      BY <1>3, <1>5, <2>4
    <3>2. i - 1 = j - 1
      BY <1>1, <3>1 DEF IsInjective
    <3> QED
      BY <3>2
  <2> QED
    BY <2>2, <2>3, <2>4
<1>6. IsInjective(t)
  BY <1>1, <1>5 DEF IsInjective
<1> QED
  BY <1>1, <1>4, <1>6 DEF t

\* The list and one entry of it change.
Relisted(s, l, e, x) == [s EXCEPT !.list = l, !.entry[e] = x]

LEMMA RelistedFields ==
    ASSUME NEW s \in ND, NEW l \in Seq(Entry), NEW e \in Entry, NEW x \in EntryRec
    PROVE  LET m == Relisted(s, l, e, x)
           IN  /\ m \in ND /\ m.list = l /\ m.route = s.route /\ m.auto = s.auto
               /\ m.manual = s.manual /\ m.routers = s.routers /\ m.reach = s.reach
               /\ m.entry[e] = x /\ \A y \in Entry : y # e => m.entry[y] = s.entry[y]
<1> DEFINE m == Relisted(s, l, e, x)
           u == [s.entry EXCEPT ![e] = x]
<1>1. s.entry \in [Entry -> EntryRec]
  BY Fields
<1>2. m = [s EXCEPT !.list = l, !.entry = u]
  BY DEF Relisted
<1>3. /\ u \in [Entry -> EntryRec] /\ u[e] = x
      /\ \A y \in Entry : y # e => u[y] = s.entry[y]
  BY <1>1
<1> HIDE DEF m, u
<1>4. /\ m \in ND /\ m.list = l /\ m.route = s.route /\ m.auto = s.auto
      /\ m.manual = s.manual /\ m.routers = s.routers /\ m.reach = s.reach /\ m.entry = u
  BY <1>2, <1>3 DEF ND
<1> QED
  BY <1>3, <1>4 DEF m

\* The entry that comes or goes has no route and no address.
LEMMA RelistedBase ==
    ASSUME NEW s, Base(s), NEW e \in Entry, ~ s.entry[e].onlink, s.entry[e].refcnt = 0,
           NEW l \in Seq(Entry), IsInjective(l), NEW x \in EntryRec,
           \A y \in Entry : y # e => (y \in ToSet(l) <=> y \in Listed(s)),
           ~ x.onlink, ~ x.detached, x.refcnt = 0, x.adv = {},
           e \notin ToSet(l) => ~ x.raf_onlink /\ ~ x.valid
    PROVE  Base(Relisted(s, l, e, x))
<1> DEFINE m == Relisted(s, l, e, x)
<1>0. s \in ND /\ Tidy(s) /\ OneOwner(s)
  BY DEF Base, Tidy
<1>1. /\ m \in ND /\ m.list = l /\ m.route = s.route /\ m.auto = s.auto
      /\ m.manual = s.manual /\ m.routers = s.routers
      /\ m.entry[e] = x /\ \A y \in Entry : y # e => m.entry[y] = s.entry[y]
  BY <1>0, RelistedFields
<1> HIDE DEF m
<1>2. \A y \in Entry : Held(m, y) = Held(s, y)
  BY <1>1 DEF Held
<1>3. Held(s, e) = 0
  BY <1>0 DEF Tidy
<1>4. s.auto[e] = "none" /\ e \notin s.manual
  BY <1>3 DEF Held
<1>5. ASSUME NEW y \in Entry, y \notin Listed(m) PROVE Clear(m, y)
  <2>1. CASE y = e
    BY <1>1, <1>4, <1>5, <2>1 DEF Clear, Listed
  <2>2. CASE y # e
    <3>1. Clear(s, y)
      BY <1>0, <1>1, <1>5, <2>2 DEF Tidy, Listed
    <3> QED
      BY <1>1, <2>2, <3>1 DEF Clear
  <2> QED
    BY <2>1, <2>2
<1>6. ASSUME NEW y \in Entry PROVE m.entry[y].refcnt = Held(m, y)
  <2>1. CASE y = e
    BY <1>1, <1>2, <1>3, <2>1
  <2>2. CASE y # e
    BY <1>0, <1>1, <1>2, <2>2 DEF Tidy
  <2> QED
    BY <2>1, <2>2
<1>7. \A y \in Entry : /\ m.entry[y].adv \subseteq m.routers
                       /\ m.entry[y].detached => m.entry[y].raf_onlink
  BY <1>0, <1>1 DEF Tidy
<1>8. Tidy(m)
  BY <1>1, <1>5, <1>6, <1>7 DEF Tidy
<1>9. \A y \in Entry : m.entry[y].onlink <=> s.entry[y].onlink
  BY <1>1
<1>10. OneOwner(m)
  BY <1>0, <1>1, <1>9 DEF OneOwner
<1> QED
  BY <1>8, <1>10 DEF Base, m

LEMMA PrelistAddOK ==
    ASSUME NEW D, NEW s, Full(s, D), NEW o \in Opt, o.entry \notin Listed(s),
           NEW dr, dr \subseteq s.routers, NEW short
    PROVE  LET m == PrelistAdd(s, o, dr, short)
           IN  Full(m, D) /\ Listing(m, s, {o.entry})
<1> DEFINE e == o.entry
           l == <<e>> \o s.list
           x == [Blank EXCEPT !.raf_onlink = o.onlink, !.valid = o.valid]
           new == Relisted(s, l, e, x)
           routed == IF o.onlink THEN Onlink(new, e) ELSE new
           m == PfxrtrAdd(routed, e, dr, short)
<1>0. /\ s \in ND /\ Tidy(s) /\ Base(s) /\ s.list \in Seq(Entry)
      /\ e \in Entry /\ o.onlink \in BOOLEAN /\ o.valid \in BOOLEAN
  BY Fields DEF Full, Base, Tidy, Opt
<1>1. PrelistAdd(s, o, dr, short) = m
  BY DEF PrelistAdd, Relisted
<1>2. /\ x \in EntryRec /\ x.raf_onlink = o.onlink /\ ~ x.onlink /\ ~ x.detached
      /\ x.adv = {} /\ x.refcnt = 0
  <2>0. Blank \in EntryRec /\ ~ Blank.onlink /\ ~ Blank.detached /\ Blank.adv = {} /\ Blank.refcnt = 0
    BY DEF Blank, EntryRec
  <2>1. ASSUME NEW b \in BOOLEAN, NEW c \in BOOLEAN
        PROVE  LET z == [Blank EXCEPT !.raf_onlink = b, !.valid = c]
               IN  /\ z \in EntryRec /\ z.raf_onlink = b /\ ~ z.onlink /\ ~ z.detached
                   /\ z.adv = {} /\ z.refcnt = 0
    BY <2>0 DEF EntryRec
  <2> QED
    BY <1>0, <2>1, Zenon
<1>3. Clear(s, e)
  BY <1>0 DEF Tidy
<1>13. e \notin Listed(s)
  OBVIOUS
<1>4. l \in Seq(Entry) /\ IsInjective(l) /\ ToSet(l) = Listed(s) \cup {e}
  BY <1>0, InFront DEF Tidy, Listed
<1> HIDE DEF e, l, x
<1>5. Base(new)
  BY <1>0, <1>2, <1>3, <1>4, RelistedBase DEF Clear
<1>6. /\ new.list = l /\ new.route = s.route /\ new.auto = s.auto /\ new.routers = s.routers
      /\ new.manual = s.manual /\ new.reach = s.reach
      /\ new.entry[e] = x /\ \A y \in Entry : y # e => new.entry[y] = s.entry[y]
  BY <1>0, <1>2, <1>4, RelistedFields
<1> HIDE DEF new
<1>7. Listed(new) = Listed(s) \cup {e} /\ Listed(s) \subseteq Entry
  BY <1>0, <1>4, <1>6, Fields DEF Listed
<1>12. Justified(new, D)
  <2> SUFFICES ASSUME NEW y \in Entry, new.entry[y].detached PROVE y \in D \/ Reason(new, y)
    BY DEF Justified
  <2>1. y # e /\ s.entry[y].detached
    BY <1>2, <1>6
  <2>2. \A f \in Listed(s) : f # e /\ f \in Entry
    BY <1>7, <1>13
  <2>3. CASE Reason(s, y)
    <3>1. CASE \E f \in Listed(s) \ {y} : Reachable(s, f)
      BY <1>6, <1>7, <2>2, <3>1 DEF Reason, Reachable
    <3>2. CASE s.routers # {} /\ \A f \in Entry : s.entry[f].adv = {}
      BY <1>2, <1>6, <3>2 DEF Reason
    <3> QED
      BY <2>3, <3>1, <3>2 DEF Reason
  <2> QED
    BY <2>1, <2>3 DEF Full, Justified
<1>8. Full(routed, D) /\ Kept(routed, new)
  <2>1. CASE o.onlink
    <3>1. /\ Base(routed) /\ Still(routed, new)
          /\ routed.route = new.route \cup {PrefixOf[e]}
      BY <1>0, <1>5, <1>7, <2>1, OnlinkOK
    <3> HIDE DEF routed
    <3>2. Attached(routed)
      <4> SUFFICES ASSUME NEW y \in Listed(s) \cup {e}, routed.entry[y].raf_onlink,
                          routed.entry[y].valid, ~ routed.entry[y].detached
                   PROVE  PrefixOf[y] \in routed.route
        BY <1>7, <3>1 DEF Attached, Still, Kept, Listed
      <4>1. CASE y # e
        <5>1. y \in Entry /\ y \in Listed(s)
          BY <1>7, <4>1
        <5>2. s.entry[y].raf_onlink /\ s.entry[y].valid /\ ~ s.entry[y].detached
          BY <1>6, <3>1, <4>1, <5>1 DEF Still, Kept, Alike
        <5> QED
          BY <1>6, <3>1, <5>1, <5>2 DEF Full, Attached
      <4> QED
        BY <3>1, <4>1
    <3>3. Usable(routed)
      BY <1>6, <3>1 DEF Full, Usable, Still
    <3>4. Justified(routed, D)
      BY <1>0, <1>7, <1>12, <3>1, StillJustified
    <3> QED
      BY <3>1, <3>2, <3>3, <3>4 DEF Full, Still
  <2>2. CASE ~ o.onlink
    <3>1. Attached(new)
      BY <1>2, <1>6, <1>7, <2>2 DEF Full, Attached
    <3>2. Usable(new)
      BY <1>6 DEF Full, Usable
    <3> QED
      BY <1>5, <1>12, <2>2, <3>1, <3>2, KeptSelf DEF Full
  <2> QED
    BY <2>1, <2>2
<1> HIDE DEF routed
<1>9. /\ e \in Listed(routed) /\ Listed(routed) = Listed(s) \cup {e}
      /\ routed.routers = s.routers /\ routed.manual = s.manual
  BY <1>6, <1>7, <1>8 DEF Kept, Listed
<1>10. Full(m, D) /\ Listing(m, routed, {})
  BY <1>0, <1>8, <1>9, PfxrtrAddOK
<1> HIDE DEF m
<1>11. Listing(m, s, {e})
  BY <1>9, <1>10 DEF Listing
<1> QED
  BY <1>1, <1>10, <1>11 DEF e

\* An entry loses its lifetime.
LEMMA InvalidOK ==
    ASSUME NEW D, NEW s, Full(s, D), NEW e \in Entry
    PROVE  LET m == [s EXCEPT !.entry[e].valid = FALSE]
           IN  Full(m, D) /\ Listing(m, s, {}) /\ ~ m.entry[e].valid
<1> DEFINE y == s.entry[e]
           x == [y EXCEPT !.valid = FALSE]
           m == [s EXCEPT !.entry[e].valid = FALSE]
<1>0. s \in ND /\ Tidy(s) /\ Base(s) /\ Listed(s) \subseteq Entry
  BY Fields DEF Full, Base, Tidy
<1>1. /\ y \in EntryRec /\ s.auto[e] \in {"none", "attached", "detached"}
      /\ s.manual \in SUBSET Entry
  BY <1>0, Fields
<1>2. x \in EntryRec /\ x.onlink = y.onlink /\ x.refcnt = y.refcnt /\ x.adv = y.adv /\ ~ x.valid
      /\ x.detached = y.detached /\ x.raf_onlink = y.raf_onlink
  <2> HIDE DEF y
  <2> QED
    BY <1>1 DEF EntryRec
<1>3. m = Put(s, e, x, s.auto[e], s.manual)
  BY <1>0, Fields DEF Put, ND
<1> HIDE DEF x, m
<1>4. Takes(m, s, e, x, s.auto[e], s.manual)
  BY <1>0, <1>1, <1>2, <1>3, PutTakes
<1>5. CASE e \in Listed(s)
  <2>1. /\ x.refcnt = Counts(s.auto[e], e, s.manual) /\ x.adv \subseteq s.routers
        /\ x.detached => x.raf_onlink
    BY <1>0, <1>2 DEF Tidy, Held, Counts
  <2>2. Base(m)
    BY <1>0, <1>2, <1>4, <1>5, <2>1, TakesBase
  <2>3. Full(m, D)
    BY <1>2, <1>4, <2>2, TakesFull
  <2> QED
    BY <1>2, <1>4, <2>3 DEF Takes, Listing, Listed, m
<1>6. CASE e \notin Listed(s)
  <2>1. ~ y.valid
    BY <1>0, <1>6 DEF Tidy, Clear
  <2>2. x = y
    BY <1>1, <2>1 DEF EntryRec, x
  <2>3. m = s
    BY <1>0, <1>3, <2>2, Fields DEF Put, ND
  <2> QED
    BY <2>1, <2>3 DEF Listing, m
<1> QED
  BY <1>5, <1>6

\* An entry leaves the list, or stays on it, invalid.
LEMMA PrelistRemoveOK ==
    ASSUME NEW D, NEW s, Full(s, D), NEW e \in Entry
    PROVE  Full(PrelistRemove(s, e), D)
<1> DEFINE dead == [s EXCEPT !.entry[e].valid = FALSE]
           off == IF dead.entry[e].onlink THEN Offlink(dead, e) ELSE dead
           l == Without(off.list, {e})
           out == Relisted(off, l, e, Blank)
<1>1. PrelistRemove(s, e) = IF off.entry[e].refcnt > 0 THEN off ELSE Check(out)
  BY DEF PrelistRemove, Relisted
<1>2. Full(dead, D) /\ ~ dead.entry[e].valid
  BY InvalidOK
<1> HIDE DEF dead
<1>3. /\ Base(off) /\ Attached(off) /\ Usable(off) /\ Justified(off, D)
      /\ ~ off.entry[e].onlink
  <2>1. CASE dead.entry[e].onlink
    <3>1. e \in Listed(dead) /\ Base(dead) /\ Listed(dead) \subseteq Entry
      BY <1>2, <2>1, Fields DEF Full, Base, Tidy, Clear
    <3>2. /\ Base(off) /\ Still(off, dead) /\ ~ off.entry[e].onlink
          /\ \A v \in dead.route : v # PrefixOf[e] => v \in off.route
          /\ \A z \in Listed(dead) : z # e /\ PrefixOf[z] = PrefixOf[e] /\ ~ dead.entry[z].detached
                 => PrefixOf[e] \in off.route
      BY <2>1, <3>1, OfflinkOK
    <3> HIDE DEF off
    <3>3. Usable(off)
      BY <1>2, <3>2 DEF Full, Usable, Still
    <3>4. Attached(off)
      <4> SUFFICES ASSUME NEW z \in Listed(dead), off.entry[z].raf_onlink, off.entry[z].valid,
                          ~ off.entry[z].detached
                   PROVE  PrefixOf[z] \in off.route
        BY <3>2 DEF Attached, Still, Kept, Listed
      <4>1. z \in Entry /\ dead.entry[z].raf_onlink /\ dead.entry[z].valid /\ ~ dead.entry[z].detached
        BY <3>1, <3>2 DEF Still, Kept, Alike
      <4>2. z # e /\ PrefixOf[z] \in dead.route
        BY <1>2, <4>1 DEF Full, Attached
      <4> QED
        BY <3>2, <4>1, <4>2
    <3>5. Justified(off, D)
      BY <1>2, <3>1, <3>2, StillJustified DEF Full
    <3> QED
      BY <3>2, <3>3, <3>4, <3>5
  <2>2. CASE ~ dead.entry[e].onlink
    BY <1>2, <2>2 DEF Full
  <2> QED
    BY <2>1, <2>2
<1> HIDE DEF off
<1>4. ASSUME ~ (off.entry[e].refcnt > 0) PROVE Full(Check(out), D)
  <2>1. off \in ND /\ off.list \in Seq(Entry) /\ Tidy(off) /\ off.entry[e].refcnt = Held(off, e)
    BY <1>3, Fields DEF Base, Tidy
  <2>2. off.entry[e].refcnt = 0
    BY <1>4, <2>1 DEF Held
  <2>3. l \in Seq(Entry) /\ IsInjective(l) /\ ToSet(l) = Listed(off) \ {e}
    BY <2>1, WithoutFacts DEF Tidy, Listed
  <2> HIDE DEF l
  <2>4. /\ Blank \in EntryRec /\ ~ Blank.onlink /\ Blank.refcnt = 0 /\ Blank.adv = {}
        /\ ~ Blank.raf_onlink /\ ~ Blank.valid /\ ~ Blank.detached
    BY DEF Blank, EntryRec
  <2>5. Base(out)
    BY <1>3, <2>2, <2>3, <2>4, RelistedBase
  <2> QED
    BY <2>5, CheckOK
<1> QED
  BY <1>1, <1>3, <1>4 DEF Full

LEMMA LearntOK ==
    ASSUME NEW D, NEW s, Full(s, D), NEW o \in Opt, NEW dr, dr \subseteq s.routers, NEW short
    PROVE  LET m == Learnt(s, o, dr, short)
           IN  Full(m, D) /\ m.routers = s.routers
<1> DEFINE e == o.entry
           y == s.entry[e]
           x == [y EXCEPT !.raf_onlink = TRUE, !.valid = o.valid]
           k == [s EXCEPT !.entry[e].raf_onlink = TRUE, !.entry[e].valid = o.valid]
           bit == IF o.onlink THEN Onlink(k, e) ELSE s
           made == PrelistAdd(s, o, dr, short)
<1>0. /\ s \in ND /\ Tidy(s) /\ Base(s) /\ Listed(s) \subseteq Entry
      /\ e \in Entry /\ o.valid \in BOOLEAN
  BY Fields DEF Full, Base, Tidy, Opt
<1>1. ASSUME e \in Listed(s), o.onlink
      PROVE  Full(bit, D) /\ Listing(bit, s, {})
  <2>1. /\ y \in EntryRec /\ s.auto[e] \in {"none", "attached", "detached"}
        /\ s.manual \in SUBSET Entry
    BY <1>0, Fields
  <2>2. /\ x \in EntryRec /\ x.onlink = y.onlink /\ x.refcnt = y.refcnt /\ x.adv = y.adv
        /\ x.detached = y.detached /\ x.raf_onlink
    <3> HIDE DEF y
    <3>1. \A b \in BOOLEAN : LET z == [y EXCEPT !.raf_onlink = TRUE, !.valid = b]
             IN  /\ z \in EntryRec /\ z.onlink = y.onlink /\ z.refcnt = y.refcnt
                 /\ z.adv = y.adv /\ z.detached = y.detached /\ z.raf_onlink
      BY <2>1 DEF EntryRec
    <3> QED
      BY <1>0, <3>1, Zenon
  <2>3. k = Put(s, e, x, s.auto[e], s.manual)
    BY <1>0, Fields DEF Put, ND
  <2> HIDE DEF x, k
  <2>4. Takes(k, s, e, x, s.auto[e], s.manual)
    BY <1>0, <2>1, <2>2, <2>3, PutTakes
  <2>5. x.refcnt = Counts(s.auto[e], e, s.manual) /\ x.adv \subseteq s.routers
    BY <1>0, <2>2 DEF Tidy, Held, Counts
  <2>6. Base(k) /\ Listed(k) = Listed(s)
    BY <1>0, <1>1, <2>2, <2>4, <2>5, TakesBase
  <2>7. Base(bit) /\ Still(bit, k) /\ bit.route = k.route \cup {PrefixOf[e]}
    BY <1>0, <1>1, <2>6, OnlinkOK
  <2> HIDE DEF bit
  <2>8. Attached(bit)
    <3> SUFFICES ASSUME NEW z \in Listed(s), bit.entry[z].raf_onlink, bit.entry[z].valid,
                        ~ bit.entry[z].detached
                 PROVE  PrefixOf[z] \in bit.route
      BY <2>6, <2>7 DEF Attached, Still, Kept, Listed
    <3>1. CASE z # e
      <4>1. z \in Entry /\ s.entry[z].raf_onlink /\ s.entry[z].valid /\ ~ s.entry[z].detached
        BY <1>0, <2>4, <2>7, <3>1 DEF Still, Kept, Alike, Takes
      <4> QED
        BY <2>4, <2>7, <4>1 DEF Full, Attached, Takes
    <3> QED
      BY <2>7, <3>1
  <2>9. Usable(bit)
    <3>1. \A z \in Entry : bit.auto[z] = s.auto[z]
      BY <2>4, <2>7 DEF Still, Takes
    <3> QED
      BY <3>1 DEF Full, Usable
  <2> QED
    <3>0. (x.detached <=> s.entry[e].detached) /\ x.adv = s.entry[e].adv
      BY <2>2
    <3>1. Justified(k, D)
      BY <1>0, <2>4, <3>0, TakesJustified, Zenon
    <3>2. Justified(bit, D)
      BY <1>0, <2>6, <2>7, <3>1, StillJustified
    <3> QED
      BY <2>4, <2>6, <2>7, <2>8, <2>9, <3>2 DEF Full, Listing, Still, Kept, Takes, Listed
<1>2. CASE e \in Listed(s)
  <2>1. Learnt(s, o, dr, short) = PfxrtrAdd(bit, e, dr, short)
    BY <1>2, Zenon DEF Learnt
  <2>2. Full(bit, D) /\ Listing(bit, s, {})
    <3>1. CASE ~ o.onlink
      BY <3>1, KeptSelf, KeptListing
    <3> QED
      BY <1>1, <1>2, <3>1
  <2> HIDE DEF bit
  <2>3. e \in Listed(bit) /\ bit.routers = s.routers
    BY <1>2, <2>2 DEF Listing
  <2>4. LET m == PfxrtrAdd(bit, e, dr, short) IN Full(m, D) /\ Listing(m, bit, {})
    BY <1>0, <2>2, <2>3, PfxrtrAddOK
  <2> QED
    BY <2>1, <2>3, <2>4 DEF Listing
<1>3. CASE e \notin Listed(s)
  <2>1. Learnt(s, o, dr, short) \in {s, made, [made EXCEPT !.entry[e].valid = FALSE]}
    BY <1>3, Zenon DEF Learnt
  <2>2. Full(made, D) /\ Listing(made, s, {e})
    BY <1>3, PrelistAddOK
  <2> HIDE DEF made
  <2>3. LET m == [made EXCEPT !.entry[e].valid = FALSE] IN Full(m, D) /\ Listing(m, made, {})
    BY <1>0, <2>2, InvalidOK
  <2> QED
    BY <2>1, <2>2, <2>3 DEF Listing
<1> QED
  BY <1>2, <1>3

LEMMA IfaddOK ==
    ASSUME NEW D, NEW s, Full(s, D), NEW e \in Entry, e \in Listed(s)
    PROVE  LET m == Ifadd(s, e)
           IN  Full(m, D) /\ m.routers = s.routers
<1> DEFINE y == s.entry[e]
           x == [y EXCEPT !.refcnt = @ + 1]
           k == [s EXCEPT !.auto[e] = "attached", !.entry[e].refcnt = @ + 1]
<1>0. s \in ND /\ Tidy(s) /\ Base(s) /\ y \in EntryRec /\ s.manual \in SUBSET Entry
  BY Fields DEF Full, Base, Tidy
<1>1. CASE s.auto[e] # "none"
  BY <1>1 DEF Ifadd
<1>2. CASE s.auto[e] = "none"
  <2>1. Ifadd(s, e) = Check(k)
    BY <1>2 DEF Ifadd
  <2>2. /\ x \in EntryRec /\ x.onlink = y.onlink /\ x.refcnt = y.refcnt + 1 /\ x.adv = y.adv
        /\ x.detached = y.detached /\ x.raf_onlink = y.raf_onlink
    <3> HIDE DEF y
    <3> QED
      BY <1>0 DEF EntryRec
  <2>3. k = Put(s, e, x, "attached", s.manual)
    BY <1>0, Fields DEF Put, ND
  <2> HIDE DEF x, k
  <2>4. Takes(k, s, e, x, "attached", s.manual)
    BY <1>0, <2>2, <2>3, PutTakes
  <2>5. /\ x.refcnt = Counts("attached", e, s.manual) /\ x.adv \subseteq s.routers
        /\ x.detached => x.raf_onlink
    BY <1>0, <1>2, <2>2 DEF Tidy, Held, Counts
  <2>6. Base(k)
    BY <1>0, <2>2, <2>4, <2>5, TakesBase
  <2>7. Full(Check(k), D) /\ Kept(Check(k), k)
    BY <2>6, CheckOK
  <2> QED
    BY <2>1, <2>4, <2>7 DEF Kept, Takes
<1> QED
  BY <1>1, <1>2

LEMMA PrelistUpdateOK ==
    ASSUME NEW D, NEW s, Full(s, D), NEW o \in Opt, NEW dr, dr \subseteq s.routers, NEW short
    PROVE  LET m == PrelistUpdate(s, o, dr, short)
           IN  Full(m, D) /\ m.routers = s.routers
<1> DEFINE got == Learnt(s, o, dr, short)
<1>1. Full(got, D) /\ got.routers = s.routers /\ o.entry \in Entry
  BY LearntOK DEF Opt
<1>2. \/ PrelistUpdate(s, o, dr, short) = got
      \/ o.entry \in Listed(got) /\ PrelistUpdate(s, o, dr, short) = Ifadd(got, o.entry)
  BY Zenon DEF PrelistUpdate
<1> HIDE DEF got
<1>3. CASE o.entry \in Listed(got) /\ PrelistUpdate(s, o, dr, short) = Ifadd(got, o.entry)
  <2>1. LET m == Ifadd(got, o.entry) IN Full(m, D) /\ m.routers = got.routers
    BY <1>1, <1>3, IfaddOK
  <2> QED
    BY <1>1, <1>3, <2>1
<1> QED
  BY <1>1, <1>2, <1>3

LEMMA PurgeOK ==
    ASSUME NEW D, NEW s, Full(s, D), NEW e \in Entry, NEW kind \in {"auto", "manual"}, Has(s, e, kind)
    PROVE  Full(Purge(s, e, kind), D)
<1> DEFINE y == s.entry[e]
           x == [y EXCEPT !.refcnt = @ - 1]
           k == [s EXCEPT !.auto[e] = "none", !.entry[e].refcnt = @ - 1]
           j == [s EXCEPT !.manual = @ \ {e}, !.entry[e].refcnt = @ - 1]
           M == s.manual \ {e}
<1>0. /\ s \in ND /\ Tidy(s) /\ Base(s) /\ y \in EntryRec
      /\ s.manual \in SUBSET Entry /\ M \in SUBSET Entry
      /\ s.auto[e] \in {"none", "attached", "detached"}
  BY Fields DEF Full, Base, Tidy
<1>1. e \in Listed(s)
  BY <1>0 DEF Tidy, Clear, Has
<1>2. x \in EntryRec /\ x.onlink = y.onlink /\ x.refcnt = y.refcnt - 1 /\ x.adv = y.adv
      /\ x.raf_onlink = y.raf_onlink /\ x.valid = y.valid /\ x.detached = y.detached
  <2> HIDE DEF y
  <2> QED
    BY <1>0 DEF EntryRec
<1>3. y.refcnt = Held(s, e) /\ x.adv \subseteq s.routers /\ (x.detached => x.raf_onlink)
  BY <1>0, <1>2 DEF Tidy
<1>4. CASE kind = "auto"
  <2>1. Purge(s, e, kind) = Check(k) /\ s.auto[e] # "none"
    BY <1>4 DEF Purge, Has
  <2>2. k = Put(s, e, x, "none", s.manual)
    BY <1>0, Fields DEF Put, ND
  <2>3. x.refcnt = Counts("none", e, s.manual)
    BY <1>2, <1>3, <2>1 DEF Held, Counts
  <2> HIDE DEF x, k
  <2>4. Takes(k, s, e, x, "none", s.manual)
    BY <1>0, <1>2, <2>2, PutTakes
  <2>5. Base(k)
    BY <1>0, <1>1, <1>2, <1>3, <2>3, <2>4, TakesBase
  <2> QED
    BY <2>1, <2>5, CheckOK
<1>5. CASE kind = "manual"
  <2>1. Purge(s, e, kind) = j /\ e \in s.manual
    BY <1>5 DEF Purge, Has
  <2>2. j = Put(s, e, x, s.auto[e], M)
    BY <1>0, Fields DEF Put, ND
  <2>3. x.refcnt = Counts(s.auto[e], e, M)
    BY <1>2, <1>3, <2>1 DEF Held, Counts
  <2>4. \A z \in Entry : z # e => (z \in M <=> z \in s.manual)
    OBVIOUS
  <2> HIDE DEF x, j, M
  <2>5. Takes(j, s, e, x, s.auto[e], M)
    BY <1>0, <1>2, <2>2, PutTakes
  <2>6. Base(j)
    BY <1>0, <1>1, <1>2, <1>3, <2>3, <2>4, <2>5, TakesBase
  <2>7. x.raf_onlink /\ x.valid /\ ~ x.detached => PrefixOf[e] \in s.route
    BY <1>1, <1>2 DEF Full, Attached
  <2>8. Full(j, D)
    BY <1>2, <2>5, <2>6, <2>7, TakesFull
  <2> QED
    BY <2>1, <2>8
<1> QED
  BY <1>4, <1>5

(* The options of an advertisement. *)
OptionsFold(g, s, es, dr, short) ==
    g = [T \in SUBSET (DOMAIN es) |->
            IF T = {} THEN s ELSE PrelistUpdate(g[T \ {Max(T)}], es[Max(T)], dr, short)]

OptionsAll(s, es, dr, short) == FoldLeft(LAMBDA m, o : PrelistUpdate(m, o, dr, short), s, es)

OptionsGoes(es, N, A, good, dr, short) ==
    /\ DOMAIN es = 1..N
    /\ \A i \in 1..N : \A m \in A : PrelistUpdate(m, es[i], dr, short) \in A
    /\ \A n \in 1..N : \A m \in A \cap good[n - 1] : PrelistUpdate(m, es[n], dr, short) \in good[n]

LEMMA OptionsAllReaches ==
    ASSUME NEW N \in Nat, NEW es, NEW dr, NEW short, NEW A, NEW s \in A, NEW good, s \in good[0],
           OptionsGoes(es, N, A, good, dr, short)
    PROVE  OptionsAll(s, es, dr, short) \in A \cap good[N]
<1> DEFINE g == CHOOSE h : OptionsFold(h, s, es, dr, short)
           step == [i \in 1..N |-> [m \in A |-> PrelistUpdate(m, es[i], dr, short)]]
           both == [n \in 0..N |-> A \cap good[n]]
<1>0. /\ DOMAIN es = 1..N
      /\ \A i \in 1..N : \A m \in A : PrelistUpdate(m, es[i], dr, short) \in A
      /\ \A n \in 1..N : \A m \in A \cap good[n - 1] : PrelistUpdate(m, es[n], dr, short) \in good[n]
  BY DEF OptionsGoes
<1>1. OptionsAll(s, es, dr, short) = g[1..N]
  BY <1>0 DEF OptionsAll, FoldLeft, MapThenFoldSet, OptionsFold
<1>2. step \in [1..N -> [A -> A]]
  BY <1>0
<1>3. \A i \in 1..N : \A m \in A : step[i][m] = PrelistUpdate(m, es[i], dr, short)
  OBVIOUS
<1> HIDE DEF step
<1>4. PICK iter \in [SUBSET (1..N) -> A] :
         \A T \in SUBSET (1..N) :
             /\ iter[T] = IF T = {} THEN s ELSE step[Max(T)][iter[T \ {Max(T)}]]
             /\ T # {} => Max(T) \in T
  BY <1>2, ListFoldExists
<1>5. OptionsFold(iter, s, es, dr, short)
  <2>1. ASSUME NEW T \in SUBSET (1..N)
        PROVE  iter[T] = IF T = {} THEN s ELSE PrelistUpdate(iter[T \ {Max(T)}], es[Max(T)], dr, short)
    <3>1. CASE T # {}
      <4>1. Max(T) \in 1..N /\ iter[T] = step[Max(T)][iter[T \ {Max(T)}]]
        BY <1>4, <3>1
      <4>2. iter[T \ {Max(T)}] \in A
        BY <1>4
      <4> QED
        BY <1>3, <3>1, <4>1, <4>2
    <3> QED
      BY <1>4, <3>1
  <2>2. iter = [T \in SUBSET (1..N) |->
                   IF T = {} THEN s ELSE PrelistUpdate(iter[T \ {Max(T)}], es[Max(T)], dr, short)]
    BY <1>4, <2>1
  <2> QED
    BY <1>0, <2>2 DEF OptionsFold
<1>6. OptionsFold(g, s, es, dr, short)
  BY <1>5
<1> HIDE DEF g
<1>7. /\ g[{}] = s
      /\ \A n \in 1..N : g[1..n] = PrelistUpdate(g[1..(n - 1)], es[n], dr, short)
  <2>1. \A T \in SUBSET (1..N) :
           g[T] = IF T = {} THEN s ELSE PrelistUpdate(g[T \ {Max(T)}], es[Max(T)], dr, short)
    BY <1>0, <1>6 DEF OptionsFold
  <2>2. ASSUME NEW n \in 1..N PROVE g[1..n] = PrelistUpdate(g[1..(n - 1)], es[n], dr, short)
    <3>1. /\ Max(1..n) = n /\ (1..n) \ {n} = 1..(n - 1) /\ 1..n # {} /\ 1..n \in SUBSET (1..N)
      BY PrefixMax
    <3> QED
      BY <2>1, <3>1
  <2> QED
    BY <2>1, <2>2
<1>8. g[{}] \in both[0]
  BY <1>7
<1>9. ASSUME NEW n \in 1..N, g[1..(n - 1)] \in both[n - 1] PROVE g[1..n] \in both[n]
  <2>1. n - 1 \in 0..N /\ n \in 0..N
    OBVIOUS
  <2>2. g[1..(n - 1)] \in A \cap good[n - 1]
    BY <1>9, <2>1
  <2>3. g[1..n] \in A /\ g[1..n] \in good[n]
    BY <1>0, <1>7, <2>2
  <2> QED
    BY <2>1, <2>3
<1>10. g[1..N] \in both[N]
  <2> HIDE DEF both
  <2> QED
    BY <1>8, <1>9, Reaches
<1> QED
  BY <1>1, <1>10

LEMMA OptionsOK ==
    ASSUME NEW D, NEW s, Full(s, D), NEW options \in Seq(Opt), NEW dr, dr \subseteq s.routers, NEW short
    PROVE  Full(OptionsAll(s, options, dr, short), D)
<1> DEFINE N == Len(options)
           A == {m \in ND : Full(m, D) /\ m.routers = s.routers}
           good == [n \in 0..N |-> A]
<1>1. N \in Nat /\ DOMAIN options = 1..N /\ \A i \in 1..N : options[i] \in Opt
  OBVIOUS
<1> HIDE DEF N
<1>2. \A m : Full(m, D) => m \in ND
  BY DEF Full, Base, Tidy
<1>3. s \in A
  BY <1>2
<1>4. ASSUME NEW i \in 1..N, NEW m \in A PROVE PrelistUpdate(m, options[i], dr, short) \in A
  <2>1. LET k == PrelistUpdate(m, options[i], dr, short) IN Full(k, D) /\ k.routers = m.routers
    BY <1>1, PrelistUpdateOK
  <2> QED
    BY <1>2, <2>1
<1> HIDE DEF A
<1>5. OptionsGoes(options, N, A, good, dr, short)
  BY <1>1, <1>4 DEF OptionsGoes
<1>6. s \in good[0] /\ N \in Nat
  BY <1>1, <1>3
<1>7. OptionsAll(s, options, dr, short) \in A \cap good[N]
  <2> HIDE DEF good
  <2> QED
    BY <1>3, <1>5, <1>6, OptionsAllReaches, Zenon
<1> QED
  BY <1>7 DEF A

(* The prefixes that a flush takes. *)
FlushFold(g, s, es) ==
    g = [T \in SUBSET (DOMAIN es) |->
            IF T = {} THEN s ELSE FlushOne(g[T \ {Max(T)}], es[Max(T)])]

FlushAll(s, es) == FoldLeft(FlushOne, s, es)

FlushGoes(es, N, A, good) ==
    /\ DOMAIN es = 1..N
    /\ \A i \in 1..N : \A m \in A : FlushOne(m, es[i]) \in A
    /\ \A n \in 1..N : \A m \in A \cap good[n - 1] : FlushOne(m, es[n]) \in good[n]

LEMMA FlushAllReaches ==
    ASSUME NEW N \in Nat, NEW es, NEW A, NEW s \in A, NEW good, s \in good[0],
           FlushGoes(es, N, A, good)
    PROVE  FlushAll(s, es) \in A \cap good[N]
<1> DEFINE g == CHOOSE h : FlushFold(h, s, es)
           step == [i \in 1..N |-> [m \in A |-> FlushOne(m, es[i])]]
           both == [n \in 0..N |-> A \cap good[n]]
<1>0. /\ DOMAIN es = 1..N
      /\ \A i \in 1..N : \A m \in A : FlushOne(m, es[i]) \in A
      /\ \A n \in 1..N : \A m \in A \cap good[n - 1] : FlushOne(m, es[n]) \in good[n]
  BY DEF FlushGoes
<1>1. FlushAll(s, es) = g[1..N]
  BY <1>0 DEF FlushAll, FoldLeft, MapThenFoldSet, FlushFold
<1>2. step \in [1..N -> [A -> A]]
  BY <1>0
<1>3. \A i \in 1..N : \A m \in A : step[i][m] = FlushOne(m, es[i])
  OBVIOUS
<1> HIDE DEF step
<1>4. PICK iter \in [SUBSET (1..N) -> A] :
         \A T \in SUBSET (1..N) :
             /\ iter[T] = IF T = {} THEN s ELSE step[Max(T)][iter[T \ {Max(T)}]]
             /\ T # {} => Max(T) \in T
  BY <1>2, ListFoldExists
<1>5. FlushFold(iter, s, es)
  <2>1. ASSUME NEW T \in SUBSET (1..N)
        PROVE  iter[T] = IF T = {} THEN s ELSE FlushOne(iter[T \ {Max(T)}], es[Max(T)])
    <3>1. CASE T # {}
      <4>1. Max(T) \in 1..N /\ iter[T] = step[Max(T)][iter[T \ {Max(T)}]]
        BY <1>4, <3>1
      <4>2. iter[T \ {Max(T)}] \in A
        BY <1>4
      <4> QED
        BY <1>3, <3>1, <4>1, <4>2
    <3> QED
      BY <1>4, <3>1
  <2>2. iter = [T \in SUBSET (1..N) |->
                   IF T = {} THEN s ELSE FlushOne(iter[T \ {Max(T)}], es[Max(T)])]
    BY <1>4, <2>1
  <2> QED
    BY <1>0, <2>2 DEF FlushFold
<1>6. FlushFold(g, s, es)
  BY <1>5
<1> HIDE DEF g
<1>7. /\ g[{}] = s
      /\ \A n \in 1..N : g[1..n] = FlushOne(g[1..(n - 1)], es[n])
  <2>1. \A T \in SUBSET (1..N) :
           g[T] = IF T = {} THEN s ELSE FlushOne(g[T \ {Max(T)}], es[Max(T)])
    BY <1>0, <1>6 DEF FlushFold
  <2>2. ASSUME NEW n \in 1..N PROVE g[1..n] = FlushOne(g[1..(n - 1)], es[n])
    <3>1. /\ Max(1..n) = n /\ (1..n) \ {n} = 1..(n - 1) /\ 1..n # {} /\ 1..n \in SUBSET (1..N)
      BY PrefixMax
    <3> QED
      BY <2>1, <3>1
  <2> QED
    BY <2>1, <2>2
<1>8. g[{}] \in both[0]
  BY <1>7
<1>9. ASSUME NEW n \in 1..N, g[1..(n - 1)] \in both[n - 1] PROVE g[1..n] \in both[n]
  <2>1. n - 1 \in 0..N /\ n \in 0..N
    OBVIOUS
  <2>2. g[1..(n - 1)] \in A \cap good[n - 1]
    BY <1>9, <2>1
  <2>3. g[1..n] \in A /\ g[1..n] \in good[n]
    BY <1>0, <1>7, <2>2
  <2> QED
    BY <2>1, <2>3
<1>10. g[1..N] \in both[N]
  <2> HIDE DEF both
  <2> QED
    BY <1>8, <1>9, Reaches
<1> QED
  BY <1>1, <1>10

LEMMA FlushOK ==
    ASSUME NEW D, NEW s, Full(s, D)
    PROVE  Full(FlushAll(s, s.list), D)
<1> DEFINE es == s.list
           N == Len(es)
           A == {m \in ND : Full(m, D)}
           good == [n \in 0..N |-> A]
<1>1. \A m : Full(m, D) => m \in ND
  BY DEF Full, Base, Tidy
<1>2. es \in Seq(Entry)
  BY <1>1, Fields
<1> HIDE DEF es
<1>3. N \in Nat /\ DOMAIN es = 1..N /\ \A i \in 1..N : es[i] \in Entry
  BY <1>2
<1> HIDE DEF N
<1>4. s \in A
  BY <1>1
<1>5. ASSUME NEW i \in 1..N, NEW m \in A PROVE FlushOne(m, es[i]) \in A
  <2> DEFINE k == IF m.auto[es[i]] # "none" THEN Purge(m, es[i], "auto") ELSE m
  <2>1. Full(k, D)
    <3>1. CASE m.auto[es[i]] # "none"
      BY <1>3, <3>1, PurgeOK DEF Has
    <3> QED
      BY <3>1
  <2>2. FlushOne(m, es[i]) = PrelistRemove(k, es[i])
    BY DEF FlushOne
  <2> HIDE DEF k
  <2>3. Full(PrelistRemove(k, es[i]), D)
    BY <1>3, <2>1, PrelistRemoveOK
  <2> QED
    BY <1>1, <2>2, <2>3
<1> HIDE DEF A
<1>6. FlushGoes(es, N, A, good)
  BY <1>3, <1>5 DEF FlushGoes
<1>7. s \in good[0] /\ N \in Nat
  BY <1>3, <1>4
<1>8. FlushAll(s, es) \in A \cap good[N]
  <2> HIDE DEF good
  <2> QED
    BY <1>4, <1>6, <1>7, FlushAllReaches, Zenon
<1> QED
  BY <1>8 DEF A, es


----------------------------------------------------------------------------
(* The handlers.                                                           *)

IInv == Base(nd) /\ Attached(nd) /\ Usable(nd)

\* The entries that are detached.
Was == {e \in Entry : nd.entry[e].detached}

LEMMA Start == IInv => Full(nd, Was)
<1>1. Justified(nd, Was)
  BY DEF Justified, Was
<1> QED
  BY <1>1, Zenon DEF IInv, Full

LEMMA InitOK == Init => IInv
<1> SUFFICES ASSUME Init PROVE IInv
  OBVIOUS
<1>1. Blank \in EntryRec
  BY DEF Blank, EntryRec
<1>2. /\ nd.list = << >> /\ nd.entry = [e \in Entry |-> Blank] /\ nd.route = {}
      /\ nd.auto = [e \in Entry |-> "none"] /\ nd.manual = {}
      /\ nd.routers = {} /\ nd.reach = {}
  BY DEF Init
<1>3. nd \in ND
  <2>1. << >> \in Seq(Entry) /\ [e \in Entry |-> Blank] \in [Entry -> EntryRec]
    BY <1>1
  <2> QED
    BY <2>1 DEF Init, ND
<1>4. Listed(nd) = {} /\ IsInjective(nd.list)
  BY <1>2 DEF Listed, ToSet, IsInjective
<1>5. \A e \in Entry : /\ Clear(nd, e) /\ nd.entry[e].refcnt = Held(nd, e)
                       /\ nd.entry[e].adv = {} /\ ~ nd.entry[e].detached
  BY <1>2 DEF Clear, Held, Blank
<1>6. Tidy(nd)
  BY <1>3, <1>4, <1>5 DEF Tidy
<1>7. OneOwner(nd)
  BY <1>2, <1>5 DEF OneOwner, Clear
<1>8. Attached(nd) /\ Usable(nd)
  BY <1>4, <1>5 DEF Attached, Usable, Clear
<1> QED
  BY <1>6, <1>7, <1>8 DEF IInv, Base

\* Reachability is not part of the invariant.
LEMMA ReachFull ==
    ASSUME NEW D, NEW s, Full(s, D), NEW R \in SUBSET Router
    PROVE  LET m == [s EXCEPT !.reach = R]
           IN  /\ Base(m) /\ Attached(m) /\ Usable(m) /\ m.entry = s.entry
               /\ Full(Check(m), D)
<1> DEFINE m == [s EXCEPT !.reach = R]
<1>1. s \in ND
  BY DEF Full, Base, Tidy
<1>2. Outside(m, s)
  BY <1>1 DEF Outside, ND
<1> HIDE DEF m
<1>3. Base(m) /\ Attached(m) /\ Usable(m) /\ m.entry = s.entry
  BY <1>2, OutsideFull DEF Outside
<1> QED
  BY <1>3, CheckOK DEF m

LEMMA RaInputOK ==
    ASSUME Full(nd, Was), NEW r \in Router, NEW lifetime \in BOOLEAN, NEW short,
           NEW options \in Options(r), RaInput(r, lifetime, options, short)
    PROVE  Full(nd', Was)
<1> DEFINE known == DefrtrlistUpdate(nd, r, lifetime, short)
           dr == {r} \cap known.routers
           learnt == OptionsAll(known, options, dr, short)
           R == learnt.reach \cup {r}
<1>1. nd' \in {Check([learnt EXCEPT !.reach = R]), Check(learnt), learnt}
  BY DEF RaInput, OptionsAll
<1>2. options \in Seq(Opt)
  <2>1. Advertises[r] \subseteq Entry
    BY PrefixAssumption
  <2>2. \A o \in [entry : Advertises[r], onlink : BOOLEAN, auto : BOOLEAN, valid : BOOLEAN] :
           o \in Opt
    BY <2>1 DEF Opt
  <2>3. options = << >> \/ \E o \in Opt : options = <<o>>
    BY <2>2 DEF Options
  <2> HIDE DEF Opt
  <2>4. << >> \in Seq(Opt)
    OBVIOUS
  <2>5. \A o \in Opt : <<o>> \in Seq(Opt)
    OBVIOUS
  <2> QED
    BY <2>3, <2>4, <2>5
<1>3. Full(known, Was)
  BY DefrtrlistUpdateOK
<1> HIDE DEF known
<1>4. Full(learnt, Was)
  BY <1>2, <1>3, OptionsOK
<1> HIDE DEF learnt
<1>5. R \in SUBSET Router
  BY <1>4, Fields DEF Full, Base, Tidy
<1> HIDE DEF R
<1>6. Full(Check([learnt EXCEPT !.reach = R]), Was) /\ Full(Check(learnt), Was)
  BY <1>4, <1>5, ReachFull, CheckOK DEF Full
<1> QED
  BY <1>1, <1>4, <1>6

LEMMA NeighborOK ==
    ASSUME Full(nd, Was), NEW r \in Router, NeighborUp(r) \/ NeighborDown(r) \/ NeighborDeleted(r)
    PROVE  Full(nd', Was)
<1>1. nd \in ND /\ Full(nd, Was)
  BY DEF Full, Base, Tidy
<1>2. nd.reach \cup {r} \in SUBSET Router /\ nd.reach \ {r} \in SUBSET Router
  BY <1>1, Fields
<1>3. nd' \in {[nd EXCEPT !.reach = @ \cup {r}], Check([nd EXCEPT !.reach = @ \cup {r}]),
               [nd EXCEPT !.reach = @ \ {r}], Check([nd EXCEPT !.reach = @ \ {r}])}
  BY DEF NeighborUp, NeighborDown, NeighborDeleted
<1>4. ASSUME NEW R \in SUBSET Router
      PROVE  LET m == [nd EXCEPT !.reach = R] IN Full(m, Was) /\ Full(Check(m), Was)
  <2> DEFINE m == [nd EXCEPT !.reach = R]
  <2>1. Base(m) /\ Attached(m) /\ Usable(m) /\ m.entry = nd.entry /\ Full(Check(m), Was)
    BY ReachFull
  <2> HIDE DEF m
  <2>2. Justified(m, Was)
    BY <2>1 DEF Justified, Was
  <2> QED
    BY <2>1, <2>2 DEF Full, m
<1> QED
  BY <1>1, <1>2, <1>3, <1>4

LEMMA AddAddrOK ==
    ASSUME Full(nd, Was), NEW e \in Entry, NEW short, AddAddr(e, short)
    PROVE  Full(nd', Was)
<1> DEFINE asked == [entry |-> e, onlink |-> TRUE, auto |-> FALSE, valid |-> TRUE]
           s == IF e \in Listed(nd) THEN nd ELSE PrelistAdd(nd, asked, {}, short)
           y == s.entry[e]
           x == [y EXCEPT !.refcnt = @ + 1]
           M == s.manual \cup {e}
           k == [s EXCEPT !.manual = @ \cup {e}, !.entry[e].refcnt = @ + 1]
<1>1. nd' = Check(k) /\ e \notin nd.manual
  BY DEF AddAddr
<1>2. Full(s, Was) /\ e \in Listed(s) /\ e \notin s.manual
  <2>1. CASE e \notin Listed(nd)
    <3>1. asked \in Opt /\ asked.entry = e
      BY DEF Opt
    <3> HIDE DEF asked
    <3>2. Full(s, Was) /\ Listing(s, nd, {e})
      BY <2>1, <3>1, PrelistAddOK
    <3> QED
      BY <1>1, <3>2 DEF Listing
  <2> QED
    BY <1>1, <2>1
<1> HIDE DEF s
<1>3. /\ s \in ND /\ Tidy(s) /\ Base(s) /\ y \in EntryRec /\ M \in SUBSET Entry
      /\ s.auto[e] \in {"none", "attached", "detached"}
  BY <1>2, Fields DEF Full, Base, Tidy
<1>4. /\ x \in EntryRec /\ x.onlink = y.onlink /\ x.refcnt = y.refcnt + 1 /\ x.adv = y.adv
      /\ x.detached = y.detached /\ x.raf_onlink = y.raf_onlink
  <2> HIDE DEF y
  <2> QED
    BY <1>3 DEF EntryRec
<1>5. k = Put(s, e, x, s.auto[e], M)
  BY <1>3, Fields DEF Put, ND
<1>6. /\ x.refcnt = Counts(s.auto[e], e, M) /\ x.adv \subseteq s.routers
      /\ x.detached => x.raf_onlink
  BY <1>2, <1>3, <1>4 DEF Tidy, Held, Counts
<1>7. \A z \in Entry : z # e => (z \in M <=> z \in s.manual)
  OBVIOUS
<1> HIDE DEF x, k, M
<1>8. Takes(k, s, e, x, s.auto[e], M)
  BY <1>3, <1>4, <1>5, PutTakes
<1>9. Base(k)
  BY <1>2, <1>3, <1>4, <1>6, <1>7, <1>8, TakesBase
<1> QED
  BY <1>1, <1>9, CheckOK

LEMMA DeleteAddrOK ==
    ASSUME Full(nd, Was), NEW e \in Entry, NEW kind \in {"auto", "manual"}, DeleteAddr(e, kind)
    PROVE  Full(nd', Was)
<1> DEFINE purged == Purge(nd, e, kind)
<1>1. nd' \in {purged, PrelistRemove(purged, e)} /\ Has(nd, e, kind)
  BY Zenon DEF DeleteAddr
<1>2. Full(purged, Was)
  BY <1>1, PurgeOK
<1> HIDE DEF purged
<1> QED
  BY <1>1, <1>2, PrelistRemoveOK

LEMMA NextOK == IInv /\ [Next]_vars => Full(nd', Was)
<1> SUFFICES ASSUME IInv, [Next]_vars PROVE Full(nd', Was)
  OBVIOUS
<1>0. nd \in ND /\ Full(nd, Was) /\ Base(nd) /\ Listed(nd) \subseteq Entry
  BY Start, Fields DEF IInv, Base, Tidy
<1>1. ASSUME NEW r \in Router, NEW lifetime \in BOOLEAN, NEW short \in Shortage,
             NEW options \in Options(r), RaInput(r, lifetime, options, short)
      PROVE  Full(nd', Was)
  BY <1>0, <1>1, RaInputOK
<1>2. ASSUME NEW r \in Router, RouterGone(r) PROVE Full(nd', Was)
  BY <1>0, <1>2, DefrtrlistDelOK DEF RouterGone
<1>3. ASSUME NEW r \in Router, NeighborUp(r) \/ NeighborDown(r) \/ NeighborDeleted(r) PROVE Full(nd', Was)
  BY <1>0, <1>3, NeighborOK
<1>4. ASSUME NEW e \in Entry, PrefixExpires(e) PROVE Full(nd', Was)
  BY <1>0, <1>4, PrelistRemoveOK DEF PrefixExpires
<1>5. ASSUME NEW e \in Entry, AddrExpires(e) PROVE Full(nd', Was)
  BY <1>0, <1>5, PurgeOK DEF AddrExpires, Has
<1>6. ASSUME NEW e \in Entry, NEW short \in Shortage, AddAddr(e, short) PROVE Full(nd', Was)
  BY <1>0, <1>6, AddAddrOK
<1>7. ASSUME NEW e \in Entry, NEW kind \in {"auto", "manual"}, DeleteAddr(e, kind) PROVE Full(nd', Was)
  BY <1>0, <1>7, DeleteAddrOK
<1>8. ASSUME PrefixFlush PROVE Full(nd', Was)
  <2>1. nd' = FlushAll(nd, nd.list)
    BY <1>8 DEF PrefixFlush, FlushAll
  <2> QED
    BY <1>0, <2>1, FlushOK
<1>9. CASE UNCHANGED vars
  BY <1>0, <1>9 DEF vars
<1> QED
  BY <1>1, <1>2, <1>3, <1>4, <1>5, <1>6, <1>7, <1>8, <1>9 DEF Next

LEMMA Invariant == Spec => []IInv
<1>1. IInv /\ [Next]_vars => IInv'
  BY NextOK DEF IInv, Full
<1> QED
  BY <1>1, InitOK, PTL DEF Spec

----------------------------------------------------------------------------
(* What follows.                                                           *)

\* Every field of the prefix list has its type; nothing is listed twice, and
\* nothing unlisted keeps state (the lists of nd6_rtr.c).
THEOREM PrefixTypes == Spec => []TypeOK
<1>1. IInv => TypeOK
  <2> SUFFICES ASSUME IInv PROVE TypeOK
    OBVIOUS
  <2>1. nd \in ND /\ Tidy(nd)
    BY DEF IInv, Base, Tidy
  <2>2. /\ nd.entry \in [Entry -> EntryRec] /\ nd.auto \in [Entry -> {"none", "attached", "detached"}]
        /\ nd.manual \subseteq Entry /\ nd.routers \subseteq Router /\ nd.reach \subseteq Router
        /\ Listed(nd) \subseteq Entry
    BY <2>1, Fields
  <2>3. ASSUME NEW e \in Entry PROVE nd.entry[e] \in EntryType
    <3>1. nd.entry[e].refcnt \in 0..2
      BY <2>1 DEF Tidy, Held
    <3> QED
      BY <2>2, <3>1 DEF EntryRec, EntryType
  <2>4. ASSUME NEW e \in Entry \ Listed(nd) PROVE nd.entry[e] = Blank
    <3>1. Clear(nd, e) /\ nd.entry[e] \in EntryRec
      BY <2>1, <2>2 DEF Tidy
    <3> QED
      BY <3>1 DEF Clear, EntryRec, Blank
  <2>5. nd.entry \in [Entry -> EntryType]
    BY <2>2, <2>3
  <2> QED
    BY <2>1, <2>2, <2>4, <2>5 DEF TypeOK, Tidy
<1> QED
  BY <1>1, Invariant, PTL

\* A prefix has its interface route exactly when one entry of it is on-link,
\* and never two are (nd6_prefix_onlink, nd6_prefix_offlink).
THEOREM PrefixRouteExact == Spec => []RouteExact
<1>1. IInv => RouteExact
  <2> SUFFICES ASSUME IInv, NEW v \in Values
               PROVE  Cardinality(Owners(v)) = IF v \in nd.route THEN 1 ELSE 0
    BY DEF RouteExact, Values
  <2>1. Tidy(nd) /\ OneOwner(nd) /\ Listed(nd) \subseteq Entry
    BY Fields DEF IInv, Base, Tidy
  <2>2. CASE v \in nd.route
    <3>1. PICK e \in Entry : PrefixOf[e] = v /\ nd.entry[e].onlink
      BY <2>1, <2>2 DEF OneOwner
    <3>2. Owners(v) = {e}
      BY <2>1, <3>1 DEF Owners, OneOwner, Tidy, Clear
    <3> QED
      BY <2>2, <3>2, FS_Singleton
  <2>3. CASE v \notin nd.route
    <3>1. Owners(v) = {}
      BY <2>1, <2>3 DEF Owners, OneOwner
    <3> QED
      BY <2>3, <3>1, FS_EmptySet
  <2> QED
    BY <2>2, <2>3
<1> QED
  BY <1>1, Invariant, PTL

\* The count of a prefix is the number of its addresses, a prefix with
\* addresses is listed, and it names only listed routers (prelist_remove,
\* in6_unlink_ifa, defrtrlist_del).
THEOREM PrefixPointersLive == Spec => []PointersLive
<1>1. IInv => PointersLive
  <2> SUFFICES ASSUME IInv, NEW e \in Entry
               PROVE  LET held == {k \in {"auto", "manual"} : Has(nd, e, k)}
                      IN  /\ nd.entry[e].refcnt = Cardinality(held)
                          /\ held # {} => e \in Listed(nd)
                          /\ nd.entry[e].adv \subseteq nd.routers
    BY DEF PointersLive
  <2> DEFINE held == {k \in {"auto", "manual"} : Has(nd, e, k)}
  <2>1. Tidy(nd)
    BY DEF IInv, Base
  <2>2. Cardinality(held) = Held(nd, e)
    <3>1. "auto" \in held <=> nd.auto[e] # "none"
      BY DEF Has
    <3>2. "manual" \in held <=> e \in nd.manual
      BY DEF Has
    <3>3. held \subseteq {"auto", "manual"}
      OBVIOUS
    <3> HIDE DEF held
    <3>4. CASE nd.auto[e] # "none" /\ e \in nd.manual
      <4>1. held = {"auto"} \cup {"manual"} /\ "manual" \notin {"auto"}
        BY <3>1, <3>2, <3>3, <3>4
      <4>2. IsFiniteSet({"auto"}) /\ Cardinality({"auto"}) = 1
        BY FS_Singleton
      <4>3. Cardinality(held) = Cardinality({"auto"}) + 1
        BY <4>1, <4>2, FS_AddElement
      <4> QED
        BY <3>4, <4>2, <4>3 DEF Held
    <3>5. CASE nd.auto[e] # "none" /\ e \notin nd.manual
      <4>1. held = {"auto"}
        BY <3>1, <3>2, <3>3, <3>5
      <4> QED
        BY <3>5, <4>1, FS_Singleton DEF Held
    <3>6. CASE nd.auto[e] = "none" /\ e \in nd.manual
      <4>1. held = {"manual"}
        BY <3>1, <3>2, <3>3, <3>6
      <4> QED
        BY <3>6, <4>1, FS_Singleton DEF Held
    <3>7. CASE nd.auto[e] = "none" /\ e \notin nd.manual
      <4>1. held = {}
        BY <3>1, <3>2, <3>3, <3>7
      <4> QED
        BY <3>7, <4>1, FS_EmptySet DEF Held
    <3> QED
      BY <3>4, <3>5, <3>6, <3>7
  <2>3. held # {} => e \in Listed(nd)
    BY <2>1 DEF Tidy, Clear, Has
  <2> QED
    BY <2>1, <2>2, <2>3 DEF Tidy
<1> QED
  BY <1>1, Invariant, PTL

\* A valid on-link prefix that is not detached has its interface route, on
\* whatever interface (nd6_prefix_offlink hands it over, pfxlist_onlink_check
\* gives it back).
THEOREM PrefixAttachedOnlink == Spec => []AttachedOnlink
<1>1. IInv => AttachedOnlink
  BY DEF IInv, Attached, AttachedOnlink
<1> QED
  BY <1>1, Invariant, PTL

\* While an autoconfigured address is detached another one is attached
\* (pfxlist_onlink_check after every change that may take that one away).
THEOREM PrefixAddressUsable == Spec => []SomeAddressUsable
<1>1. IInv => SomeAddressUsable
  BY DEF IInv, Usable, SomeAddressUsable
<1> QED
  BY <1>1, Invariant, PTL

\* A prefix is detached only while another one has a reachable router, or while
\* the host has routers that advertise no prefix (pfxlist_onlink_check).
THEOREM PrefixDetachedForReason == Spec => DetachedForReason
<1>1. IInv /\ [Next]_vars
      => \A e \in Entry : ~ nd.entry[e].detached /\ nd'.entry[e].detached
           => \/ \E f \in Listed(nd') \ {e} : Reachable(nd', f)
              \/ /\ nd'.routers # {}
                 /\ \A f \in Entry : nd'.entry[f].adv = {}
  <2> SUFFICES ASSUME IInv, [Next]_vars, NEW e \in Entry,
                      ~ nd.entry[e].detached, nd'.entry[e].detached
               PROVE  Reason(nd', e)
    BY DEF Reason
  <2>1. Justified(nd', Was)
    BY NextOK DEF Full
  <2> QED
    BY <2>1 DEF Justified, Was
<1> QED
  BY <1>1, Invariant, PTL DEF Spec, DetachedForReason
=============================================================================
