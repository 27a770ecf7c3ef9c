------------------------- MODULE NeighborCacheProofs -------------------------
(***************************************************************************)
(* The invariants of NeighborCache and what its steps do to the routes.    *)
(* Each handler changes at most one entry by one of a few operators, so    *)
(* the inductive invariant is a predicate EntryOK of every single entry;   *)
(* a lemma per operator says that it keeps EntryOK.  The router list has   *)
(* an invariant of its own, RInv, and a lemma per operator of              *)
(* DefaultRouters says what it keeps of a list and which router it leaves  *)
(* in use; the action properties follow from the two invariants and from   *)
(* RouterStep, which says what a step may do to routes and entries.        *)
(***************************************************************************)
EXTENDS NeighborCache, FoldProofs, TLAPS

\* A stale, delayed or probed entry, or a reachable one with a lifetime, has
\* its callout pending.
TimerOK(e) ==
    /\ e.state \in {"incomplete", "stale", "delay", "probe"} => e.armed
    /\ e.state = "reachable" /\ e.expire => e.armed

\* Packets are held by an unresolved entry that is soliciting; an entry
\* that was never used has not solicited.
HoldOK(e) ==
    /\ e.hold <= MaxQueueLen
    /\ e.hold > 0 => e.state = "incomplete"
    /\ e.state = "incomplete" => e.asked \in 1..MMaxTries
    /\ e.state = "nostate" => e.asked = 0

EntryOK(e) == e \in Entry /\ TimerOK(e) /\ HoldOK(e)

IInv == nc \in [Neighbor -> Entry] /\ \A n \in Neighbor : EntryOK(nc[n])

----------------------------------------------------------------------------
\* The callout of an entry may always be armed.
LEMMA SetTimerOK ==
    ASSUME NEW e \in Entry, HoldOK(e)
    PROVE  EntryOK(SetTimer(e))
    BY DEF EntryOK, TimerOK, HoldOK, SetTimer, Entry

LEMMA AbsentOK == EntryOK(Absent)
    BY NeighborCacheAssumption
    DEF EntryOK, TimerOK, HoldOK, Absent, Entry, State, OptLLAddr

\* A look-up leaves an entry that is well-formed, and that exists.
LEMMA LookupCreateOK ==
    ASSUME NEW e, EntryOK(e), NEW cloned \in BOOLEAN
    PROVE  EntryOK(LookupCreate(e, cloned)) /\ LookupCreate(e, cloned).state # "none"
<1> DEFINE n == [Absent EXCEPT !.state = "nostate"]
<1>1. EntryOK(n) /\ n.state = "nostate"
  <2>1. Absent.asked = 0 /\ Absent.hold = 0
      BY DEF Absent
  <2> QED BY <2>1, AbsentOK DEF EntryOK, TimerOK, HoldOK, Entry, State
<1>2. EntryOK(SetTimer(n)) /\ SetTimer(n).state = "nostate"
  <2> HIDE DEF n
  <2> QED BY <1>1, SetTimerOK DEF EntryOK, SetTimer, Entry
<1>3. \/ LookupCreate(e, cloned) = e /\ e.state # "none"
      \/ LookupCreate(e, cloned) \in {n, SetTimer(n)}
  <2>1. NewEntry(cloned) \in {n, SetTimer(n)}
      BY Zenon DEF NewEntry
  <2>2. CASE e.state = "none"
      BY <2>1, <2>2 DEF LookupCreate
  <2>3. CASE e.state # "none"
      BY <2>3 DEF LookupCreate
  <2> QED BY <2>2, <2>3
<1> HIDE DEF n
<1> QED BY <1>1, <1>2, <1>3

\* nd6_output keeps an existing entry well-formed.
LEMMA NdOutputOK ==
    ASSUME NEW e, EntryOK(e), e.state # "none"
    PROVE  EntryOK(NdOutput(e))
<1> DEFINE h == IF e.hold < MaxQueueLen THEN e.hold + 1 ELSE MaxQueueLen
           q == [e EXCEPT !.state = "incomplete", !.hold = h]
           q1 == [q EXCEPT !.asked = 1]
<1>1. h \in Nat /\ h <= MaxQueueLen
    BY NeighborCacheAssumption DEF EntryOK, HoldOK, Entry
<1>2. CASE e.state = "stale"
    BY <1>2, NeighborCacheAssumption
    DEF EntryOK, TimerOK, HoldOK, NdOutput, SetTimer, Entry, State
<1>3. CASE ProbReach(e) /\ e.state # "stale"
    BY <1>3 DEF NdOutput
<1>4. CASE ~ProbReach(e) /\ e.asked = 0
  <2>1. NdOutput(e) = SetTimer(q1)
      BY <1>4 DEF NdOutput, ProbReach
  <2>2. q1 \in Entry /\ HoldOK(q1)
    <3>1. q \in Entry /\ q.state = "incomplete" /\ q.hold = h
      <4> HIDE DEF h
      <4> QED BY <1>1 DEF EntryOK, Entry, State
    <3> HIDE DEF h, q
    <3>2. q1 \in Entry /\ q1.state = "incomplete" /\ q1.hold = h /\ q1.asked = 1
        BY <3>1 DEF Entry
    <3> HIDE DEF q1
    <3> QED BY <1>1, <3>2, NeighborCacheAssumption DEF HoldOK
  <2> HIDE DEF q1
  <2> QED BY <2>1, <2>2, SetTimerOK
<1>5. CASE ~ProbReach(e) /\ e.asked # 0
  <2>1. NdOutput(e) = q
      BY <1>5 DEF NdOutput, ProbReach
  <2>2. e.state = "incomplete"
      BY <1>5 DEF EntryOK, HoldOK, ProbReach, Entry, State
  <2>3. EntryOK(q)
    <3> HIDE DEF h
    <3> QED BY <1>1, <2>2 DEF EntryOK, TimerOK, HoldOK, Entry, State
  <2> QED BY <2>1, <2>3
<1> QED BY <1>2, <1>3, <1>4, <1>5

\* Held packets are sent from an entry that has just been resolved.
LEMMA SendHeldOK ==
    ASSUME NEW e \in Entry, TimerOK(e), ProbReach(e), e.hold <= MaxQueueLen
    PROVE  EntryOK(SendHeld(e))
<1> DEFINE s == [e EXCEPT !.hold = 0]
<1>1. EntryOK(s) /\ s.state # "none"
    BY NeighborCacheAssumption DEF EntryOK, TimerOK, HoldOK, ProbReach, Entry
<1>2. CASE e.hold = 0
    BY <1>2 DEF SendHeld, EntryOK, HoldOK, ProbReach, Entry
<1>3. CASE e.hold # 0
    BY <1>1, <1>3, NdOutputOK DEF SendHeld
<1> QED BY <1>2, <1>3

\* nd6_cache_lladdr keeps the entry well-formed.
LEMMA CacheLladdrOK ==
    ASSUME NEW e, EntryOK(e), NEW ll \in OptLLAddr, NEW cloned \in BOOLEAN,
           NEW isrouter \in BOOLEAN
    PROVE  EntryOK(CacheLladdr(e, ll, cloned, isrouter))
<1> DEFINE c == LookupCreate(e, cloned)
           a == [c EXCEPT !.lladdr = IF ll = NoLLAddr THEN @ ELSE ll,
                          !.router = @ \/ isrouter]
           s == SetTimer([a EXCEPT !.state = "stale"])
<1>1. EntryOK(c)
    BY LookupCreateOK
<1>2. EntryOK(a)
  <2> HIDE DEF c
  <2> QED BY <1>1 DEF EntryOK, TimerOK, HoldOK, Entry, OptLLAddr
<1>3. s \in Entry /\ TimerOK(s) /\ ProbReach(s) /\ s.hold <= MaxQueueLen
  <2> HIDE DEF a
  <2> QED BY <1>2 DEF EntryOK, TimerOK, HoldOK, SetTimer, ProbReach, Entry, State
<1>4. EntryOK(SendHeld(s))
  <2> HIDE DEF s
  <2> QED BY <1>3, SendHeldOK
<1>5. CacheLladdr(e, ll, cloned, isrouter) \in {e, a, SendHeld(s)}
    BY DEF CacheLladdr
<1> QED BY <1>2, <1>4, <1>5

\* An entry that is to be aged keeps what it holds.
LEMMA StaleOK ==
    ASSUME NEW e \in Entry, e.hold <= MaxQueueLen
    PROVE  /\ Stale(e) \in Entry /\ TimerOK(Stale(e)) /\ ProbReach(Stale(e))
           /\ Stale(e).hold = e.hold
    BY DEF Stale, SetTimer, TimerOK, ProbReach, Entry, State

LEMMA StaleEntryOK ==
    ASSUME NEW e, EntryOK(e), e.state # "incomplete"
    PROVE  EntryOK(Stale(e))
<1> DEFINE s == [e EXCEPT !.state = "stale"]
<1>1. s \in Entry /\ s.state = "stale" /\ s.hold = 0
    BY DEF EntryOK, HoldOK, Entry, State
<1>2. Stale(e) = SetTimer(s)
    BY DEF Stale
<1> HIDE DEF s
<1> QED BY <1>1, <1>2, SetTimerOK, NeighborCacheAssumption DEF HoldOK

(* An entry made REACHABLE is well-formed whatever its callout was: it is    *)
(* armed, unless the entry has no lifetime.                                *)
LEMMA ReachableOK ==
    ASSUME NEW e \in Entry, e.state = "reachable"
    PROVE  /\ SetTimerIfAging(e) \in Entry /\ TimerOK(SetTimerIfAging(e))
           /\ ProbReach(SetTimerIfAging(e)) /\ SetTimerIfAging(e).hold = e.hold
<1>1. CASE e.expire
  <2>1. SetTimerIfAging(e) = SetTimer(e)
      BY <1>1 DEF SetTimerIfAging, Permanent
  <2> QED BY <2>1 DEF SetTimer, TimerOK, ProbReach, Entry
<1>2. CASE ~e.expire
  <2>1. SetTimerIfAging(e) = e
      BY <1>2 DEF SetTimerIfAging, Permanent, ProbReach
  <2> QED BY <1>2, <2>1 DEF TimerOK, ProbReach
<1> QED BY <1>1, <1>2

LEMMA ConfirmedOK ==
    ASSUME NEW e \in Entry
    PROVE  /\ Confirmed(e) \in Entry /\ TimerOK(Confirmed(e)) /\ ProbReach(Confirmed(e))
           /\ Confirmed(e).hold = e.hold
<1> DEFINE r == [e EXCEPT !.state = "reachable", !.byhint = 0]
<1>1. r \in Entry /\ r.state = "reachable" /\ r.hold = e.hold
  <2>1. 0 \in 0..MaxNudHint /\ "reachable" \in State
      BY NeighborCacheAssumption DEF State
  <2> QED BY <2>1 DEF Entry
<1>2. Confirmed(e) = SetTimerIfAging(r)
    BY DEF Confirmed
<1> HIDE DEF r
<1> QED BY <1>1, <1>2, ReachableOK

\* A soliciting entry resolved by an advertisement sends what it holds.
LEMMA NaResolveOK ==
    ASSUME NEW e, EntryOK(e), e.state = "incomplete", NEW ll \in OptLLAddr,
           NEW solicited \in BOOLEAN, NEW isrouter \in BOOLEAN
    PROVE  EntryOK(NaResolve(e, ll, solicited, isrouter))
<1> DEFINE a == [e EXCEPT !.lladdr = ll, !.router = isrouter, !.asked = 0]
<1>1. a \in Entry /\ a.armed /\ a.hold <= MaxQueueLen
    BY DEF EntryOK, TimerOK, HoldOK, Entry
<1>2. NaResolve(e, ll, solicited, isrouter) \in {SendHeld(Confirmed(a)), SendHeld(Stale(a))}
    BY Zenon DEF NaResolve
<1> HIDE DEF a
<1>3. EntryOK(SendHeld(Confirmed(a)))
    BY <1>1, ConfirmedOK, SendHeldOK
<1>4. EntryOK(SendHeld(Stale(a)))
    BY <1>1, StaleOK, SendHeldOK
<1> QED BY <1>2, <1>3, <1>4

\* An entry that is not soliciting holds nothing; an advertisement confirms
\* it, ages it or updates it in its state.
LEMMA NaUpdateOK ==
    ASSUME NEW e, EntryOK(e), e.state \notin {"none", "incomplete"}, NEW ll \in OptLLAddr,
           NEW solicited \in BOOLEAN, NEW override \in BOOLEAN, NEW isrouter \in BOOLEAN
    PROVE  EntryOK(NaUpdate(e, ll, solicited, override, isrouter))
<1> DEFINE a == [e EXCEPT !.lladdr = IF ll = NoLLAddr THEN @ ELSE ll,
                          !.router = isrouter, !.asked = 0]
<1>1. e.hold = 0 /\ e \in Entry /\ e.hold <= MaxQueueLen
    BY DEF EntryOK, HoldOK, Entry
<1>2. EntryOK(a) /\ a.hold = 0 /\ a.state = e.state
    BY <1>1, NeighborCacheAssumption DEF EntryOK, TimerOK, HoldOK, Entry, OptLLAddr
<1>3. \/ NaUpdate(e, ll, solicited, override, isrouter) \in {e, Stale(e)}
      \/ NaUpdate(e, ll, solicited, override, isrouter)
             \in {SendHeld(Confirmed(a)), SendHeld(Stale(a)), SendHeld(a)}
    BY Zenon DEF NaUpdate
<1>4. EntryOK(Stale(e))
    BY StaleEntryOK
<1> HIDE DEF a
<1>5. EntryOK(SendHeld(Stale(a)))
    BY <1>1, <1>2, StaleOK, SendHeldOK DEF EntryOK, HoldOK
<1>6. SendHeld(a) = a
    BY <1>2 DEF SendHeld
<1>7. EntryOK(SendHeld(Confirmed(a)))
    BY <1>1, <1>2, ConfirmedOK, SendHeldOK DEF EntryOK, HoldOK
<1> QED BY <1>2, <1>3, <1>4, <1>5, <1>6, <1>7

----------------------------------------------------------------------------
(* An entry that may be collected is kept with its callout armed, or goes; *)
(* the other entries are not touched.                                      *)
LEMMA NdFreeOK ==
    ASSUME IInv, NEW n \in Neighbor, NEW gc \in BOOLEAN, NdFree(n, gc)
    PROVE  IInv'
<1>1. nc' \in {[nc EXCEPT ![n] = SetTimer(nc[n])], [nc EXCEPT ![n] = Absent]}
    BY Zenon DEF NdFree
<1>2. EntryOK(SetTimer(nc[n])) /\ EntryOK(Absent)
    BY SetTimerOK, AbsentOK DEF IInv, EntryOK
<1> QED BY <1>1, <1>2 DEF IInv, EntryOK

\* A step that gives one entry a well-formed value keeps the invariant.
LEMMA OneEntryOK ==
    ASSUME IInv, NEW n \in Neighbor, NEW v, EntryOK(v), nc' = [nc EXCEPT ![n] = v]
    PROVE  IInv'
    BY DEF IInv, EntryOK

LEMMA IInvInit == Init => IInv
    BY AbsentOK DEF Init, IInv, EntryOK

\* A packet from a neighbor changes the neighbor's entry only.
LEMMA HearsOK ==
    ASSUME IInv, NEW n \in Neighbor, Hears(n)
    PROVE  IInv'
<1>0. EntryOK(nc[n])
    BY DEF IInv
<1>1. PICK ll \in OptLLAddr, b1 \in BOOLEAN, b2 \in BOOLEAN, b3 \in BOOLEAN :
        \/ HeardNs(n, ll, b1)
        \/ HeardRedirect(n, ll, b1, b2)
        \/ \E p \in Prefs : HeardRa(n, b1, p, ll, b2, b3)
        \/ HeardNaIncomplete(n, ll, b1, b2)
        \/ HeardNa(n, ll, b1, b2, b3)
    BY DEF Hears
<1>2. CASE HeardNs(n, ll, b1)
    BY <1>0, <1>2, CacheLladdrOK, OneEntryOK DEF HeardNs
<1>3. CASE HeardRedirect(n, ll, b1, b2)
    BY <1>0, <1>3, CacheLladdrOK, OneEntryOK DEF HeardRedirect
<1>4. CASE \E p \in Prefs : HeardRa(n, b1, p, ll, b2, b3)
  <2> DEFINE r == NoLLAddr # ll \/ NoLLAddr # nc[n].lladdr
  <2>1. nc' = [nc EXCEPT ![n] = CacheLladdr(nc[n], ll, b2, r)]
      BY <1>4 DEF HeardRa
  <2>2. r \in BOOLEAN
      OBVIOUS
  <2> HIDE DEF r
  <2> QED BY <1>0, <2>1, <2>2, CacheLladdrOK, OneEntryOK
<1>5. CASE HeardNaIncomplete(n, ll, b1, b2)
    BY <1>0, <1>5, NaResolveOK, OneEntryOK DEF HeardNaIncomplete
<1>6. CASE HeardNa(n, ll, b1, b2, b3)
    BY <1>0, <1>6, NaUpdateOK, OneEntryOK DEF HeardNa
<1> QED BY <1>1, <1>2, <1>3, <1>4, <1>5, <1>6

\* A hint confirms an entry that holds nothing.
LEMMA NudHintOK ==
    ASSUME IInv, NEW n \in Neighbor, NudHint(n)
    PROVE  IInv'
<1> DEFINE r == [nc[n] EXCEPT !.state = "reachable", !.byhint = nc[n].byhint + 1]
<1>0. EntryOK(nc[n]) /\ nc[n].byhint + 1 \in 0..MaxNudHint
    BY NeighborCacheAssumption DEF IInv, EntryOK, Entry, NudHint
<1>1. r \in Entry /\ r.state = "reachable" /\ r.hold = 0
  <2>1. nc[n] \in Entry /\ nc[n].hold = 0 /\ "reachable" \in State
      BY <1>0 DEF NudHint, ProbReach, EntryOK, HoldOK, Entry, State
  <2> QED BY <1>0, <2>1 DEF Entry
<1>2. nc' = [nc EXCEPT ![n] = SetTimerIfAging(r)]
    BY DEF NudHint
<1> HIDE DEF r
<1>3. SetTimerIfAging(r).state = "reachable"
    BY <1>1 DEF SetTimerIfAging, SetTimer, Entry
<1>4. EntryOK(SetTimerIfAging(r))
    BY <1>1, <1>3, ReachableOK, NeighborCacheAssumption DEF EntryOK, HoldOK
<1> QED BY <1>2, <1>4, OneEntryOK

\* A callout retries, ages or collects the entry it belongs to.
LEMMA LlinfoTimerOK ==
    ASSUME IInv, NEW n \in Neighbor, LlinfoTimer(n)
    PROVE  IInv'
<1>0. EntryOK(nc[n]) /\ nc \in [Neighbor -> Entry]
    BY DEF IInv
<1>1. CASE TimerNoState(n)
  <2>1. EntryOK([nc[n] EXCEPT !.armed = FALSE])
      BY <1>0, <1>1 DEF TimerNoState, EntryOK, TimerOK, HoldOK, Entry
  <2> QED BY <1>0, <1>1, <2>1, OneEntryOK DEF TimerNoState
<1>2. CASE TimerSolicit(n)
  <2> DEFINE a == [nc[n] EXCEPT !.asked = nc[n].asked + 1]
  <2>1. a \in Entry /\ HoldOK(a)
      BY <1>0, <1>2, NeighborCacheAssumption DEF TimerSolicit, EntryOK, HoldOK, Entry
  <2>2. nc' = [nc EXCEPT ![n] = SetTimer(a)]
      BY <1>2 DEF TimerSolicit
  <2> HIDE DEF a
  <2> QED BY <2>1, <2>2, SetTimerOK, OneEntryOK
<1>3. CASE TimerUnresolved(n)
    BY <1>3, NdFreeOK DEF TimerUnresolved
<1>4. CASE TimerReachable(n)
  <2>1. nc' = [nc EXCEPT ![n] = Stale(nc[n])]
      BY <1>4 DEF TimerReachable
  <2>2. EntryOK(Stale(nc[n]))
      BY <1>0, <1>4, StaleEntryOK DEF TimerReachable
  <2> QED BY <2>1, <2>2, OneEntryOK
<1>5. CASE TimerStale(n)
    BY <1>5, NdFreeOK DEF TimerStale
<1>6. CASE TimerDelay(n)
  <2> DEFINE a == [nc[n] EXCEPT !.state = "probe", !.asked = 1]
  <2>1. nc' = [nc EXCEPT ![n] = SetTimer(a)] \/ nc' = [nc EXCEPT ![n] = Stale(nc[n])]
      BY <1>6 DEF TimerDelay
  <2>2. nc[n].hold = 0 /\ nc[n].hold <= MaxQueueLen
      BY <1>0, <1>6 DEF TimerDelay, EntryOK, HoldOK, Entry
  <2>3. a \in Entry /\ HoldOK(a)
    <3>1. a \in Entry /\ a.state = "probe" /\ a.hold = 0
        BY <1>0, <2>2 DEF Entry, State
    <3> HIDE DEF a
    <3> QED BY <3>1, NeighborCacheAssumption DEF HoldOK
  <2>4. EntryOK(Stale(nc[n]))
      BY <1>0, <1>6, StaleEntryOK DEF TimerDelay
  <2> HIDE DEF a
  <2> QED BY <2>1, <2>3, <2>4, SetTimerOK, OneEntryOK
<1>7. CASE TimerProbe(n)
  <2> DEFINE a == [nc[n] EXCEPT !.asked = nc[n].asked + 1]
  <2>1. a \in Entry /\ a.state = "probe" /\ a.hold = 0
      BY <1>0, <1>7 DEF TimerProbe, EntryOK, HoldOK, Entry
  <2>2. nc' = [nc EXCEPT ![n] = SetTimer(a)]
      BY <1>7 DEF TimerProbe
  <2> HIDE DEF a
  <2>3. HoldOK(a)
      BY <2>1, NeighborCacheAssumption DEF HoldOK
  <2> QED BY <2>1, <2>2, <2>3, SetTimerOK, OneEntryOK
<1>8. CASE TimerUnreachable(n)
    BY <1>8, NdFreeOK DEF TimerUnreachable
<1> QED BY <1>1, <1>2, <1>3, <1>4, <1>5, <1>6, <1>7, <1>8 DEF LlinfoTimer

\* Userland adds a static entry, deletes one, or purges them all.
LEMMA EditsOK ==
    ASSUME IInv, Edits
    PROVE  IInv'
<1>1. CASE UNCHANGED nc
    BY <1>1 DEF IInv
<1>2. ASSUME NEW n \in Neighbor, NEW ll \in LLAddr, AddStatic(n, ll) PROVE IInv'
  <2> DEFINE s == [Absent EXCEPT !.state = "reachable", !.lladdr = ll, !.static = TRUE]
  <2>1. s \in Entry /\ s.state = "reachable" /\ s.hold = 0 /\ ~s.expire
    <3>1. Absent \in Entry /\ Absent.hold = 0 /\ Absent.expire = FALSE
        BY AbsentOK DEF EntryOK, Absent
    <3>2. ll \in OptLLAddr /\ "reachable" \in State
        BY DEF OptLLAddr, State
    <3> QED BY <3>1, <3>2 DEF Entry
  <2>2. nc' = [nc EXCEPT ![n] = s]
      BY <1>2 DEF AddStatic
  <2> HIDE DEF s
  <2>3. EntryOK(s)
      BY <2>1, NeighborCacheAssumption DEF EntryOK, TimerOK, HoldOK
  <2> QED BY <2>2, <2>3, OneEntryOK
<1>3. ASSUME NEW n \in Neighbor, DeleteEntry(n) PROVE IInv'
    BY <1>3, AbsentOK, OneEntryOK DEF DeleteEntry
<1>4. CASE Purge
    BY <1>4, AbsentOK DEF Purge, IInv, EntryOK
<1> QED BY <1>1, <1>2, <1>3, <1>4 DEF Edits, SyncRouters, FlushRouters

LEMMA IInvStep == IInv /\ [Next]_vars => IInv'
<1> SUFFICES ASSUME IInv, [Next]_vars PROVE IInv'
    OBVIOUS
<1>1. CASE UNCHANGED vars
    BY <1>1 DEF vars, IInv
<1>2. ASSUME NEW n \in Neighbor, NEW cloned \in BOOLEAN, Output(n, cloned) PROVE IInv'
  <2>1. EntryOK(NdOutput(LookupCreate(nc[n], cloned)))
      BY LookupCreateOK, NdOutputOK DEF IInv
  <2> QED BY <1>2, <2>1, OneEntryOK DEF Output
<1>3. ASSUME NEW n \in Neighbor, RtDrain(n) PROVE IInv'
    BY <1>3, NdFreeOK DEF RtDrain
<1>4. ASSUME NEW n \in Neighbor, FallSilent(n) PROVE IInv'
    BY <1>4 DEF FallSilent, IInv
<1>5. ASSUME NEW S \in SUBSET Neighbor, RoutersExpire(S) PROVE IInv'
    BY <1>5 DEF RoutersExpire, IInv
<1>6. CASE Drain
  <2>1. ASSUME NEW n \in Neighbor PROVE EntryOK([nc[n] EXCEPT !.hold = 0])
      BY NeighborCacheAssumption DEF IInv, EntryOK, TimerOK, HoldOK, Entry
  <2>2. nc' = [n \in Neighbor |-> [nc[n] EXCEPT !.hold = 0]]
      BY <1>6 DEF Drain
  <2> QED BY <2>1, <2>2 DEF IInv, EntryOK
<1> QED BY <1>1, <1>2, <1>3, <1>4, <1>5, <1>6, HearsOK, NudHintOK, LlinfoTimerOK, EditsOK
        DEF Next

LEMMA Invariance == Spec => []IInv
<1> QED BY IInvInit, IInvStep, PTL DEF Spec

----------------------------------------------------------------------------
(* No entry that is being resolved, aged or probed is left without its     *)
(* callout (nd6_llinfo_settimer), in whatever order packets, callouts,     *)
(* drains and userland reach it.                                           *)
THEOREM CacheNeverStuck == Spec => []NeverStuck
<1>1. IInv => NeverStuck
    BY DEF IInv, EntryOK, TimerOK, NeverStuck
<1> QED BY <1>1, Invariance, PTL

(* A packet held in ln_hold is held by an entry that is solicited, within  *)
(* the tries of nd6_llinfo_timer, and the queue keeps to its limit.        *)
THEOREM CacheHeldPackets == Spec => []HeldPackets
<1>1. IInv => HeldPackets
    BY DEF IInv, EntryOK, TimerOK, HoldOK, HeldPackets
<1> QED BY <1>1, Invariance, PTL

----------------------------------------------------------------------------
(* Resolved is kept by every operator on one entry, provided an            *)
(* advertisement that claims to be solicited finds an entry that has       *)
(* solicited (Late = FALSE).                                               *)
AddressKnown(e) == ProbReach(e) => e.lladdr # NoLLAddr

LEMMA SetTimerKnown ==
    ASSUME NEW e \in Entry
    PROVE  /\ SetTimer(e) \in Entry /\ SetTimer(e).state = e.state
           /\ SetTimer(e).lladdr = e.lladdr
    BY DEF SetTimer, Entry

LEMMA SetTimerIfAgingKnown ==
    ASSUME NEW e \in Entry
    PROVE  /\ SetTimerIfAging(e) \in Entry /\ SetTimerIfAging(e).state = e.state
           /\ SetTimerIfAging(e).lladdr = e.lladdr
    BY SetTimerKnown DEF SetTimerIfAging

\* nd6_output sends or holds; it never makes an entry reachable.
LEMMA NdOutputKnown ==
    ASSUME NEW e, EntryOK(e), e.state # "none", AddressKnown(e)
    PROVE  AddressKnown(NdOutput(e))
<1> DEFINE h == IF e.hold < MaxQueueLen THEN e.hold + 1 ELSE MaxQueueLen
           q == [e EXCEPT !.state = "incomplete", !.hold = h]
           q1 == [q EXCEPT !.asked = 1]
           w == [e EXCEPT !.state = "delay", !.asked = 0]
<1>0. e \in Entry /\ h \in Nat
    BY NeighborCacheAssumption DEF EntryOK, Entry
<1>1. q \in Entry /\ q.state = "incomplete"
  <2> HIDE DEF h
  <2> QED BY <1>0 DEF Entry, State
<1>2. q1 \in Entry /\ q1.state = "incomplete"
  <2> HIDE DEF q
  <2> QED BY <1>1 DEF Entry
<1>3. w \in Entry /\ w.state = "delay" /\ w.lladdr = e.lladdr
    BY <1>0 DEF Entry, State
<1>4. \/ e.state = "stale" /\ NdOutput(e) = SetTimer(w)
      \/ NdOutput(e) = e
      \/ NdOutput(e) \in {q, SetTimer(q1)}
    BY DEF NdOutput
<1> HIDE DEF q, q1, w
<1> QED BY <1>1, <1>2, <1>3, <1>4, SetTimerKnown DEF AddressKnown, ProbReach

LEMMA SendHeldKnown ==
    ASSUME NEW e \in Entry, TimerOK(e), ProbReach(e), e.hold <= MaxQueueLen,
           AddressKnown(e)
    PROVE  AddressKnown(SendHeld(e))
<1> DEFINE s == [e EXCEPT !.hold = 0]
<1>1. EntryOK(s) /\ s.state # "none" /\ AddressKnown(s)
    BY NeighborCacheAssumption
    DEF EntryOK, TimerOK, HoldOK, ProbReach, AddressKnown, Entry
<1>2. SendHeld(e) \in {e, NdOutput(s)}
    BY DEF SendHeld
<1> HIDE DEF s
<1> QED BY <1>1, <1>2, NdOutputKnown

LEMMA CacheLladdrKnown ==
    ASSUME NEW e, EntryOK(e), AddressKnown(e), NEW ll \in OptLLAddr,
           NEW cloned \in BOOLEAN, NEW isrouter \in BOOLEAN
    PROVE  AddressKnown(CacheLladdr(e, ll, cloned, isrouter))
<1> DEFINE c == LookupCreate(e, cloned)
           a == [c EXCEPT !.lladdr = IF ll = NoLLAddr THEN @ ELSE ll,
                          !.router = @ \/ isrouter]
           s == SetTimer([a EXCEPT !.state = "stale"])
<1>1. EntryOK(c) /\ (c = e \/ c.state = "nostate")
  <2>1. CASE e.state = "none"
    <3> DEFINE n == [Absent EXCEPT !.state = "nostate"]
    <3>1. n \in Entry /\ n.state = "nostate"
        BY AbsentOK DEF EntryOK, Entry, State
    <3>2. c \in {n, SetTimer(n)}
        BY <2>1, Zenon DEF LookupCreate, NewEntry
    <3> HIDE DEF n
    <3> QED BY <3>1, <3>2, SetTimerKnown, LookupCreateOK
  <2>2. CASE e.state # "none"
      BY <2>2 DEF LookupCreate
  <2> QED BY <2>1, <2>2
<1>2. EntryOK(a) /\ (ll # NoLLAddr => a.lladdr = ll) /\ AddressKnown(a)
  <2> HIDE DEF c
  <2> QED BY <1>1 DEF EntryOK, TimerOK, HoldOK, AddressKnown, ProbReach, Entry, OptLLAddr
<1>3. /\ s \in Entry /\ TimerOK(s) /\ ProbReach(s) /\ s.hold <= MaxQueueLen
      /\ s.lladdr = a.lladdr
  <2> HIDE DEF a
  <2> QED BY <1>2 DEF EntryOK, TimerOK, HoldOK, SetTimer, ProbReach, Entry, State
<1>4. \/ CacheLladdr(e, ll, cloned, isrouter) \in {e, a}
      \/ ll # NoLLAddr /\ CacheLladdr(e, ll, cloned, isrouter) = SendHeld(s)
    BY DEF CacheLladdr
<1> HIDE DEF a, s
<1> QED BY <1>2, <1>3, <1>4, SendHeldKnown DEF AddressKnown

LEMMA NaKnown ==
    ASSUME NEW e, EntryOK(e), AddressKnown(e), NEW ll \in OptLLAddr,
           NEW solicited \in BOOLEAN, NEW override \in BOOLEAN, NEW isrouter \in BOOLEAN
    PROVE  /\ e.state = "incomplete" /\ ll # NoLLAddr =>
                 AddressKnown(NaResolve(e, ll, solicited, isrouter))
           /\ e.state \notin {"none", "incomplete"}
              /\ (solicited => e.state # "nostate") =>
                 AddressKnown(NaUpdate(e, ll, solicited, override, isrouter))
<1> DEFINE b == [e EXCEPT !.lladdr = ll, !.router = isrouter, !.asked = 0]
           a == [e EXCEPT !.lladdr = IF ll = NoLLAddr THEN @ ELSE ll,
                          !.router = isrouter, !.asked = 0]
<1>1. /\ a \in Entry /\ a.hold = e.hold /\ a.hold <= MaxQueueLen
      /\ a.state = e.state /\ a.lladdr = IF ll = NoLLAddr THEN e.lladdr ELSE ll
      /\ a.armed = e.armed /\ a.expire = e.expire
    BY DEF EntryOK, HoldOK, Entry, OptLLAddr
<1>2. b \in Entry /\ b.hold <= MaxQueueLen /\ b.lladdr = ll
    BY DEF EntryOK, HoldOK, Entry
<1>3. e \in Entry /\ e.hold <= MaxQueueLen /\ (e.state # "incomplete" => e.hold = 0)
    BY DEF EntryOK, HoldOK, Entry
<1>4. ASSUME NEW x \in Entry
      PROVE  Stale(x).lladdr = x.lladdr /\ Confirmed(x).lladdr = x.lladdr
  <2> DEFINE r == [x EXCEPT !.state = "reachable", !.byhint = 0]
             t == [x EXCEPT !.state = "stale"]
  <2>1. /\ r \in Entry /\ r.lladdr = x.lladdr
        /\ t \in Entry /\ t.lladdr = x.lladdr
    <3>1. 0 \in 0..MaxNudHint /\ "reachable" \in State /\ "stale" \in State
        BY NeighborCacheAssumption DEF State
    <3> QED BY <3>1 DEF Entry
  <2>2. Stale(x) = SetTimer(t) /\ Confirmed(x) = SetTimerIfAging(r)
      BY DEF Stale, Confirmed
  <2> HIDE DEF r, t
  <2> QED BY <2>1, <2>2, SetTimerKnown, SetTimerIfAgingKnown
<1>5. ASSUME NEW x \in Entry, x.hold <= MaxQueueLen, x.lladdr # NoLLAddr
      PROVE  AddressKnown(SendHeld(Stale(x))) /\ AddressKnown(SendHeld(Confirmed(x)))
  <2>1. AddressKnown(Stale(x)) /\ AddressKnown(Confirmed(x))
      BY <1>4, <1>5 DEF AddressKnown
  <2>2. AddressKnown(SendHeld(Stale(x)))
      BY <1>5, <2>1, StaleOK, SendHeldKnown
  <2>3. AddressKnown(SendHeld(Confirmed(x)))
      BY <1>5, <2>1, ConfirmedOK, SendHeldKnown
  <2> QED BY <2>2, <2>3
<1>6. NaResolve(e, ll, solicited, isrouter) \in {SendHeld(Confirmed(b)), SendHeld(Stale(b))}
    BY Zenon DEF NaResolve
<1>7. ASSUME e.state \notin {"none", "incomplete"}, solicited => e.state # "nostate"
      PROVE  AddressKnown(NaUpdate(e, ll, solicited, override, isrouter))
  <2>1. \/ NaUpdate(e, ll, solicited, override, isrouter) = e
        \/ ProbReach(e) /\ NaUpdate(e, ll, solicited, override, isrouter) = Stale(e)
        \/ solicited /\ NaUpdate(e, ll, solicited, override, isrouter)
                            = SendHeld(Confirmed(a))
        \/ ll # NoLLAddr /\ NaUpdate(e, ll, solicited, override, isrouter)
                                = SendHeld(Stale(a))
        \/ NaUpdate(e, ll, solicited, override, isrouter) = SendHeld(a)
      BY DEF NaUpdate, ProbReach
  <2>2. a.hold = 0
      BY <1>1, <1>3, <1>7
  <2> HIDE DEF a, b
  <2>3. SendHeld(a) = a /\ AddressKnown(a)
      BY <1>1, <1>3, <1>7, <2>2 DEF SendHeld, AddressKnown, ProbReach, OptLLAddr
  <2>4. solicited => a.lladdr # NoLLAddr
    <3>1. solicited => ProbReach(e)
        BY <1>3, <1>7 DEF ProbReach, Entry, State
    <3> QED BY <1>1, <3>1 DEF AddressKnown
  <2> QED BY <1>1, <1>3, <1>4, <1>5, <2>1, <2>3, <2>4 DEF AddressKnown
<1> HIDE DEF a, b
<1> QED BY <1>2, <1>5, <1>6, <1>7

KInv == IInv /\ \A n \in Neighbor : AddressKnown(nc[n])

LEMMA OneEntryKnown ==
    ASSUME KInv, NEW n \in Neighbor, NEW v, AddressKnown(v), nc' = [nc EXCEPT ![n] = v]
    PROVE  \A m \in Neighbor : AddressKnown(nc'[m])
    BY DEF KInv, IInv

LEMMA AbsentKnown == AddressKnown(Absent)
    BY DEF AddressKnown, ProbReach, Absent

LEMMA NdFreeKnown ==
    ASSUME KInv, NEW n \in Neighbor, NEW gc, NdFree(n, gc)
    PROVE  \A m \in Neighbor : AddressKnown(nc'[m])
<1>1. nc' \in {[nc EXCEPT ![n] = SetTimer(nc[n])], [nc EXCEPT ![n] = Absent]}
    BY Zenon DEF NdFree
<1>2. AddressKnown(SetTimer(nc[n])) /\ AddressKnown(Absent)
  <2>1. nc[n] \in Entry /\ AddressKnown(nc[n])
      BY DEF KInv, IInv
  <2> QED BY <2>1, SetTimerKnown, AbsentKnown DEF AddressKnown, ProbReach
<1> QED BY <1>1, <1>2, OneEntryKnown

LEMMA LlinfoTimerKnown ==
    ASSUME KInv, NEW n \in Neighbor, LlinfoTimer(n)
    PROVE  \A m \in Neighbor : AddressKnown(nc'[m])
<1>0. nc[n] \in Entry /\ AddressKnown(nc[n]) /\ nc \in [Neighbor -> Entry]
    BY DEF KInv, IInv
<1>1. CASE TimerNoState(n)
  <2>1. AddressKnown([nc[n] EXCEPT !.armed = FALSE])
      BY <1>0, <1>1 DEF TimerNoState, AddressKnown, ProbReach, Entry
  <2> QED BY <1>0, <1>1, <2>1, OneEntryKnown DEF TimerNoState
<1>2. CASE TimerSolicit(n) \/ TimerProbe(n)
  <2> DEFINE a == [nc[n] EXCEPT !.asked = nc[n].asked + 1]
  <2>1. a \in Entry /\ AddressKnown(a)
      BY <1>0 DEF AddressKnown, ProbReach, Entry
  <2>2. nc' = [nc EXCEPT ![n] = SetTimer(a)]
      BY <1>2 DEF TimerSolicit, TimerProbe
  <2> HIDE DEF a
  <2>3. AddressKnown(SetTimer(a))
      BY <2>1, SetTimerKnown DEF AddressKnown, ProbReach
  <2> QED BY <2>2, <2>3, OneEntryKnown
<1>3. CASE TimerUnresolved(n) \/ TimerStale(n) \/ TimerUnreachable(n)
    BY <1>3, NdFreeKnown DEF TimerUnresolved, TimerStale, TimerUnreachable
<1>4. CASE TimerReachable(n) \/ TimerDelay(n)
  <2> DEFINE t == [nc[n] EXCEPT !.state = "stale"]
             p == [nc[n] EXCEPT !.state = "probe", !.asked = 1]
  <2>1. nc[n].lladdr # NoLLAddr
      BY <1>0, <1>4 DEF TimerReachable, TimerDelay, AddressKnown, ProbReach
  <2>2. /\ t \in Entry /\ t.lladdr = nc[n].lladdr
        /\ p \in Entry /\ p.lladdr = nc[n].lladdr
      BY <1>0 DEF Entry, State
  <2>3. nc' \in {[nc EXCEPT ![n] = SetTimer(t)], [nc EXCEPT ![n] = SetTimer(p)]}
      BY <1>4 DEF TimerReachable, TimerDelay, Stale
  <2> HIDE DEF t, p
  <2>4. AddressKnown(SetTimer(t)) /\ AddressKnown(SetTimer(p))
      BY <2>1, <2>2, SetTimerKnown DEF AddressKnown
  <2> QED BY <2>3, <2>4, OneEntryKnown
<1> QED BY <1>1, <1>2, <1>3, <1>4 DEF LlinfoTimer

LEMMA HearsKnown ==
    ASSUME KInv, ~Late, NEW n \in Neighbor, Hears(n)
    PROVE  \A m \in Neighbor : AddressKnown(nc'[m])
<1>0. EntryOK(nc[n]) /\ AddressKnown(nc[n])
    BY DEF KInv, IInv
<1>1. PICK ll \in OptLLAddr, b1 \in BOOLEAN, b2 \in BOOLEAN, b3 \in BOOLEAN :
        \/ HeardNs(n, ll, b1)
        \/ HeardRedirect(n, ll, b1, b2)
        \/ \E p \in Prefs : HeardRa(n, b1, p, ll, b2, b3)
        \/ HeardNaIncomplete(n, ll, b1, b2)
        \/ HeardNa(n, ll, b1, b2, b3)
    BY DEF Hears
<1>2. CASE HeardNs(n, ll, b1)
    BY <1>0, <1>2, CacheLladdrKnown, OneEntryKnown DEF HeardNs
<1>3. CASE HeardRedirect(n, ll, b1, b2)
    BY <1>0, <1>3, CacheLladdrKnown, OneEntryKnown DEF HeardRedirect
<1>4. CASE \E p \in Prefs : HeardRa(n, b1, p, ll, b2, b3)
  <2> DEFINE r == NoLLAddr # ll \/ NoLLAddr # nc[n].lladdr
  <2>1. nc' = [nc EXCEPT ![n] = CacheLladdr(nc[n], ll, b2, r)]
      BY <1>4 DEF HeardRa
  <2>2. r \in BOOLEAN
      OBVIOUS
  <2> HIDE DEF r
  <2> QED BY <1>0, <2>1, <2>2, CacheLladdrKnown, OneEntryKnown
<1>5. CASE HeardNaIncomplete(n, ll, b1, b2)
  <2>1. AddressKnown(NaResolve(nc[n], ll, b1, b2))
      BY <1>0, <1>5, NaKnown DEF HeardNaIncomplete
  <2> QED BY <1>5, <2>1, OneEntryKnown DEF HeardNaIncomplete
<1>6. CASE HeardNa(n, ll, b1, b2, b3)
  <2>1. AddressKnown(NaUpdate(nc[n], ll, b1, b2, b3))
      BY <1>0, <1>6, NaKnown DEF HeardNa
  <2> QED BY <1>6, <2>1, OneEntryKnown DEF HeardNa
<1> QED BY <1>1, <1>2, <1>3, <1>4, <1>5, <1>6

LEMMA KInvStep ==
    ASSUME ~Late, KInv, [Next]_vars PROVE KInv'
<1>0. IInv' /\ nc \in [Neighbor -> Entry]
    BY IInvStep DEF KInv, IInv
<1> DEFINE Known == \A m \in Neighbor : AddressKnown(nc'[m])
<1> SUFFICES Known
    BY <1>0 DEF KInv
<1>1. CASE UNCHANGED nc
    BY <1>1 DEF KInv
<1>2. ASSUME NEW n \in Neighbor, NEW cloned \in BOOLEAN, Output(n, cloned) PROVE Known
  <2> DEFINE c == LookupCreate(nc[n], cloned)
             a == [Absent EXCEPT !.state = "nostate"]
  <2>1. EntryOK(c) /\ c.state # "none"
      BY LookupCreateOK DEF KInv, IInv
  <2>2. AddressKnown(c)
    <3>1. a \in Entry /\ a.state = "nostate"
        BY AbsentOK DEF EntryOK, Entry, State
    <3>2. c \in {nc[n], a, SetTimer(a)}
        BY Zenon DEF LookupCreate, NewEntry
    <3> HIDE DEF a, c
    <3> QED BY <3>1, <3>2, SetTimerKnown DEF KInv, AddressKnown, ProbReach
  <2> HIDE DEF c
  <2>3. AddressKnown(NdOutput(c))
      BY <2>1, <2>2, NdOutputKnown
  <2>4. nc' = [nc EXCEPT ![n] = NdOutput(c)]
      BY <1>2 DEF Output, c
  <2> QED BY <2>3, <2>4, OneEntryKnown
<1>3. ASSUME NEW n \in Neighbor, RtDrain(n) PROVE Known
    BY <1>3, NdFreeKnown DEF RtDrain
<1>4. ASSUME NEW n \in Neighbor, NudHint(n) PROVE Known
  <2> DEFINE r == [nc[n] EXCEPT !.state = "reachable", !.byhint = nc[n].byhint + 1]
  <2>1. r \in Entry /\ r.lladdr = nc[n].lladdr
    <3>1. nc[n] \in Entry /\ "reachable" \in State
        BY <1>0 DEF State
    <3>2. nc[n].byhint + 1 \in 0..MaxNudHint
        BY <1>4, <3>1, NeighborCacheAssumption DEF NudHint, Entry
    <3> QED BY <3>1, <3>2 DEF Entry
  <2>2. nc[n].lladdr # NoLLAddr
      BY <1>4 DEF KInv, AddressKnown, NudHint
  <2>3. nc' = [nc EXCEPT ![n] = SetTimerIfAging(r)]
      BY <1>4 DEF NudHint
  <2> HIDE DEF r
  <2> QED BY <2>1, <2>2, <2>3, SetTimerIfAgingKnown, OneEntryKnown DEF AddressKnown
<1>5. CASE Drain
  <2>1. ASSUME NEW m \in Neighbor PROVE AddressKnown([nc[m] EXCEPT !.hold = 0])
      BY <1>0 DEF KInv, AddressKnown, ProbReach, Entry
  <2> QED BY <1>5, <2>1 DEF Drain
<1>6. ASSUME NEW n \in Neighbor, NEW ll \in LLAddr, AddStatic(n, ll) PROVE Known
  <2> DEFINE v == [Absent EXCEPT !.state = "reachable", !.lladdr = ll, !.static = TRUE]
  <2>1. v.lladdr = ll /\ ll # NoLLAddr
      BY NeighborCacheAssumption DEF Absent
  <2>2. nc' = [nc EXCEPT ![n] = v]
      BY <1>6 DEF AddStatic
  <2> HIDE DEF v
  <2> QED BY <2>1, <2>2, OneEntryKnown DEF AddressKnown
<1>7. ASSUME NEW n \in Neighbor, DeleteEntry(n) PROVE Known
    BY <1>7, AbsentKnown, OneEntryKnown DEF DeleteEntry
<1>8. CASE Purge
    BY <1>8, AbsentKnown DEF Purge
<1>9. CASE Edits
    BY <1>1, <1>6, <1>7, <1>8, <1>9 DEF Edits, SyncRouters, FlushRouters
<1> QED BY <1>1, <1>2, <1>3, <1>4, <1>5, <1>9, HearsKnown, LlinfoTimerKnown
        DEF Next, FallSilent, RoutersExpire, vars

(* "This should be impossible" is: nd6_output never sends to an entry      *)
(* without a link-layer address, when an advertisement that claims to be   *)
(* solicited does not find an entry made after the one that solicited it   *)
(* was freed.                                                              *)
THEOREM CacheResolved == ASSUME ~Late PROVE Spec => []Resolved
<1>1. Init => KInv
    BY IInvInit, AbsentKnown DEF Init, KInv
<1>2. KInv /\ [Next]_vars => KInv'
    BY KInvStep
<1>3. KInv => Resolved
    BY DEF KInv, AddressKnown, Resolved
<1> QED BY <1>1, <1>2, <1>3, PTL DEF Spec

----------------------------------------------------------------------------
(* The default router list.                                                *)

\* No router twice, and down in preference.
Ranked(l) ==
    /\ l \in [list : Seq(Neighbor), pref : [Neighbor -> Prefs], inst : SUBSET Neighbor]
    /\ IsInjective(l.list)
    /\ \A j \in DOMAIN l.list : \A i \in 1..(j - 1) : l.pref[l.list[i]] >= l.pref[l.list[j]]

\* No other route than one to a router of the list.
OneRoute(l) == l.inst = {} \/ \E r \in Routers(l) : l.inst = {r}

\* A router is in use if one is known.
InUse(l) == l.list # <<>> => l.inst # {}

Sane(l) == Ranked(l) /\ OneRoute(l)

\* No reachable router is preferred to the one in use.
Best(l, reach) ==
    \A r \in l.inst : \A q \in Routers(l) \intersect reach : r \in reach /\ l.pref[r] >= l.pref[q]

LEMMA RankedFields ==
    ASSUME NEW l, Ranked(l)
    PROVE  /\ l.list \in Seq(Neighbor) /\ l.pref \in [Neighbor -> Prefs] /\ l.inst \in SUBSET Neighbor
           /\ Len(l.list) \in Nat /\ DOMAIN l.list = 1..Len(l.list)
           /\ Routers(l) \in SUBSET Neighbor
           /\ \A i \in DOMAIN l.list : l.list[i] \in Neighbor /\ l.list[i] \in Routers(l)
           /\ \A r \in Neighbor : l.pref[r] \in Int
<1>1. l.list \in Seq(Neighbor) /\ l.pref \in [Neighbor -> Prefs] /\ l.inst \in SUBSET Neighbor
  BY DEF Ranked
<1>2. /\ Len(l.list) \in Nat /\ DOMAIN l.list = 1..Len(l.list)
      /\ \A i \in DOMAIN l.list : l.list[i] \in Neighbor
  BY <1>1
<1>3. \A r \in Neighbor : l.pref[r] \in Int
  BY <1>1, NeighborCacheAssumption
<1> QED
  BY <1>1, <1>2, <1>3 DEF Routers

(* The first router of a set.                                              *)
LEMMA FirstOfIs ==
    ASSUME NEW l, Ranked(l), NEW R
    PROVE  \/ FirstOf(l, R) = 0 /\ Routers(l) \intersect R = {}
           \/ /\ FirstOf(l, R) \in DOMAIN l.list /\ l.list[FirstOf(l, R)] \in R
              /\ \A j \in DOMAIN l.list : l.list[j] \in R => j >= FirstOf(l, R)
<1> DEFINE I == {i \in 1..Len(l.list) : l.list[i] \in R}
<1>1. FirstOf(l, R) = IF I # {} THEN Min(I) ELSE 0
  BY DEF FirstOf, SelectInSeq
<1>2. DOMAIN l.list = 1..Len(l.list) /\ Len(l.list) \in Nat
  BY RankedFields
<1>3. CASE I = {}
  BY <1>1, <1>2, <1>3 DEF Routers
<1>4. CASE I # {}
  <2>1. I \in SUBSET Nat
    BY <1>2
  <2>2. \A j \in DOMAIN l.list : l.list[j] \in R => j \in I
    BY <1>2
  <2>3. \A j \in I : j \in DOMAIN l.list /\ l.list[j] \in R
    BY <1>2
  <2> HIDE DEF I
  <2>4. \E m \in I : \A n \in I : m <= n
    BY <1>4, <2>1, NatLeast
  <2>5. Min(I) \in I /\ \A n \in I : Min(I) <= n
    BY <2>4 DEF Min
  <2> QED
    BY <1>1, <1>4, <2>1, <2>2, <2>3, <2>5
<1> QED
  BY <1>3, <1>4

\* What defrouter_select leaves of l.
Selected(m, l, reach) ==
    /\ Sane(m) /\ InUse(m) /\ m.list = l.list /\ m.pref = l.pref
    /\ Best(m, reach)
    /\ \A r \in l.inst \intersect reach : r \in m.inst \/ \A q \in m.inst : m.pref[q] > m.pref[r]
    /\ \A r \in l.inst \ reach : Len(l.list) > 1 => r \notin m.inst

LEMMA SelectOK ==
    ASSUME NEW l, Sane(l), NEW reach
    PROVE  Selected(DefrouterSelect(l, reach), l, reach)
<1> DEFINE m == DefrouterSelect(l, reach)
           N == Len(l.list)
<1>1. /\ l.list \in Seq(Neighbor) /\ l.pref \in [Neighbor -> Prefs] /\ l.inst \in SUBSET Neighbor
      /\ N \in Nat /\ DOMAIN l.list = 1..N
      /\ Routers(l) \in SUBSET Neighbor
      /\ \A i \in 1..N : l.list[i] \in Neighbor /\ l.list[i] \in Routers(l)
      /\ \A r \in Neighbor : l.pref[r] \in Int
      /\ Ranked(l)
  BY RankedFields DEF Sane
<1>2. CASE l.list = <<>>
  <2>1. m = l /\ Routers(l) = {}
    BY <1>1, <1>2 DEF DefrouterSelect, Routers
  <2>2. l.inst = {}
    BY <2>1 DEF Sane, OneRoute
  <2> QED
    BY <1>2, <2>1, <2>2 DEF Selected, InUse, Best
<1>3. CASE l.list # <<>>
  <2> DEFINE r == FirstOf(l, reach)
             i == FirstOf(l, l.inst)
             s == IF r = 0 THEN (IF i = 0 \/ i = N THEN 1 ELSE i + 1)
                  ELSE IF i # 0 /\ l.list[i] \in reach
                          /\ l.pref[l.list[r]] <= l.pref[l.list[i]]
                  THEN i ELSE r
             inst == (l.inst \ {l.list[k] : k \in {i} \ {0}}) \union {l.list[s]}
             p == [l EXCEPT !.inst = inst]
  <2>1. m = IF s = i THEN l ELSE p
    BY <1>3 DEF DefrouterSelect
  <2>2. \/ r = 0 /\ Routers(l) \intersect reach = {}
        \/ /\ r \in 1..N /\ l.list[r] \in reach
           /\ \A j \in 1..N : l.list[j] \in reach => j >= r
    BY <1>1, FirstOfIs
  <2>3. \/ i = 0 /\ l.inst = {}
        \/ i \in 1..N /\ l.inst = {l.list[i]}
    <3>1. \/ i = 0 /\ Routers(l) \intersect l.inst = {}
          \/ i \in 1..N /\ l.list[i] \in l.inst
      BY <1>1, FirstOfIs
    <3> QED
      BY <3>1 DEF Sane, OneRoute
  <2>4. N >= 1
    BY <1>1, <1>3
  <2> HIDE DEF r, i, m
  <2>5. s \in 1..N
    BY <1>1, <2>2, <2>3, <2>4
  <2>6. inst = {l.list[s]}
    BY <2>3
  <2> HIDE DEF inst
  <2>7. p.list = l.list /\ p.pref = l.pref /\ p.inst = {l.list[s]} /\ {l.list[s]} \in SUBSET Neighbor
        /\ p \in [list : Seq(Neighbor), pref : [Neighbor -> Prefs], inst : SUBSET Neighbor]
    BY <1>1, <2>5, <2>6 DEF Ranked
  <2> HIDE DEF p
  <2>8. /\ m.list = l.list /\ m.pref = l.pref /\ m.inst = {l.list[s]}
        /\ m \in [list : Seq(Neighbor), pref : [Neighbor -> Prefs], inst : SUBSET Neighbor]
    BY <1>1, <2>1, <2>3, <2>5, <2>7 DEF Ranked
  <2>9. Routers(m) = Routers(l)
    BY <2>8 DEF Routers
  <2>10. Sane(m) /\ InUse(m)
    BY <1>1, <2>5, <2>8, <2>9 DEF Sane, Ranked, OneRoute, InUse
  <2>11. ASSUME NEW q \in Routers(l) \intersect reach
         PROVE  l.list[s] \in reach /\ l.pref[l.list[s]] >= l.pref[q]
    <3>1. PICK j \in 1..N : q = l.list[j]
      BY <1>1 DEF Routers
    <3>2. r \in 1..N /\ l.list[r] \in reach /\ j >= r
      BY <2>2, <2>11, <3>1
    <3>3. l.pref[l.list[r]] >= l.pref[q]
      <4>1. CASE j = r
        BY <1>1, <3>1, <4>1
      <4>2. CASE j # r
        <5>1. r \in 1..(j - 1)
          BY <3>2, <4>2
        <5> QED
          BY <1>1, <3>1, <5>1 DEF Ranked
      <4> QED
        BY <4>1, <4>2
    <3>4. CASE s = r
      BY <3>2, <3>3, <3>4
    <3>5. CASE s # r
      <4>1. s = i /\ i # 0 /\ l.list[i] \in reach /\ l.pref[l.list[r]] <= l.pref[l.list[i]]
        BY <3>2, <3>5
      <4>2. l.pref[l.list[i]] \in Int /\ l.pref[l.list[r]] \in Int /\ l.pref[q] \in Int
        BY <1>1, <2>3, <3>1, <3>2, <4>1
      <4> HIDE DEF s
      <4> QED
        BY <3>3, <4>1, <4>2
    <3> QED
      BY <3>4, <3>5
  <2>12. ASSUME NEW x \in l.inst, x \in reach, x # l.list[s] PROVE l.pref[l.list[s]] > l.pref[x]
    <3>1. i \in 1..N /\ x = l.list[i]
      BY <2>3
    <3>2. r \in 1..N
      BY <1>1, <2>2, <2>12, <3>1
    <3>3. s = r /\ ~(l.pref[l.list[r]] <= l.pref[x])
      BY <2>12, <3>1, <3>2
    <3>4. l.pref[l.list[r]] \in Int /\ l.pref[x] \in Int
      BY <1>1, <3>1, <3>2
    <3> HIDE DEF s
    <3> QED
      BY <3>3, <3>4
  <2>13. ASSUME NEW x \in l.inst, x \notin reach, N > 1 PROVE x # l.list[s]
    <3>1. i \in 1..N /\ x = l.list[i]
      BY <2>3
    <3>2. CASE r = 0
      <4>1. s # i
        BY <1>1, <2>13, <3>1, <3>2
      <4> HIDE DEF s
      <4> QED
        BY <1>1, <2>5, <3>1, <4>1 DEF Ranked, IsInjective
    <3>3. CASE r # 0
      BY <2>2, <2>13, <3>1, <3>3
    <3> QED
      BY <3>2, <3>3
  <2> HIDE DEF s
  <2>14. Best(m, reach)
    BY <2>8, <2>9, <2>11 DEF Best
  <2> QED
    BY <2>8, <2>10, <2>12, <2>13, <2>14 DEF Selected, m
<1> QED
  BY <1>2, <1>3

(* A router taken off the list.                                            *)
OffList(m, l, r) ==
    /\ m \in [list : Seq(Neighbor), pref : [Neighbor -> Prefs], inst : SUBSET Neighbor]
    /\ m.list = Without(l.list, {r})
    /\ \A q \in Neighbor \ {r} : m.pref[q] = l.pref[q]

LEMMA OffListOK ==
    ASSUME NEW l, Ranked(l), NEW r \in Neighbor, NEW m, OffList(m, l, r)
    PROVE  Ranked(m) /\ Routers(m) = Routers(l) \ {r}
<1> DEFINE t == m.list
           f == m.pref
<1>1. /\ l.list \in Seq(Neighbor) /\ l.pref \in [Neighbor -> Prefs]
      /\ DOMAIN l.list = 1..Len(l.list) /\ Len(l.list) \in Nat /\ IsInjective(l.list)
  BY RankedFields DEF Ranked
<1>2. /\ t \in Seq(Neighbor) /\ IsInjective(t) /\ ToSet(t) = ToSet(l.list) \ {r}
      /\ Keeps(t, l.list, Len(l.list), {r})
  BY <1>1, WithoutFacts, WithoutKeeps DEF OffList
<1>3. f \in [Neighbor -> Prefs] /\ \A x \in Neighbor \ {r} : f[x] = l.pref[x]
  BY DEF OffList
<1>4. Routers(m) = Routers(l) \ {r}
  BY <1>2 DEF Routers, ToSet
<1>5. ASSUME NEW j \in DOMAIN t, NEW i \in 1..(j - 1) PROVE f[t[i]] >= f[t[j]]
  <2>1. PICK a \in 1..Len(l.list), b \in 1..Len(l.list) :
           a < b /\ t[i] = l.list[a] /\ t[j] = l.list[b]
    BY <1>2 DEF Keeps
  <2>2. l.pref[l.list[a]] >= l.pref[l.list[b]]
    <3>1. b \in DOMAIN l.list /\ a \in 1..(b - 1)
      BY <1>1, <2>1
    <3> QED
      BY <3>1 DEF Ranked
  <2>3. i \in DOMAIN t /\ DOMAIN t = 1..Len(t) /\ t[i] \in Neighbor /\ t[j] \in Neighbor
    BY <1>2
  <2>4. t[i] \in ToSet(t) /\ t[j] \in ToSet(t)
    BY <2>3 DEF ToSet
  <2>5. t[i] # r /\ t[j] # r
    BY <1>2, <2>4
  <2> QED
    BY <1>3, <2>1, <2>2, <2>3, <2>5
<1> QED
  BY <1>2, <1>3, <1>4, <1>5 DEF Ranked, OffList

\* What a change of the list to m, with a selection among reach, keeps.
Follows(m, l, reach) ==
    /\ Best(m, reach) \/ m.inst \subseteq l.inst
    /\ \A r \in l.inst \intersect reach \intersect Routers(m) :
          r \in m.inst \/ \A q \in m.inst : q \in reach /\ m.pref[q] > m.pref[r]

LEMMA SelectFollows ==
    ASSUME NEW l, Sane(l), NEW reach
    PROVE  Follows(DefrouterSelect(l, reach), l, reach)
  BY SelectOK DEF Selected, Follows, Best

\* What defrtrlist_del leaves of l.
Deleted(m, l, r, reach) ==
    /\ Sane(m) /\ (InUse(l) => InUse(m))
    /\ Routers(m) = Routers(l) \ {r}
    /\ \A q \in Neighbor \ {r} : m.pref[q] = l.pref[q]
    /\ Best(l, reach) => Best(m, reach)
    /\ Best(m, reach) \/ m.inst \subseteq l.inst
    /\ \A q \in l.inst \ {r} : q \in m.inst

LEMMA DelOK ==
    ASSUME NEW l, Sane(l), NEW r \in Neighbor, NEW reach
    PROVE  Deleted(DefrtrlistDel(l, r, reach), l, r, reach)
<1> DEFINE t == Without(l.list, {r})
           f == [l.pref EXCEPT ![r] = 0]
           i == l.inst \ {r}
           rest == [l EXCEPT !.list = t, !.inst = i, !.pref = f]
           m == DefrtrlistDel(l, r, reach)
<1>1. /\ l.list \in Seq(Neighbor) /\ l.pref \in [Neighbor -> Prefs] /\ l.inst \in SUBSET Neighbor
      /\ l \in [list : Seq(Neighbor), pref : [Neighbor -> Prefs], inst : SUBSET Neighbor]
      /\ Routers(l) \in SUBSET Neighbor /\ DOMAIN l.list = 1..Len(l.list) /\ Len(l.list) \in Nat
  BY RankedFields DEF Ranked, Sane
<1>2. i \in SUBSET Neighbor /\ 0 \in Prefs
  BY <1>1, NeighborCacheAssumption
<1>3. f \in [Neighbor -> Prefs] /\ t \in Seq(Neighbor)
  BY <1>1, <1>2, WithoutFacts
<1>4. Ranked(rest) /\ Routers(rest) = Routers(l) \ {r}
  <2>1. /\ rest \in [list : Seq(Neighbor), pref : [Neighbor -> Prefs], inst : SUBSET Neighbor]
        /\ rest.list = t /\ rest.pref = f /\ rest.inst = i
    <3> HIDE DEF t, f, i
    <3> QED
      BY <1>1, <1>2, <1>3
  <2>2. Ranked(l)
    BY DEF Sane
  <2> HIDE DEF rest, m
  <2>3. OffList(rest, l, r)
    BY <1>1, <2>1 DEF OffList
  <2> QED
    BY <2>2, <2>3, OffListOK
<1>5. \A q \in Neighbor \ {r} : f[q] = l.pref[q]
  BY <1>1
<1>6. m = IF r \in l.inst THEN DefrouterSelect(rest, reach) ELSE rest
  BY DEF DefrtrlistDel
<1>7. rest.list = t /\ rest.pref = f /\ rest.inst = i
  <2> HIDE DEF t, f, i
  <2> QED
    BY <1>1
<1> HIDE DEF m, rest, f
<1>8. OneRoute(rest)
  <2>1. CASE l.inst = {}
    BY <1>7, <2>1 DEF OneRoute
  <2>2. CASE l.inst # {}
    <3>1. PICK x \in Routers(l) : l.inst = {x}
      BY <2>2 DEF Sane, OneRoute
    <3> QED
      BY <1>4, <1>7, <3>1 DEF OneRoute
  <2> QED
    BY <2>1, <2>2
<1>9. CASE r \in l.inst
  <2>1. Selected(m, rest, reach)
    BY <1>4, <1>6, <1>8, <1>9, SelectOK DEF Sane
  <2>2. l.inst = {r}
    BY <1>9 DEF Sane, OneRoute
  <2>3. Routers(m) = Routers(rest)
    BY <2>1 DEF Selected, Routers
  <2> QED
    BY <1>4, <1>5, <1>7, <2>1, <2>2, <2>3 DEF Selected, Deleted, m
<1>10. CASE r \notin l.inst
  <2>1. m = rest /\ i = l.inst
    BY <1>6, <1>10
  <2>2. InUse(l) => InUse(m)
    <3>1. l.list = <<>> => t = <<>>
      <4>1. t \in Seq(Neighbor)
        BY <1>4, <1>7 DEF Ranked
      <4>2. ASSUME l.list = <<>> PROVE DOMAIN t = {}
        <5>1. Routers(l) = {}
          BY <4>2 DEF Routers
        <5>2. Routers(rest) = {}
          BY <1>4, <5>1
        <5> HIDE DEF t
        <5> QED
          BY <1>7, <5>2 DEF Routers
      <4> HIDE DEF t
      <4> QED
        BY <4>1, <4>2
    <3> QED
      BY <1>7, <2>1, <3>1 DEF InUse
  <2>3. l.inst \in SUBSET Routers(l)
    BY DEF Sane, OneRoute
  <2>4. Best(l, reach) => Best(m, reach)
    BY <1>1, <1>4, <1>5, <1>7, <1>10, <2>1, <2>3 DEF Best
  <2> QED
    BY <1>4, <1>5, <1>7, <1>8, <2>1, <2>2, <2>4 DEF Deleted, Sane, m
<1> QED
  BY <1>9, <1>10

LEMMA DelFollows ==
    ASSUME NEW l, Sane(l), NEW r \in Neighbor, NEW reach
    PROVE  Follows(DefrtrlistDel(l, r, reach), l, reach)
  BY DelOK DEF Deleted, Follows

\* t is s with r put in at place c.
Placed(t, s, r, c) ==
    /\ c \in 1..(Len(s) + 1)
    /\ t \in Seq(Neighbor) /\ Len(t) = Len(s) + 1
    /\ t[c] = r
    /\ \A j \in 1..(c - 1) : t[j] = s[j]
    /\ \A j \in (c + 1)..(Len(s) + 1) : t[j] = s[j - 1]

LEMMA PlacedIs ==
    ASSUME NEW s \in Seq(Neighbor), NEW r \in Neighbor
    PROVE  /\ Placed(Append(s, r), s, r, Len(s) + 1)
           /\ \A c \in 1..Len(s) : Placed(InsertAt(s, c, r), s, r, c)
<1>1. Placed(Append(s, r), s, r, Len(s) + 1)
  BY DEF Placed
<1>2. ASSUME NEW c \in 1..Len(s) PROVE Placed(InsertAt(s, c, r), s, r, c)
  <2> DEFINE a == SubSeq(s, 1, c - 1)
             b == SubSeq(s, c, Len(s))
             t == (a \o <<r>>) \o b
  <2>1. /\ a \in Seq(Neighbor) /\ Len(a) = c - 1 /\ \A j \in 1..(c - 1) : a[j] = s[j]
        /\ b \in Seq(Neighbor) /\ Len(b) = Len(s) - c + 1
        /\ \A j \in 1..(Len(s) - c + 1) : b[j] = s[c + j - 1]
    OBVIOUS
  <2>2. InsertAt(s, c, r) = t
    BY DEF InsertAt
  <2>3. Len(s) \in Nat /\ c \in Nat
    OBVIOUS
  <2> DEFINE N == Len(s)
             u == a \o <<r>>
  <2> HIDE DEF a, b, N
  <2>5. t = u \o b
    OBVIOUS
  <2> HIDE DEF t
  <2>4. /\ u \in Seq(Neighbor) /\ Len(u) = c /\ u[c] = r
        /\ \A j \in 1..(c - 1) : u[j] = a[j]
    <3> DEFINE z == <<r>>
    <3>1. z \in Seq(Neighbor) /\ Len(z) = 1 /\ z[1] = r
      OBVIOUS
    <3>2. u = a \o z
      OBVIOUS
    <3> HIDE DEF z, u
    <3>5. /\ u \in Seq(Neighbor) /\ Len(u) = Len(a) + Len(z)
          /\ \A j \in 1..(Len(a) + Len(z)) : u[j] = IF j <= Len(a) THEN a[j] ELSE z[j - Len(a)]
      BY <2>1, <3>1, <3>2, ConcatProperties
    <3>3. /\ u \in Seq(Neighbor) /\ Len(u) = Len(a) + 1
          /\ \A j \in 1..(Len(a) + 1) : u[j] = IF j <= Len(a) THEN a[j] ELSE z[j - Len(a)]
      BY <3>1, <3>5
    <3>4. /\ Len(a) + 1 = c /\ c \in 1..(Len(a) + 1) /\ ~(c <= Len(a)) /\ c - Len(a) = 1
          /\ \A j \in 1..(c - 1) : j \in 1..(Len(a) + 1) /\ j <= Len(a)
      BY <2>1, <2>3
    <3> QED
      BY <3>1, <3>3, <3>4
  <2> HIDE DEF u
  <2>8. /\ t \in Seq(Neighbor) /\ Len(t) = c + Len(b)
        /\ \A j \in 1..(c + Len(b)) : t[j] = IF j <= c THEN u[j] ELSE b[j - c]
    BY <2>1, <2>4, <2>5, ConcatProperties
  <2>9. N \in Nat /\ c \in 1..N /\ c + Len(b) = N + 1
    BY <2>1 DEF N
  <2>6. t[c] = r /\ \A j \in 1..(c - 1) : t[j] = s[j]
    <3>1. c \in 1..(N + 1) /\ \A j \in 1..(c - 1) : j \in 1..(N + 1) /\ j <= c
      BY <2>9
    <3> QED
      BY <2>1, <2>4, <2>8, <2>9, <3>1
  <2>7. ASSUME NEW j \in (c + 1)..(N + 1) PROVE t[j] = s[j - 1]
    <3>1. /\ j \in 1..(N + 1) /\ ~(j <= c) /\ j - c \in 1..(N - c + 1)
          /\ c + (j - c) - 1 = j - 1
      BY <2>9
    <3>2. t[j] = b[j - c] /\ b[j - c] = s[c + (j - c) - 1]
      BY <2>1, <2>8, <2>9, <3>1 DEF N
    <3> QED
      BY <3>1, <3>2
  <2> QED
    BY <2>2, <2>3, <2>6, <2>7, <2>8, <2>9 DEF Placed, N
<1> QED
  BY <1>1, <1>2

(* A router put in behind those preferred as much keeps the ranking.       *)
LEMMA InsertOK ==
    ASSUME NEW l, Ranked(l), NEW r \in Neighbor \ Routers(l), NEW p \in Prefs
    PROVE  LET m == InsertSorted(l, r, p)
           IN  /\ Ranked(m) /\ Routers(m) = Routers(l) \union {r} /\ m.inst = l.inst
               /\ m.list # <<>> /\ m.pref[r] = p
               /\ \A q \in Neighbor \ {r} : m.pref[q] = l.pref[q]
<1> DEFINE m == InsertSorted(l, r, p)
           s == l.list
           N == Len(s)
           I == {j \in 1..N : p > l.pref[s[j]]}
           i == SelectInSeq(s, LAMBDA d : p > l.pref[d])
           t == IF i = 0 THEN Append(s, r) ELSE InsertAt(s, i, r)
           f == [l.pref EXCEPT ![r] = p]
<1>1. /\ s \in Seq(Neighbor) /\ l.pref \in [Neighbor -> Prefs] /\ l.inst \in SUBSET Neighbor
      /\ N \in Nat /\ DOMAIN s = 1..N
      /\ Routers(l) \in SUBSET Neighbor
      /\ \A j \in 1..N : s[j] \in Neighbor /\ s[j] \in Routers(l)
      /\ \A q \in Neighbor : l.pref[q] \in Int
      /\ l \in [list : Seq(Neighbor), pref : [Neighbor -> Prefs], inst : SUBSET Neighbor]
  BY RankedFields DEF Ranked
<1>2. m = [l EXCEPT !.list = t, !.pref = f]
  BY DEF InsertSorted
<1>3. i = IF I # {} THEN Min(I) ELSE 0
  BY DEF SelectInSeq
<1>4. \/ i = 0 /\ I = {}
      \/ i \in I /\ \A j \in I : i <= j
  <2>1. I \in SUBSET Nat
    OBVIOUS
  <2> HIDE DEF I
  <2>2. CASE I # {}
    <3>1. \E n \in I : \A j \in I : n <= j
      BY <2>1, <2>2, NatLeast
    <3>2. Min(I) \in I /\ \A j \in I : Min(I) <= j
      BY <3>1 DEF Min
    <3> QED
      BY <1>3, <2>2, <3>2
  <2> QED
    BY <1>3, <2>2
<1> HIDE DEF i, m
<1> DEFINE c == IF i = 0 THEN N + 1 ELSE i
<1>5. Placed(t, s, r, c)
  <2>1. CASE i = 0
    BY <1>1, <2>1, PlacedIs
  <2>2. CASE i # 0
    <3>1. i \in 1..N
      BY <1>4, <2>2
    <3> QED
      BY <1>1, <2>2, <3>1, PlacedIs
  <2> QED
    BY <2>1, <2>2
<1>6. /\ \A j \in 1..(c - 1) : j \in 1..N /\ l.pref[s[j]] >= p
      /\ c <= N => p > l.pref[s[c]]
      /\ c \in 1..(N + 1)
  <2>1. CASE i = 0
    <3>1. I = {} /\ c = N + 1 /\ \A j \in 1..(c - 1) : j \in 1..N
      BY <1>1, <1>4, <2>1
    <3>2. \A j \in 1..N : ~(p > l.pref[s[j]]) /\ l.pref[s[j]] \in Int
      BY <1>1, <3>1
    <3>3. p \in Int
      BY NeighborCacheAssumption
    <3> HIDE DEF c, I
    <3> QED
      BY <1>1, <3>1, <3>2, <3>3
  <2>2. CASE i # 0
    <3>1. i \in I /\ i \in 1..N /\ \A j \in I : i <= j
      BY <1>4, <2>2
    <3>2. \A j \in 1..(i - 1) : j \in 1..N /\ j \notin I
      BY <1>1, <3>1
    <3>3. \A j \in 1..(i - 1) : l.pref[s[j]] >= p
      BY <1>1, <3>2, NeighborCacheAssumption
    <3> QED
      BY <1>1, <2>2, <3>1, <3>2, <3>3
  <2> QED
    BY <2>1, <2>2
<1> HIDE DEF t, c
<1>7. /\ t \in Seq(Neighbor) /\ DOMAIN t = 1..(N + 1) /\ t[c] = r
      /\ \A j \in 1..(c - 1) : t[j] = s[j]
      /\ \A j \in (c + 1)..(N + 1) : t[j] = s[j - 1] /\ j - 1 \in 1..N /\ j - 1 >= c
      /\ \A j \in 1..(N + 1) : j = c \/ j \in 1..(c - 1) \/ j \in (c + 1)..(N + 1)
  BY <1>1, <1>5, <1>6 DEF Placed
<1>8. /\ f \in [Neighbor -> Prefs] /\ f[r] = p /\ \A q \in Neighbor \ {r} : f[q] = l.pref[q]
      /\ p \in Int
  BY <1>1, NeighborCacheAssumption
<1>9. /\ m \in [list : Seq(Neighbor), pref : [Neighbor -> Prefs], inst : SUBSET Neighbor]
      /\ m.list = t /\ m.pref = f /\ m.inst = l.inst
  <2> HIDE DEF f
  <2> QED
    BY <1>1, <1>2, <1>7, <1>8
<1> HIDE DEF f
<1>10. /\ \A j \in 1..(c - 1) : j \in 1..N /\ f[s[j]] = l.pref[s[j]] /\ s[j] # r
       /\ \A j \in 1..N : f[s[j]] = l.pref[s[j]] /\ s[j] # r
  BY <1>1, <1>6, <1>8
<1>11. ASSUME NEW a \in 1..N, NEW b \in 1..N, a <= b PROVE l.pref[s[a]] >= l.pref[s[b]]
  <2>1. CASE a = b
    BY <1>1, <2>1
  <2>2. CASE a # b
    <3>1. a \in 1..(b - 1)
      BY <1>11, <2>2
    <3> QED
      BY <1>1, <3>1 DEF Ranked
  <2> QED
    BY <2>1, <2>2
<1>11a. \A a, b \in 1..N : s[a] = s[b] => a = b
  BY <1>1 DEF Ranked, IsInjective
<1>12. ASSUME NEW b \in DOMAIN t, NEW a \in 1..(b - 1)
       PROVE  t[a] # t[b] /\ f[t[a]] >= f[t[b]]
  <2>0. a \in 1..(N + 1) /\ b \in 1..(N + 1) /\ a < b
    BY <1>1, <1>7
  <2>1. CASE b \in 1..(c - 1)
    <3>1. a \in 1..(c - 1)
      BY <1>6, <2>0, <2>1
    <3>2. t[a] = s[a] /\ t[b] = s[b] /\ a \in 1..N /\ b \in 1..N
      BY <1>6, <1>7, <2>1, <3>1
    <3> QED
      BY <1>1, <1>10, <1>11, <2>0, <3>2 DEF Ranked, IsInjective
  <2>2. CASE b = c
    <3>1. a \in 1..(c - 1) /\ t[a] = s[a] /\ t[b] = r
      BY <1>7, <2>2
    <3> QED
      BY <1>6, <1>8, <1>10, <3>1
  <2>3. CASE b \in (c + 1)..(N + 1)
    <3>1. t[b] = s[b - 1] /\ b - 1 \in 1..N /\ b - 1 >= c
      BY <1>7, <2>3
    <3>2. CASE a \in 1..(c - 1)
      <4>1. t[a] = s[a] /\ a \in 1..N /\ a < b - 1
        BY <1>6, <1>7, <3>1, <3>2
      <4>2. s[a] # s[b - 1]
        BY <1>1, <3>1, <4>1 DEF Ranked, IsInjective
      <4>3. l.pref[s[a]] >= l.pref[s[b - 1]]
        BY <1>11, <3>1, <4>1
      <4>4. f[s[a]] = l.pref[s[a]] /\ f[s[b - 1]] = l.pref[s[b - 1]]
        BY <1>10, <3>1, <4>1
      <4> QED
        BY <3>1, <4>1, <4>2, <4>3, <4>4
    <3>3. CASE a = c
      <4>1. t[a] = r /\ c \in 1..N /\ c <= b - 1
        BY <1>6, <1>7, <3>1, <3>3
      <4>2. p > l.pref[s[c]] /\ l.pref[s[c]] >= l.pref[s[b - 1]]
        BY <1>6, <1>11, <3>1, <4>1
      <4>3. l.pref[s[c]] \in Int /\ l.pref[s[b - 1]] \in Int
        BY <1>1, <3>1, <4>1
      <4>4. p >= l.pref[s[b - 1]]
        BY <1>8, <4>2, <4>3
      <4> QED
        BY <1>8, <1>10, <3>1, <4>1, <4>4
    <3>4. CASE a \in (c + 1)..(N + 1)
      <4>1. t[a] = s[a - 1] /\ a - 1 \in 1..N /\ a - 1 < b - 1
        BY <1>7, <2>0, <3>4
      <4>2. s[a - 1] # s[b - 1]
        <5>1. a - 1 # b - 1
          BY <1>1, <3>1, <4>1
        <5> QED
          BY <1>11a, <3>1, <4>1, <5>1
      <4>3. l.pref[s[a - 1]] >= l.pref[s[b - 1]]
        BY <1>11, <3>1, <4>1
      <4>4. f[s[a - 1]] = l.pref[s[a - 1]] /\ f[s[b - 1]] = l.pref[s[b - 1]]
        BY <1>10, <3>1, <4>1
      <4> QED
        BY <3>1, <4>1, <4>2, <4>3, <4>4
    <3> QED
      BY <1>7, <2>0, <3>2, <3>3, <3>4
  <2> QED
    BY <1>7, <2>0, <2>1, <2>2, <2>3
<1>13. IsInjective(t)
  <2>1. \A a, b \in DOMAIN t : a < b => t[a] # t[b]
    BY <1>7, <1>12
  <2>2. \A a, b \in DOMAIN t : a # b => a < b \/ b < a
    BY <1>1, <1>7
  <2> QED
    BY <2>1, <2>2 DEF IsInjective
<1>14. Ranked(m)
  BY <1>9, <1>12, <1>13 DEF Ranked
<1>15. Routers(m) = Routers(l) \union {r}
  <2>1. ASSUME NEW j \in 1..(N + 1) PROVE t[j] \in Routers(l) \union {r}
    BY <1>1, <1>6, <1>7
  <2>2. ASSUME NEW j \in 1..N PROVE \E n \in 1..(N + 1) : t[n] = s[j]
    <3>1. CASE j \in 1..(c - 1)
      BY <1>1, <1>7, <3>1
    <3>2. CASE j >= c
      <4>1. j + 1 \in (c + 1)..(N + 1) /\ j + 1 \in 1..(N + 1) /\ (j + 1) - 1 = j
        BY <1>1, <1>6, <3>2
      <4>2. t[j + 1] = s[j]
        BY <1>7, <4>1
      <4> QED
        BY <4>1, <4>2
    <3> QED
      BY <1>6, <3>1, <3>2
  <2>3. \E n \in 1..(N + 1) : t[n] = r
    BY <1>6, <1>7
  <2>4. Routers(m) = {t[j] : j \in 1..(N + 1)} /\ Routers(l) = {s[j] : j \in 1..N}
    <3>1. DOMAIN t = 1..(N + 1) /\ m.list = t
      BY <1>1, <1>7, <1>9
    <3>2. DOMAIN s = 1..N
      BY <1>1
    <3>3. Routers(m) = {t[j] : j \in 1..(N + 1)}
      BY <3>1, Zenon DEF Routers
    <3> QED
      BY <3>2, <3>3 DEF Routers
  <2>5. ASSUME NEW x \in Routers(l) PROVE x \in Routers(m)
    BY <2>2, <2>4
  <2> QED
    BY <2>1, <2>3, <2>4, <2>5
<1>16. m.list # <<>>
  BY <1>1, <1>7, <1>9
<1> QED
  BY <1>8, <1>9, <1>14, <1>15, <1>16 DEF m

(* defrtrlist_update: the list stays ranked and one of its routers in use. *)
LEMMA UpdateOK ==
    ASSUME NEW l, Sane(l), InUse(l), NEW r \in Neighbor, NEW alive \in BOOLEAN,
           NEW p \in Prefs, NEW nomem \in BOOLEAN, NEW reach
    PROVE  LET m == DefrtrlistUpdate(l, r, alive, p, nomem, reach)
           IN  Sane(m) /\ InUse(m) /\ Follows(m, l, reach)
<1> DEFINE t == Without(l.list, {r})
           e == [l EXCEPT !.list = t]
           a == InsertSorted(l, r, p)
           b == InsertSorted(e, r, p)
           m == DefrtrlistUpdate(l, r, alive, p, nomem, reach)
<1>1. \/ m \in {l, DefrtrlistDel(l, r, reach)}
      \/ m = DefrouterSelect(b, reach)
      \/ r \notin Routers(l) /\ m = DefrouterSelect(a, reach)
  BY DEF DefrtrlistUpdate
<1>2. Follows(l, l, reach)
  BY DEF Follows
<1>3. /\ l \in [list : Seq(Neighbor), pref : [Neighbor -> Prefs], inst : SUBSET Neighbor]
      /\ l.list \in Seq(Neighbor) /\ Ranked(l) /\ Routers(l) \in SUBSET Neighbor
      /\ l.inst \in SUBSET Neighbor
  BY RankedFields DEF Sane, Ranked
<1>4. ASSUME NEW c, Ranked(c), c.inst = l.inst, Routers(l) \subseteq Routers(c),
             m = DefrouterSelect(c, reach)
      PROVE  Sane(m) /\ InUse(m) /\ Follows(m, l, reach)
  <2>1. Sane(c)
    BY <1>4 DEF Sane, OneRoute
  <2> HIDE DEF m
  <2>2. Selected(m, c, reach) /\ Follows(m, c, reach)
    BY <1>4, <2>1, SelectOK, SelectFollows
  <2> QED
    BY <1>4, <2>2 DEF Selected, Follows
<1>5. /\ Ranked(e) /\ e.inst = l.inst /\ Routers(e) = Routers(l) \ {r}
  <2>1. t \in Seq(Neighbor)
    BY <1>3, WithoutFacts
  <2>2. /\ e \in [list : Seq(Neighbor), pref : [Neighbor -> Prefs], inst : SUBSET Neighbor]
        /\ e.list = t /\ e.pref = l.pref /\ e.inst = l.inst
    <3> HIDE DEF t
    <3> QED
      BY <1>3, <2>1
  <2> HIDE DEF e
  <2>3. OffList(e, l, r)
    BY <2>2 DEF OffList
  <2> QED
    BY <1>3, <2>2, <2>3, OffListOK
<1>6. Ranked(b) /\ b.inst = l.inst /\ Routers(l) \subseteq Routers(b)
  <2> HIDE DEF e
  <2>1. r \in Neighbor \ Routers(e)
    BY <1>5
  <2> QED
    BY <1>5, <2>1, InsertOK
<1>7. r \notin Routers(l) => Ranked(a) /\ a.inst = l.inst /\ Routers(l) \subseteq Routers(a)
  BY <1>3, InsertOK
<1> HIDE DEF m, a, b
<1>8. CASE m = l
  BY <1>2, <1>8 DEF m
<1>9. CASE m = DefrtrlistDel(l, r, reach)
  <2>1. Deleted(m, l, r, reach) /\ Follows(m, l, reach)
    BY <1>9, DelOK, DelFollows
  <2> QED
    BY <2>1 DEF Deleted, m
<1>10. CASE m = DefrouterSelect(b, reach)
  BY <1>4, <1>6, <1>10 DEF m
<1>11. CASE r \notin Routers(l) /\ m = DefrouterSelect(a, reach)
  BY <1>4, <1>7, <1>11 DEF m
<1> QED
  BY <1>1, <1>8, <1>9, <1>10, <1>11

(* Routers deleted one after the other.  DelFold is the fold of            *)
(* DefrtrlistDelAll, on the positions of ds.                               *)
DelFold(g, l, ds, reach) ==
    g = [T \in SUBSET (DOMAIN ds) |->
            IF T = {} THEN l ELSE DefrtrlistDel(g[T \ {Max(T)}], ds[Max(T)], reach)]

Gone(l, S) == Without(l.list, Routers(l) \ S)

LEMMA DelAllIs ==
    ASSUME NEW l, NEW S, NEW reach
    PROVE  DefrtrlistDelAll(l, S, reach)
              = (CHOOSE g : DelFold(g, l, Gone(l, S), reach))[DOMAIN Gone(l, S)]
  BY DEF DefrtrlistDelAll, FoldLeft, MapThenFoldSet, DelFold, Gone

SaneLists ==
    {l \in [list : Seq(Neighbor), pref : [Neighbor -> Prefs], inst : SUBSET Neighbor] : Sane(l)}

LEMMA DelFoldExists ==
    ASSUME NEW l, Sane(l), NEW ds \in Seq(Neighbor), NEW reach
    PROVE  \E g : DelFold(g, l, ds, reach)
<1> DEFINE N == Len(ds)
           A == SaneLists
           step == [i \in 1..N |-> [m \in A |-> DefrtrlistDel(m, ds[i], reach)]]
<1>1. N \in Nat /\ DOMAIN ds = 1..N /\ \A i \in 1..N : ds[i] \in Neighbor
  OBVIOUS
<1>2. \A m : Sane(m) <=> m \in A
  BY DEF SaneLists, Sane, Ranked
<1>3. \A m \in A, r \in Neighbor : DefrtrlistDel(m, r, reach) \in A
  BY <1>2, DelOK DEF Deleted
<1> HIDE DEF A, N
<1>4. step \in [1..N -> [A -> A]] /\ l \in A
  BY <1>1, <1>2, <1>3
<1>5. \A i \in 1..N : \A m \in A : step[i][m] = DefrtrlistDel(m, ds[i], reach)
  OBVIOUS
<1> HIDE DEF step
<1>6. PICK g \in [SUBSET (1..N) -> A] :
         \A T \in SUBSET (1..N) :
             /\ g[T] = IF T = {} THEN l ELSE step[Max(T)][g[T \ {Max(T)}]]
             /\ T # {} => Max(T) \in T
  BY <1>1, <1>4, ListFoldExists
<1>7. ASSUME NEW T \in SUBSET (DOMAIN ds)
      PROVE  g[T] = IF T = {} THEN l ELSE DefrtrlistDel(g[T \ {Max(T)}], ds[Max(T)], reach)
  <2>1. T \in SUBSET (1..N)
    BY <1>1
  <2>2. CASE T # {}
    <3>1. Max(T) \in 1..N /\ g[T] = step[Max(T)][g[T \ {Max(T)}]]
      BY <1>6, <2>1, <2>2
    <3>2. g[T \ {Max(T)}] \in A
      BY <1>6, <2>1
    <3> QED
      BY <1>5, <2>2, <3>1, <3>2
  <2> QED
    BY <1>6, <2>1, <2>2
<1>8. g = [T \in SUBSET (DOMAIN ds) |->
             IF T = {} THEN l ELSE DefrtrlistDel(g[T \ {Max(T)}], ds[Max(T)], reach)]
  BY <1>1, <1>6, <1>7
<1> QED
  BY <1>8 DEF DelFold

(* What is left when the routers of S have gone, in any order.             *)
LEMMA DelAllOK ==
    ASSUME NEW l, Sane(l), NEW S \in SUBSET Neighbor, NEW reach
    PROVE  LET m == DefrtrlistDelAll(l, S, reach)
           IN  /\ Sane(m) /\ (InUse(l) => InUse(m)) /\ Follows(m, l, reach)
<1> DEFINE ds == Gone(l, S)
           N == Len(ds)
           g == CHOOSE h : DelFold(h, l, ds, reach)
           G == {n \in 0..N :
                   /\ Sane(g[1..n]) /\ (InUse(l) => InUse(g[1..n]))
                   /\ Best(g[1..n], reach) \/ g[1..n].inst \subseteq l.inst
                   /\ \A i \in 1..n : ds[i] \notin Routers(g[1..n])
                   /\ \A q \in l.inst : q \in g[1..n].inst \/ q \notin Routers(g[1..n])}
<1>1. l.list \in Seq(Neighbor)
  BY RankedFields DEF Sane
<1>2. ds \in Seq(Neighbor)
  BY <1>1, WithoutFacts DEF Gone
<1>3. N \in Nat /\ DOMAIN ds = 1..N /\ \A i \in 1..N : ds[i] \in Neighbor
  BY <1>2
<1> HIDE DEF ds
<1>4. DelFold(g, l, ds, reach)
  BY <1>2, DelFoldExists
<1>5. DefrtrlistDelAll(l, S, reach) = g[1..N]
  BY <1>3, DelAllIs DEF ds
<1> HIDE DEF g, N
<1>6. /\ g[{}] = l
      /\ \A n \in 1..N : g[1..n] = DefrtrlistDel(g[1..(n - 1)], ds[n], reach)
  <2>1. \A T \in SUBSET (1..N) :
           g[T] = IF T = {} THEN l ELSE DefrtrlistDel(g[T \ {Max(T)}], ds[Max(T)], reach)
    BY <1>3, <1>4 DEF DelFold
  <2>2. ASSUME NEW n \in 1..N PROVE g[1..n] = DefrtrlistDel(g[1..(n - 1)], ds[n], reach)
    <3>1. /\ Max(1..n) = n /\ (1..n) \ {n} = 1..(n - 1) /\ 1..n # {} /\ 1..n \in SUBSET (1..N)
      BY <1>3, PrefixMax
    <3> QED
      BY <2>1, <3>1
  <2> QED
    BY <2>1, <2>2
<1>7. 0 \in G
  <2>1. 1..0 = {}
    OBVIOUS
  <2> QED
    BY <1>3, <1>6, <2>1
<1>8. ASSUME NEW n \in 0..N, n \in G, n < N PROVE n + 1 \in G
  <2> DEFINE a == g[1..n]
             b == g[1..(n + 1)]
  <2>1. n + 1 \in 1..N /\ (n + 1) - 1 = n
    BY <1>3, <1>8
  <2>2. b = DefrtrlistDel(a, ds[n + 1], reach) /\ ds[n + 1] \in Neighbor
    BY <1>3, <1>6, <2>1
  <2>3. /\ Sane(a) /\ (InUse(l) => InUse(a))
        /\ Best(a, reach) \/ a.inst \subseteq l.inst
        /\ \A i \in 1..n : ds[i] \notin Routers(a)
        /\ \A q \in l.inst : q \in a.inst \/ q \notin Routers(a)
    BY <1>8
  <2> HIDE DEF a, b
  <2>4. Deleted(b, a, ds[n + 1], reach)
    BY <2>2, <2>3, DelOK
  <2>5. \A i \in 1..(n + 1) : i = n + 1 \/ i \in 1..n
    BY <1>3
  <2>6. /\ Sane(b) /\ (InUse(l) => InUse(b))
        /\ Best(b, reach) \/ b.inst \subseteq l.inst
        /\ \A i \in 1..(n + 1) : ds[i] \notin Routers(b)
        /\ \A q \in l.inst : q \in b.inst \/ q \notin Routers(b)
    BY <2>3, <2>4, <2>5 DEF Deleted
  <2> QED
    BY <1>3, <2>1, <2>6 DEF b
<1>9. N \in G
  <2> HIDE DEF G
  <2>1. \A n \in 0..N : n \in G /\ n < N => n + 1 \in G
    BY <1>8
  <2>2. \A n \in 0..N : n \in G
    BY <1>3, <1>7, <2>1, UpTo
  <2> QED
    BY <1>3, <2>2
<1>10. /\ Sane(g[1..N]) /\ (InUse(l) => InUse(g[1..N]))
       /\ Best(g[1..N], reach) \/ g[1..N].inst \subseteq l.inst
       /\ \A q \in l.inst : q \in g[1..N].inst \/ q \notin Routers(g[1..N])
  BY <1>9 DEF G
<1> QED
  BY <1>5, <1>10 DEF Follows

----------------------------------------------------------------------------
(* What the handlers do to the reachability of an entry, which is all that *)
(* the router list depends on.                                             *)

\* nd6_output leaves an entry, and a resolved one resolved.
LEMMA NdOutputLives ==
    ASSUME NEW e, EntryOK(e), e.state # "none"
    PROVE  /\ NdOutput(e).state # "none" /\ NdOutput(e).router = e.router
           /\ ProbReach(e) => ProbReach(NdOutput(e))
<1> DEFINE h == IF e.hold < MaxQueueLen THEN e.hold + 1 ELSE MaxQueueLen
           q == [e EXCEPT !.state = "incomplete", !.hold = h]
           q1 == [q EXCEPT !.asked = 1]
           w == [e EXCEPT !.state = "delay", !.asked = 0]
<1>0. e \in Entry /\ h \in Nat
    BY NeighborCacheAssumption DEF EntryOK, Entry
<1>1. q \in Entry /\ q.state = "incomplete" /\ q.router = e.router
  <2> HIDE DEF h
  <2> QED BY <1>0 DEF Entry, State
<1>2. q1 \in Entry /\ q1.state = "incomplete" /\ q1.router = e.router
  <2> HIDE DEF q
  <2> QED BY <1>1 DEF Entry
<1>3. w \in Entry /\ w.state = "delay" /\ w.router = e.router
    BY <1>0 DEF Entry, State
<1>4. \/ e.state = "stale" /\ NdOutput(e) = SetTimer(w)
      \/ NdOutput(e) = e
      \/ ~ProbReach(e) /\ NdOutput(e) \in {q, SetTimer(q1)}
    BY DEF NdOutput
<1>5. \A x \in Entry : SetTimer(x).state = x.state /\ SetTimer(x).router = x.router
    BY DEF SetTimer, Entry
<1> HIDE DEF q, q1, w
<1> QED BY <1>1, <1>2, <1>3, <1>4, <1>5 DEF ProbReach

\* So do the packets it held.
LEMMA SendHeldLives ==
    ASSUME NEW e \in Entry, TimerOK(e), ProbReach(e), e.hold <= MaxQueueLen
    PROVE  ProbReach(SendHeld(e)) /\ SendHeld(e).router = e.router
<1> DEFINE s == [e EXCEPT !.hold = 0]
<1>1. EntryOK(s) /\ s.state # "none" /\ ProbReach(s) /\ s.router = e.router
    BY NeighborCacheAssumption DEF EntryOK, TimerOK, HoldOK, ProbReach, Entry
<1>2. SendHeld(e) \in {e, NdOutput(s)}
    BY DEF SendHeld
<1> HIDE DEF s
<1> QED BY <1>1, <1>2, NdOutputLives

\* A look-up does not tell a neighbor's reachability.
LEMMA LookupLives ==
    ASSUME NEW e, EntryOK(e), NEW cloned \in BOOLEAN
    PROVE  LET c == LookupCreate(e, cloned)
           IN  EntryOK(c) /\ c.state # "none" /\ (c # e => e.state = "none" /\ c.state = "nostate")
<1> DEFINE c == LookupCreate(e, cloned)
<1>1. CASE e.state = "none"
  <2> DEFINE n == [Absent EXCEPT !.state = "nostate"]
  <2>1. n \in Entry /\ n.state = "nostate"
      BY AbsentOK DEF EntryOK, Entry, State
  <2>2. c \in {n, SetTimer(n)}
      BY <1>1, Zenon DEF LookupCreate, NewEntry
  <2> HIDE DEF n
  <2> QED BY <1>1, <2>1, <2>2, SetTimerKnown, LookupCreateOK
<1>2. CASE e.state # "none"
    BY <1>2 DEF LookupCreate
<1> QED BY <1>1, <1>2

(* What nd6_cache_lladdr does to an entry, as far as routers care: a       *)
(* reachable neighbor stays reachable, one becomes reachable only when its *)
(* link-layer address is news, and a router that gives one is marked.      *)
LEMMA CacheLladdrLives ==
    ASSUME NEW e, EntryOK(e), NEW ll \in OptLLAddr, NEW cloned \in BOOLEAN,
           NEW isrouter \in BOOLEAN
    PROVE  LET c == CacheLladdr(e, ll, cloned, isrouter)
           IN  /\ e.state # "none" => c.state # "none"
               /\ ProbReach(e) => ProbReach(c)
               /\ e.static \/ ~CacheUpdates(e, ll) \/ ll = NoLLAddr =>
                     (ProbReach(c) => ProbReach(e))
               /\ ~e.static /\ isrouter => c.router
<1> DEFINE l == LookupCreate(e, cloned)
           x == IF ll = NoLLAddr THEN l.lladdr ELSE ll
           t == l.router \/ isrouter
           a == [l EXCEPT !.lladdr = x, !.router = t]
           b == [a EXCEPT !.state = "stale"]
           c == CacheLladdr(e, ll, cloned, isrouter)
<1>1. EntryOK(l) /\ l.state # "none" /\ (l # e => e.state = "none" /\ l.state = "nostate")
    BY LookupLives
<1>2. x \in OptLLAddr /\ t \in BOOLEAN
    BY <1>1 DEF EntryOK, Entry
<1>3. (isrouter => t) /\ l.armed \in BOOLEAN /\ l.hold <= MaxQueueLen
    BY <1>1 DEF EntryOK, HoldOK, Entry
<1>4. c = IF e.static THEN e
          ELSE IF CacheUpdates(e, ll) /\ ll # NoLLAddr THEN SendHeld(SetTimer(b)) ELSE a
    BY DEF CacheLladdr
<1> HIDE DEF c, l, x, t
<1>5. a \in Entry /\ a.state = l.state /\ a.router = t /\ a.hold = l.hold
    BY <1>1, <1>2 DEF EntryOK, Entry
<1> HIDE DEF a
<1>6. b \in Entry /\ b.state = "stale" /\ b.router = t /\ b.hold = l.hold
    BY <1>5 DEF Entry, State
<1> HIDE DEF b
<1>7. /\ SetTimer(b) \in Entry /\ SetTimer(b).state = "stale" /\ SetTimer(b).router = t
      /\ SetTimer(b).hold = l.hold /\ SetTimer(b).armed
    BY <1>6 DEF SetTimer, Entry
<1>8. ProbReach(SendHeld(SetTimer(b))) /\ SendHeld(SetTimer(b)).router = t
    BY <1>3, <1>7, SendHeldLives DEF TimerOK, ProbReach
<1>9. CASE e.static
    BY <1>4, <1>9 DEF c
<1>10. CASE ~e.static /\ CacheUpdates(e, ll) /\ ll # NoLLAddr
    BY <1>3, <1>4, <1>8, <1>10 DEF ProbReach, c
<1>11. CASE ~e.static /\ ~(CacheUpdates(e, ll) /\ ll # NoLLAddr)
    BY <1>1, <1>3, <1>4, <1>5, <1>11 DEF ProbReach, c
<1> QED BY <1>9, <1>10, <1>11

\* An advertisement does not take an entry away.
LEMMA NaLives ==
    ASSUME NEW e, EntryOK(e), NEW ll \in OptLLAddr,
           NEW solicited \in BOOLEAN, NEW override \in BOOLEAN, NEW isrouter \in BOOLEAN
    PROVE  /\ e.state = "incomplete" =>
                 NaResolve(e, ll, solicited, isrouter).state # "none"
           /\ e.state # "none" =>
                 NaUpdate(e, ll, solicited, override, isrouter).state # "none"
<1> DEFINE x == IF ll = NoLLAddr THEN e.lladdr ELSE ll
           b == [e EXCEPT !.lladdr = ll, !.router = isrouter, !.asked = 0]
           a == [e EXCEPT !.lladdr = x, !.router = isrouter, !.asked = 0]
<1>1. e \in Entry /\ e.hold <= MaxQueueLen /\ x \in OptLLAddr
    BY DEF EntryOK, HoldOK, Entry
<1>2. b \in Entry /\ b.hold <= MaxQueueLen
    BY <1>1 DEF Entry
<1> HIDE DEF b
<1>3. a \in Entry /\ a.hold <= MaxQueueLen /\ a.state = e.state /\ a.hold = e.hold
  <2> HIDE DEF x
  <2> QED BY <1>1 DEF Entry
<1> HIDE DEF x
<1>4. ASSUME NEW y \in Entry PROVE ProbReach(Stale(y)) /\ ProbReach(Confirmed(y))
  <2> DEFINE r == [y EXCEPT !.state = "reachable", !.byhint = 0]
             t == [y EXCEPT !.state = "stale"]
  <2>1. r \in Entry /\ r.state = "reachable" /\ t \in Entry /\ t.state = "stale"
    <3>1. 0 \in 0..MaxNudHint /\ "reachable" \in State /\ "stale" \in State
        BY NeighborCacheAssumption DEF State
    <3> QED BY <3>1 DEF Entry
  <2>2. Stale(y) = SetTimer(t) /\ Confirmed(y) = SetTimerIfAging(r)
      BY DEF Stale, Confirmed
  <2> HIDE DEF r, t
  <2> QED BY <2>1, <2>2, SetTimerKnown, SetTimerIfAgingKnown DEF ProbReach
<1>5. ASSUME NEW y \in Entry, y.hold <= MaxQueueLen
      PROVE  SendHeld(Stale(y)).state # "none" /\ SendHeld(Confirmed(y)).state # "none"
  <2>1. ProbReach(SendHeld(Stale(y)))
      BY <1>4, <1>5, StaleOK, SendHeldLives
  <2>2. ProbReach(SendHeld(Confirmed(y)))
      BY <1>4, <1>5, ConfirmedOK, SendHeldLives
  <2> QED BY <2>1, <2>2 DEF ProbReach
<1>6. NaResolve(e, ll, solicited, isrouter) \in {SendHeld(Confirmed(b)), SendHeld(Stale(b))}
    BY Zenon DEF NaResolve, b
<1>7. \/ NaUpdate(e, ll, solicited, override, isrouter) = e
      \/ ProbReach(e) /\ NaUpdate(e, ll, solicited, override, isrouter) = Stale(e)
      \/ NaUpdate(e, ll, solicited, override, isrouter)
            \in {SendHeld(Confirmed(a)), SendHeld(Stale(a)), SendHeld(a)}
    BY DEF NaUpdate, ProbReach, a, x
<1>8. ProbReach(Stale(e))
    BY <1>1, <1>4
<1>9. SendHeld(a).state # "none" \/ e.state = "none"
  <2> DEFINE z == [a EXCEPT !.hold = 0]
  <2>1. CASE a.hold = 0
      BY <1>3, <2>1 DEF SendHeld
  <2>2. CASE a.hold # 0
    <3>1. e.state = "incomplete" /\ a.state = "incomplete"
        BY <1>1, <1>3, <2>2 DEF EntryOK, HoldOK, Entry
    <3>2. z \in Entry /\ z.state = "incomplete" /\ z.hold = 0
        BY <1>3, <3>1 DEF Entry
    <3>3. SendHeld(a) = NdOutput(z)
        BY <2>2 DEF SendHeld
    <3> HIDE DEF z, a
    <3> DEFINE h == IF z.hold < MaxQueueLen THEN z.hold + 1 ELSE MaxQueueLen
               q == [z EXCEPT !.state = "incomplete", !.hold = h]
               q1 == [q EXCEPT !.asked = 1]
    <3>4. h \in Nat
        BY <3>2, NeighborCacheAssumption
    <3>5. NdOutput(z) \in {q, SetTimer(q1)}
        BY <3>2 DEF NdOutput, ProbReach
    <3> HIDE DEF h
    <3>6. q \in Entry /\ q.state = "incomplete"
        BY <3>2, <3>4 DEF Entry, State
    <3> HIDE DEF q
    <3>7. q1 \in Entry /\ q1.state = "incomplete"
        BY <3>6 DEF Entry
    <3> HIDE DEF q1
    <3> QED BY <3>3, <3>5, <3>6, <3>7, SetTimerKnown
  <2> QED BY <2>1, <2>2
<1> HIDE DEF a
<1> QED BY <1>2, <1>3, <1>5, <1>6, <1>7, <1>8, <1>9 DEF ProbReach

----------------------------------------------------------------------------
(* The steps, as the router list sees them.  Best(drl, Reach(nc)) is not   *)
(* an invariant: a router may become reachable without a selection (a      *)
(* static entry, a confirmed one), so each step is compared with the list  *)
(* before it.                                                              *)
RInv == Sane(drl) /\ InUse(drl)

\* From l, with the neighbors of old reachable, to m with those of new.
Switched(m, l, old, new) ==
    /\ Best(m, new) \/ m.inst \subseteq l.inst
    /\ \A r \in l.inst \intersect old \intersect new \intersect Routers(m) :
          r \in m.inst \/ \A q \in m.inst : m.pref[q] > m.pref[r]

Kept == \A m \in Neighbor : nc[m].state # "none" => nc'[m].state # "none"

LEMMA FollowsSwitched ==
    ASSUME NEW m, NEW l, NEW old, NEW new, Follows(m, l, new)
    PROVE  Switched(m, l, old, new)
    BY DEF Follows, Switched

LEMMA SameSwitched ==
    ASSUME NEW l, NEW old, NEW new
    PROVE  Switched(l, l, old, new)
    BY DEF Switched

\* Two selections, the second with more neighbors reachable.
LEMMA TwiceSwitched ==
    ASSUME NEW d, Sane(d), InUse(d), NEW l, NEW old, NEW new, old \subseteq new,
           Follows(d, l, old)
    PROVE  Switched(DefrouterSelect(d, new), l, old, new)
<1> DEFINE m == DefrouterSelect(d, new)
<1>1. Selected(m, d, new)
    BY SelectOK
<1> HIDE DEF m
<1>2. m.list = d.list /\ m.pref = d.pref /\ Best(m, new) /\ Routers(m) = Routers(d)
    BY <1>1 DEF Selected, Routers
<1>3. d.inst \in SUBSET Neighbor /\ m.inst \in SUBSET Neighbor /\ \A x \in Neighbor : m.pref[x] \in Int
    BY <1>1, RankedFields DEF Selected, Sane
<1>4. ASSUME NEW r \in l.inst, r \in old, r \in new, r \in Routers(m), r \notin m.inst,
             NEW q \in m.inst
      PROVE  m.pref[q] > m.pref[r]
  <2>1. CASE r \in d.inst
      BY <1>1, <1>4, <2>1 DEF Selected
  <2>2. CASE r \notin d.inst
    <3>1. r \in Neighbor
        BY <1>2, <1>4, RankedFields DEF Sane
    <3>2. \A x \in d.inst : x \in old /\ d.pref[x] > d.pref[r]
        BY <1>2, <1>4, <2>2 DEF Follows
    <3>3. d.list # <<>>
        BY <1>2, <1>4 DEF Routers
    <3>4. PICK x : x \in d.inst
        BY <3>3 DEF InUse
    <3>5. CASE x \in m.inst
      <4>1. q = x
          BY <1>1, <1>4, <3>5 DEF Selected, Sane, OneRoute
      <4> QED BY <1>2, <3>2, <3>4, <4>1
    <3>6. CASE x \notin m.inst
      <4>1. m.pref[q] > m.pref[x]
          BY <1>1, <1>4, <3>2, <3>4, <3>6 DEF Selected
      <4>2. m.pref[x] > m.pref[r]
          BY <1>2, <3>2, <3>4
      <4>3. m.pref[q] \in Int /\ m.pref[x] \in Int /\ m.pref[r] \in Int
          BY <1>3, <1>4, <3>1, <3>4
      <4> QED BY <4>1, <4>2, <4>3
    <3> QED BY <3>5, <3>6
  <2> QED BY <2>1, <2>2
<1> QED BY <1>2, <1>4 DEF Switched, m

LEMMA RInvInit == Init => RInv
<1> SUFFICES ASSUME Init PROVE RInv
    OBVIOUS
<1> DEFINE f == [n \in Neighbor |-> 0]
<1>1. f \in [Neighbor -> Prefs]
    BY NeighborCacheAssumption
<1>2. drl = [list |-> <<>>, pref |-> f, inst |-> {}]
    BY DEF Init
<1> HIDE DEF f
<1> QED BY <1>1, <1>2 DEF RInv, Sane, Ranked, OneRoute, InUse, IsInjective

\* An entry freed: only this, and a router selected among the others.
LEMMA NdFreeSwitched ==
    ASSUME IInv, RInv, NEW n \in Neighbor, NEW gc \in BOOLEAN, NdFree(n, gc)
    PROVE  RInv' /\ Switched(drl', drl, Reach(nc), Reach(nc'))
<1>0. nc \in [Neighbor -> Entry]
    BY DEF IInv
<1>1. CASE drl' = drl
    BY <1>1, SameSwitched DEF RInv, Sane, InUse, Ranked, OneRoute, Routers
<1>2. CASE drl' # drl
  <2>1. nc' = [nc EXCEPT ![n] = Absent] /\ drl' = DefrouterSelect(drl, Reach(nc) \ {n})
      BY <1>2, Zenon DEF NdFree
  <2>2. Reach(nc') = Reach(nc) \ {n}
    <3>1. ~ProbReach(Absent)
        BY DEF ProbReach, Absent
    <3> QED BY <1>0, <2>1, <3>1 DEF Reach
  <2>3. Selected(drl', drl, Reach(nc')) /\ Follows(drl', drl, Reach(nc'))
      BY <2>1, <2>2, SelectOK, SelectFollows DEF RInv
  <2>4. RInv'
      BY <2>3 DEF Selected, RInv
  <2> QED BY <2>3, <2>4, FollowsSwitched
<1> QED BY <1>1, <1>2

\* A change of one entry that leaves it there.
LEMMA OneEntryKept ==
    ASSUME IInv, NEW n \in Neighbor, NEW v, nc' = [nc EXCEPT ![n] = v],
           nc[n].state # "none" => v.state # "none"
    PROVE  Kept
    BY DEF IInv, Kept

\* One that can only make the neighbor reachable.
LEMMA OneEntryReach ==
    ASSUME IInv, NEW n \in Neighbor, NEW v, nc' = [nc EXCEPT ![n] = v],
           ProbReach(nc[n]) => ProbReach(v)
    PROVE  /\ Reach(nc) \subseteq Reach(nc')
           /\ (ProbReach(v) => ProbReach(nc[n])) => Reach(nc') = Reach(nc)
    BY DEF IInv, Reach

\* A selection among those reachable afterwards.
LEMMA SelectSwitched ==
    ASSUME RInv, drl' = DefrouterSelect(drl, Reach(nc'))
    PROVE  RInv' /\ Switched(drl', drl, Reach(nc), Reach(nc'))
<1>1. Selected(drl', drl, Reach(nc')) /\ Follows(drl', drl, Reach(nc'))
    BY SelectOK, SelectFollows DEF RInv
<1>2. RInv'
    BY <1>1 DEF Selected, RInv
<1> QED BY <1>1, <1>2, FollowsSwitched

LEMMA SameRouters ==
    ASSUME RInv, drl' = drl
    PROVE  RInv' /\ Switched(drl', drl, Reach(nc), Reach(nc'))
    BY SameSwitched DEF RInv, Sane, InUse, Ranked, OneRoute, Routers

\* A router advertisement: the list, the neighbor cache, and the list again
\* when the advertisement brought news of the sender.
LEMMA HeardRaSwitched ==
    ASSUME IInv, RInv, NEW n \in Neighbor, NEW alive \in BOOLEAN, NEW p \in Prefs,
           NEW ll \in OptLLAddr, NEW cloned \in BOOLEAN, NEW nomem \in BOOLEAN,
           HeardRa(n, alive, p, ll, cloned, nomem)
    PROVE  Kept /\ RInv' /\ Switched(drl', drl, Reach(nc), Reach(nc'))
<1> DEFINE old == Reach(nc)
           new == Reach(nc')
           d == DefrtrlistUpdate(drl, n, alive, p, nomem, old)
           r == NoLLAddr # ll \/ NoLLAddr # nc[n].lladdr
           c == CacheLladdr(nc[n], ll, cloned, r)
<1>1. EntryOK(nc[n]) /\ nc \in [Neighbor -> Entry] /\ r \in BOOLEAN
    BY DEF IInv
<1>2. nc' = [nc EXCEPT ![n] = c]
    BY DEF HeardRa
<1>3. drl' = IF ~nc[n].static /\ CacheUpdates(nc[n], ll) /\ nc'[n].router
             THEN DefrouterSelect(d, new) ELSE d
    BY DEF HeardRa
<1> HIDE DEF r
<1>4. /\ nc[n].state # "none" => c.state # "none"
      /\ ProbReach(nc[n]) => ProbReach(c)
      /\ nc[n].static \/ ~CacheUpdates(nc[n], ll) \/ ll = NoLLAddr =>
            (ProbReach(c) => ProbReach(nc[n]))
      /\ ~nc[n].static /\ r => c.router
    BY <1>1, CacheLladdrLives
<1>5. Sane(d) /\ InUse(d) /\ Follows(d, drl, old)
    BY UpdateOK DEF RInv
<1> HIDE DEF d, c
<1>6. Kept /\ old \subseteq new /\ nc'[n] = c
    BY <1>1, <1>2, <1>4, OneEntryKept, OneEntryReach
<1>7. CASE drl' = DefrouterSelect(d, new)
  <2>1. Switched(drl', drl, old, new)
      BY <1>5, <1>6, <1>7, TwiceSwitched
  <2>2. Selected(drl', d, new)
      BY <1>5, <1>7, SelectOK
  <2>3. RInv'
      BY <2>2 DEF Selected, RInv
  <2> QED BY <1>6, <2>1, <2>3
<1>8. CASE /\ drl' = d
           /\ nc[n].static \/ ~CacheUpdates(nc[n], ll) \/ ~nc'[n].router
  <2>1. nc[n].static \/ ~CacheUpdates(nc[n], ll) \/ ll = NoLLAddr
      BY <1>4, <1>6, <1>8 DEF r
  <2>2. new = old
      BY <1>2, <1>4, <2>1, OneEntryReach
  <2>3. Switched(drl', drl, old, new)
      BY <1>5, <1>8, <2>2, FollowsSwitched
  <2>4. RInv'
      BY <1>5, <1>8 DEF RInv
  <2> QED BY <1>6, <2>3, <2>4
<1> QED BY <1>3, <1>7, <1>8

LEMMA HearsSwitched ==
    ASSUME IInv, RInv, NEW n \in Neighbor, Hears(n)
    PROVE  Kept /\ RInv' /\ Switched(drl', drl, Reach(nc), Reach(nc'))
<1>0. EntryOK(nc[n]) /\ nc \in [Neighbor -> Entry] /\ FALSE \in BOOLEAN
    BY DEF IInv
<1>1. PICK ll \in OptLLAddr, b1 \in BOOLEAN, b2 \in BOOLEAN, b3 \in BOOLEAN :
        \/ HeardNs(n, ll, b1)
        \/ HeardRedirect(n, ll, b1, b2)
        \/ \E p \in Prefs : HeardRa(n, b1, p, ll, b2, b3)
        \/ HeardNaIncomplete(n, ll, b1, b2)
        \/ HeardNa(n, ll, b1, b2, b3)
    BY DEF Hears
<1>2. ASSUME NEW b \in BOOLEAN, nc' = [nc EXCEPT ![n] = CacheLladdr(nc[n], ll, b1, b)]
      PROVE  Kept
  <2> DEFINE c == CacheLladdr(nc[n], ll, b1, b)
  <2>1. nc[n].state # "none" => c.state # "none"
      BY <1>0, CacheLladdrLives
  <2> QED BY <1>2, <2>1, OneEntryKept
<1>3. CASE HeardNs(n, ll, b1)
  <2>1. nc' = [nc EXCEPT ![n] = CacheLladdr(nc[n], ll, b1, FALSE)]
      BY <1>3 DEF HeardNs
  <2>2. drl' = DefrouterSelect(drl, Reach(nc')) \/ drl' = drl
      BY <1>3 DEF HeardNs
  <2> QED BY <1>0, <1>2, <2>1, <2>2, SelectSwitched, SameRouters
<1>4. CASE HeardRedirect(n, ll, b1, b2)
  <2>1. nc' = [nc EXCEPT ![n] = CacheLladdr(nc[n], ll, b1, b2)]
      BY <1>4 DEF HeardRedirect
  <2>2. drl' = DefrouterSelect(drl, Reach(nc')) \/ drl' = drl
      BY <1>4 DEF HeardRedirect
  <2> QED BY <1>2, <2>1, <2>2, SelectSwitched, SameRouters
<1>5. CASE \E p \in Prefs : HeardRa(n, b1, p, ll, b2, b3)
    BY <1>5, HeardRaSwitched
<1>6. CASE HeardNaIncomplete(n, ll, b1, b2)
  <2>1. NaResolve(nc[n], ll, b1, b2).state # "none"
      BY <1>0, <1>6, NaLives DEF HeardNaIncomplete
  <2>2. Kept
      BY <1>6, <2>1, OneEntryKept DEF HeardNaIncomplete
  <2> QED BY <1>6, <2>2, SameRouters DEF HeardNaIncomplete
<1>7. CASE HeardNa(n, ll, b1, b2, b3)
  <2>1. NaUpdate(nc[n], ll, b1, b2, b3).state # "none"
      BY <1>0, <1>7, NaLives DEF HeardNa
  <2>2. Kept
      BY <1>7, <2>1, OneEntryKept DEF HeardNa
  <2>3. drl' = DefrtrlistDel(drl, n, Reach(nc')) \/ drl' = drl
      BY <1>7 DEF HeardNa
  <2>4. CASE drl' = DefrtrlistDel(drl, n, Reach(nc'))
    <3>1. Deleted(drl', drl, n, Reach(nc')) /\ Follows(drl', drl, Reach(nc'))
        BY <2>4, DelOK, DelFollows DEF RInv
    <3>2. RInv'
        BY <3>1 DEF Deleted, RInv
    <3> QED BY <2>2, <3>1, <3>2, FollowsSwitched
  <2> QED BY <2>2, <2>3, <2>4, SameRouters
<1> QED BY <1>1, <1>3, <1>4, <1>5, <1>6, <1>7

\* A callout that frees nothing.
LEMMA TimerKept ==
    ASSUME IInv, NEW n \in Neighbor,
           \/ TimerNoState(n) \/ TimerSolicit(n) \/ TimerReachable(n) \/ TimerDelay(n)
           \/ TimerProbe(n)
    PROVE  Kept /\ drl' = drl
<1> DEFINE e == nc[n]
           u == [e EXCEPT !.armed = FALSE]
           a == [e EXCEPT !.asked = e.asked + 1]
           t == [e EXCEPT !.state = "stale"]
           p == [e EXCEPT !.state = "probe", !.asked = 1]
<1>1. e \in Entry
    BY DEF IInv
<1>2. u.state = e.state
    BY <1>1 DEF Entry
<1>3. a \in Entry /\ a.state = e.state
    BY <1>1 DEF Entry
<1>4. t \in Entry /\ t.state = "stale" /\ p \in Entry /\ p.state = "probe"
    BY <1>1 DEF Entry, State
<1>5. PICK v \in {u, SetTimer(a), SetTimer(t), SetTimer(p)} : nc' = [nc EXCEPT ![n] = v]
    BY DEF TimerNoState, TimerSolicit, TimerReachable, TimerDelay, TimerProbe, Stale, IInv
<1> HIDE DEF u, a, t, p, e
<1>6. e.state # "none" => v.state # "none"
    BY <1>2, <1>3, <1>4, <1>5, SetTimerKnown
<1>7. Kept
    BY <1>5, <1>6, OneEntryKept DEF e
<1> QED BY <1>7 DEF TimerNoState, TimerSolicit, TimerReachable, TimerDelay, TimerProbe

\* A step that changes nothing but through nd6_free.
Frees == \E n \in Neighbor, gc \in BOOLEAN :
            NdFree(n, gc) /\ (gc \/ nc[n].state # "stale")

LEMMA LlinfoTimerFrees ==
    ASSUME IInv, NEW n \in Neighbor, LlinfoTimer(n)
    PROVE  Frees \/ (Kept /\ drl' = drl)
<1>1. CASE \/ TimerNoState(n) \/ TimerSolicit(n) \/ TimerReachable(n) \/ TimerDelay(n)
           \/ TimerProbe(n)
    BY <1>1, TimerKept
<1>2. CASE TimerUnresolved(n) \/ TimerUnreachable(n)
  <2>1. NdFree(n, FALSE) /\ nc[n].state # "stale" /\ FALSE \in BOOLEAN
      BY <1>2 DEF TimerUnresolved, TimerUnreachable
  <2> QED BY <2>1 DEF Frees
<1>3. CASE TimerStale(n)
  <2>1. NdFree(n, TRUE) /\ TRUE \in BOOLEAN
      BY <1>3 DEF TimerStale
  <2> QED BY <2>1 DEF Frees
<1> QED BY <1>1, <1>2, <1>3 DEF LlinfoTimer

\* Userland's changes are selections too, from a list without routes.
LEMMA EditsRouters ==
    ASSUME IInv, RInv, Edits
    PROVE  Admin /\ RInv' /\ (Best(drl', Reach(nc')) \/ drl'.inst \subseteq drl.inst)
<1> DEFINE z == DefrouterReset(drl)
           New == RInv' /\ (Best(drl', Reach(nc')) \/ drl'.inst \subseteq drl.inst)
<1>1. Admin
    BY DEF Edits, SyncRouters, FlushRouters, AddStatic, DeleteEntry, Purge
<1>2. Sane(z) /\ Routers(drl) \in SUBSET Neighbor
  <2>1. Ranked(drl)
      BY DEF RInv, Sane
  <2>2. /\ z \in [list : Seq(Neighbor), pref : [Neighbor -> Prefs], inst : SUBSET Neighbor]
        /\ z.list = drl.list /\ z.pref = drl.pref /\ z.inst = {}
      BY <2>1 DEF DefrouterReset, Ranked
  <2> HIDE DEF z
  <2> QED BY <2>1, <2>2, RankedFields DEF Sane, Ranked, OneRoute
<1>3. ASSUME NEW d, Sane(d), nc' = nc, drl' = DefrouterSelect(d, Reach(nc)) PROVE New
  <2>1. Selected(drl', d, Reach(nc'))
      BY <1>3, SelectOK
  <2> QED BY <2>1 DEF Selected, RInv
<1> HIDE DEF z
<1>4. CASE SyncRouters
  <2>1. nc' = nc /\ drl' = DefrouterSelect(z, Reach(nc))
      BY <1>4 DEF SyncRouters, z
  <2> QED BY <1>1, <1>2, <1>3, <2>1
<1>5. CASE FlushRouters
  <2> DEFINE d == DefrtrlistDelAll(z, Routers(drl), Reach(nc))
  <2>1. Sane(d)
      BY <1>2, DelAllOK
  <2>2. nc' = nc /\ drl' = DefrouterSelect(d, Reach(nc))
      BY <1>5 DEF FlushRouters, z
  <2> HIDE DEF d
  <2> QED BY <1>1, <1>3, <2>1, <2>2
<1>6. ASSUME drl' = drl PROVE New
    BY <1>6, SameRouters
<1>7. CASE Purge
  <2> DEFINE f == [n \in Neighbor |-> 0]
  <2>1. f \in [Neighbor -> Prefs]
      BY NeighborCacheAssumption
  <2>2. drl' = [list |-> <<>>, pref |-> f, inst |-> {}]
      BY <1>7 DEF Purge
  <2> HIDE DEF f
  <2> QED BY <1>1, <2>1, <2>2 DEF RInv, Sane, Ranked, OneRoute, InUse, IsInjective
<1> HIDE DEF New
<1>8. New
  <2>1. CASE Purge
      BY <1>7, <2>1 DEF New
  <2> QED BY <1>4, <1>5, <1>6, <2>1 DEF Edits, AddStatic, DeleteEntry, New
<1> QED BY <1>1, <1>8 DEF New

LEMMA RouterStep ==
    ASSUME IInv, RInv, [Next]_vars
    PROVE  /\ RInv'
           /\ Best(drl', Reach(nc')) \/ drl'.inst \subseteq drl.inst
           /\ \/ Admin
              \/ Switched(drl', drl, Reach(nc), Reach(nc')) /\ (Kept \/ Frees)
<1> DEFINE Turned == RInv' /\ Switched(drl', drl, Reach(nc), Reach(nc')) /\ (Kept \/ Frees)
<1>0. nc \in [Neighbor -> Entry]
    BY DEF IInv
<1>1. ASSUME Kept, drl' = drl PROVE Turned
    BY <1>1, SameRouters
<1>2. ASSUME Frees PROVE Turned
    BY <1>2, NdFreeSwitched DEF Frees
<1>3. ASSUME nc' = nc, drl' = drl PROVE Turned
    BY <1>1, <1>3 DEF Kept
<1>4. ASSUME NEW n \in Neighbor, NEW cloned \in BOOLEAN, Output(n, cloned) PROVE Turned
  <2> DEFINE c == LookupCreate(nc[n], cloned)
  <2>1. EntryOK(c) /\ c.state # "none"
      BY LookupLives DEF IInv
  <2>2. nc' = [nc EXCEPT ![n] = NdOutput(c)] /\ drl' = drl
      BY <1>4 DEF Output
  <2> HIDE DEF c
  <2>3. NdOutput(c).state # "none"
      BY <2>1, NdOutputLives
  <2> QED BY <1>1, <2>2, <2>3, OneEntryKept
<1>5. ASSUME NEW n \in Neighbor, Hears(n) PROVE Turned
    BY <1>5, HearsSwitched
<1>6. ASSUME NEW n \in Neighbor, NudHint(n) PROVE Turned
  <2> DEFINE r == [nc[n] EXCEPT !.state = "reachable", !.byhint = nc[n].byhint + 1]
  <2>1. r \in Entry /\ r.state = "reachable"
    <3>1. nc[n] \in Entry /\ "reachable" \in State
        BY <1>0 DEF State
    <3>2. nc[n].byhint + 1 \in 0..MaxNudHint
        BY <1>6, <3>1, NeighborCacheAssumption DEF NudHint, Entry
    <3> QED BY <3>1, <3>2 DEF Entry
  <2>2. nc' = [nc EXCEPT ![n] = SetTimerIfAging(r)] /\ drl' = drl
      BY <1>6 DEF NudHint
  <2> HIDE DEF r
  <2>3. SetTimerIfAging(r).state # "none"
      BY <2>1, SetTimerIfAgingKnown
  <2> QED BY <1>1, <2>2, <2>3, OneEntryKept
<1>7. ASSUME NEW n \in Neighbor, LlinfoTimer(n) PROVE Turned
    BY <1>1, <1>2, <1>7, LlinfoTimerFrees
<1>8. ASSUME NEW n \in Neighbor, RtDrain(n) PROVE Turned
  <2>1. NdFree(n, TRUE) /\ TRUE \in BOOLEAN
      BY <1>8 DEF RtDrain
  <2> QED BY <1>2, <2>1 DEF Frees
<1>9. ASSUME Drain PROVE Turned
  <2>1. \A m \in Neighbor : nc'[m].state = nc[m].state
      BY <1>0, <1>9 DEF Drain, Entry
  <2> QED BY <1>1, <1>9, <2>1 DEF Kept, Drain
<1>10. ASSUME NEW S \in SUBSET Neighbor, RoutersExpire(S) PROVE Turned
  <2>1. drl' = DefrtrlistDelAll(drl, S, Reach(nc)) /\ nc' = nc
      BY <1>10 DEF RoutersExpire
  <2>2. Sane(drl') /\ InUse(drl') /\ Follows(drl', drl, Reach(nc'))
      BY <2>1, DelAllOK DEF RInv
  <2>3. RInv' /\ Kept
      BY <2>1, <2>2 DEF RInv, Kept
  <2> QED BY <2>2, <2>3, FollowsSwitched
<1>11. Turned \/ Edits
  <2> HIDE DEF Turned
  <2> QED BY <1>3, <1>4, <1>5, <1>6, <1>7, <1>8, <1>9, <1>10
          DEF Next, FallSilent, vars
<1>12. CASE Turned
    BY <1>12 DEF Switched
<1>13. CASE Edits
    BY <1>13, EditsRouters
<1> QED BY <1>11, <1>12, <1>13

LEMMA Routing == Spec => [](IInv /\ RInv)
<1>1. Init => IInv /\ RInv
    BY IInvInit, RInvInit
<1>2. IInv /\ RInv /\ [Next]_vars => (IInv /\ RInv)'
    BY IInvStep, RouterStep
<1> QED BY <1>1, <1>2, PTL DEF Spec

(* The router list is what defrouter_select takes it for: no router twice, *)
(* in order of preference, and exactly one route, to a router of the list, *)
(* as long as there is a router.                                           *)
THEOREM CacheRouterListOK == Spec => []RouterListOK
<1>1. ASSUME RInv PROVE RouterListOK
  <2>1. /\ drl.list \in Seq(Neighbor) /\ DOMAIN drl.list = 1..Len(drl.list)
        /\ Len(drl.list) \in Nat /\ IsInjective(drl.list)
        /\ \A j \in DOMAIN drl.list : \A i \in 1..(j - 1) :
              drl.pref[drl.list[i]] >= drl.pref[drl.list[j]]
      BY <1>1, RankedFields DEF RInv, Sane, Ranked
  <2>2. ASSUME NEW i \in DOMAIN drl.list, NEW j \in DOMAIN drl.list, i < j
        PROVE  /\ drl.list[i] # drl.list[j]
               /\ drl.pref[drl.list[i]] >= drl.pref[drl.list[j]]
    <3>1. i \in 1..(j - 1) /\ i # j
        BY <2>1, <2>2
    <3> QED BY <2>1, <3>1 DEF IsInjective
  <2>3. drl.inst \subseteq Routers(drl)
      BY <1>1 DEF RInv, Sane, OneRoute
  <2>4. Cardinality(drl.inst) = IF drl.list = <<>> THEN 0 ELSE 1
    <3>1. CASE drl.list = <<>>
      <4>1. drl.inst = {}
          BY <2>3, <3>1 DEF Routers
      <4> QED BY <3>1, <4>1, FS_EmptySet
    <3>2. CASE drl.list # <<>>
      <4>1. PICK r : drl.inst = {r}
          BY <1>1, <3>2 DEF RInv, Sane, OneRoute, InUse
      <4> QED BY <3>2, <4>1, FS_Singleton
    <3> QED BY <3>1, <3>2
  <2> QED BY <2>2, <2>3, <2>4 DEF RouterListOK
<1>2. RInv => RouterListOK
    BY <1>1
<1> QED BY <1>2, Routing, PTL

SilentOK == silent \subseteq Neighbor

(* Entries, router list and the neighbors that fell silent are well-formed. *)
THEOREM CacheTypes == Spec => []TypeOK
<1>1. Init => SilentOK
    BY DEF Init, SilentOK
<1>2. SilentOK /\ [Next]_vars => SilentOK'
  <2> SUFFICES ASSUME silent \subseteq Neighbor, [Next]_vars PROVE silent' \subseteq Neighbor
      BY DEF SilentOK
  <2>1. CASE silent' = silent
      BY <2>1
  <2>2. ASSUME NEW n \in Neighbor, FallSilent(n) PROVE silent' \subseteq Neighbor
      BY <2>2 DEF FallSilent
  <2>3. ASSUME NEW n \in Neighbor, LlinfoTimer(n) PROVE silent' = silent
      BY <2>3 DEF LlinfoTimer, TimerNoState, TimerSolicit, TimerUnresolved, TimerReachable,
                  TimerStale, TimerDelay, TimerProbe, TimerUnreachable, NdFree
  <2>4. ASSUME NEW n \in Neighbor, Hears(n) PROVE silent' = silent
    <3>1. ASSUME NEW p, NEW ll, NEW b1, NEW b2, NEW b3, HeardRa(n, b1, p, ll, b2, b3)
          PROVE  silent' = silent
        BY <3>1, Zenon DEF HeardRa
    <3>2. ASSUME NEW ll, NEW b1, NEW b2, NEW b3,
                 \/ HeardNs(n, ll, b1) \/ HeardRedirect(n, ll, b1, b2)
                 \/ HeardNaIncomplete(n, ll, b1, b2) \/ HeardNa(n, ll, b1, b2, b3)
          PROVE  silent' = silent
        BY <3>2, Zenon DEF HeardNs, HeardRedirect, HeardNaIncomplete, HeardNa
    <3> QED BY <2>4, <3>1, <3>2, Zenon DEF Hears
  <2>5. ASSUME Edits PROVE silent' = silent
      BY <2>5 DEF Edits, SyncRouters, FlushRouters, AddStatic, DeleteEntry, Purge
  <2> QED BY <2>1, <2>2, <2>3, <2>4, <2>5
          DEF Next, Output, NudHint, RtDrain, NdFree, RoutersExpire, Drain, vars
<1>3. IInv /\ RInv /\ SilentOK => TypeOK
    BY DEF IInv, RInv, Sane, Ranked, TypeOK, SilentOK
<1> QED BY <1>1, <1>2, <1>3, Routing, PTL DEF Spec

(* The selection rule of defrouter_select, of every step: also of those    *)
(* that call it after they changed the list, the cache, or both.           *)
THEOREM CacheSelectsBest == Spec => SelectsBest
<1>1. IInv /\ RInv /\ [Next]_vars =>
        [\A r \in drl'.inst \ drl.inst :
            \A q \in Routers(drl') \intersect Reach(nc') :
                r \in Reach(nc') /\ drl'.pref[r] >= drl'.pref[q]]_vars
    BY RouterStep DEF Best
<1> QED BY <1>1, Routing, PTL DEF Spec, SelectsBest

(* A router in use that stays reachable and on the list is not exchanged   *)
(* for one that is not preferred more, unless userland resets the list.    *)
THEOREM CacheNoFlap == ASSUME ~Admin PROVE Spec => NoFlap
<1>1. IInv /\ RInv /\ [Next]_vars =>
        [\A r \in drl.inst :
            r \in Reach(nc) \intersect Reach(nc') \intersect Routers(drl') =>
                r \in drl'.inst \/ \A q \in drl'.inst : drl'.pref[q] > drl'.pref[r]]_vars
    BY RouterStep DEF Switched
<1> QED BY <1>1, Routing, PTL DEF Spec, NoFlap

(* The stale entry of a router on the list is not collected: of all steps  *)
(* only nd6_free takes entries, and it spares this one.                    *)
THEOREM CacheActiveRouterKept == ASSUME ~Admin PROVE Spec => ActiveRouterKept
<1>1. ASSUME IInv, RInv, [Next]_vars, NEW n \in Neighbor,
             nc[n].state = "stale", n \in Routers(drl)
      PROVE  nc'[n].state # "none"
  <2>1. CASE Kept
      BY <1>1, <2>1 DEF Kept
  <2>2. CASE Frees
    <3>1. PICK m \in Neighbor, gc \in BOOLEAN : NdFree(m, gc) /\ (gc \/ nc[m].state # "stale")
        BY <2>2 DEF Frees
    <3>2. CASE m = n
      <4>1. nc' = [nc EXCEPT ![n] = SetTimer(nc[n])] /\ nc[n] \in Entry
          BY <1>1, <3>1, <3>2 DEF NdFree, IInv
      <4>2. SetTimer(nc[n]).state = "stale"
          BY <1>1, <4>1, SetTimerKnown
      <4> QED BY <1>1, <4>1, <4>2 DEF IInv
    <3>3. CASE m # n
      <4>1. nc' \in {[nc EXCEPT ![m] = SetTimer(nc[m])], [nc EXCEPT ![m] = Absent]}
          BY <3>1, Zenon DEF NdFree
      <4> QED BY <1>1, <3>3, <4>1 DEF IInv
    <3> QED BY <3>2, <3>3
  <2> QED BY <1>1, <2>1, <2>2, RouterStep
<1>2. IInv /\ RInv /\ [Next]_vars =>
        [\A n \in Neighbor :
            nc[n].state = "stale" /\ n \in Routers(drl) =>
                nc'[n].state # "none" \/ n \notin Routers(drl')]_vars
    BY <1>1
<1> QED BY <1>2, Routing, PTL DEF Spec, ActiveRouterKept

(* Neighbor unreachability detection gives up the entry of the router in   *)
(* use only together with the route to it, if another router is known.     *)
THEOREM CacheDeadRouterReplaced == ASSUME ~Admin PROVE Spec => DeadRouterReplaced
<1>1. ASSUME IInv, RInv, [Next]_vars, NEW r \in drl.inst,
             nc[r].state # "none", nc'[r].state = "none", Len(drl'.list) > 1
      PROVE  r \notin drl'.inst
  <2>0. r \in Routers(drl) /\ r \in Neighbor
      BY <1>1, RankedFields DEF RInv, Sane, OneRoute
  <2>1. Frees
      BY <1>1, <2>0, RouterStep DEF Kept
  <2>2. PICK m \in Neighbor, gc \in BOOLEAN : NdFree(m, gc)
      BY <2>1 DEF Frees
  <2>3. m = r
    <3>1. nc' \in {[nc EXCEPT ![m] = SetTimer(nc[m])], [nc EXCEPT ![m] = Absent]}
        BY <2>2, Zenon DEF NdFree
    <3> QED BY <1>1, <2>0, <3>1 DEF IInv
  <2>4. nc' # [nc EXCEPT ![r] = SetTimer(nc[r])]
    <3>1. SetTimer(nc[r]).state # "none"
        BY <1>1, <2>0, SetTimerKnown DEF IInv
    <3> QED BY <1>1, <2>0, <3>1 DEF IInv
  <2>5. drl' = DefrouterSelect(drl, Reach(nc) \ {r})
      BY <2>0, <2>2, <2>3, <2>4, Zenon DEF NdFree
  <2>6. Selected(drl', drl, Reach(nc) \ {r})
      BY <1>1, <2>5, SelectOK DEF RInv
  <2> QED BY <1>1, <2>6 DEF Selected
<1>2. IInv /\ RInv /\ [Next]_vars =>
        [\A r \in drl.inst :
            nc[r].state # "none" /\ nc'[r].state = "none" /\ Len(drl'.list) > 1 =>
                r \notin drl'.inst]_vars
    BY <1>1
<1> QED BY <1>2, Routing, PTL DEF Spec, DeadRouterReplaced

=============================================================================
