---------------------------- MODULE SaLifeProofs ---------------------------
(* Proofs about SaLife, for any number of SAs, indices and requests and    *)
(* any lifetimes: the reference counts, that no request holds memory that  *)
(* was freed, the index that is live, and that an SA never goes back to an *)
(* earlier state.  The daemon is one that updates an SA only while it is   *)
(* larval (~LateUpdate); without that the second is not true of key.c.     *)
EXTENDS SaLife, FiniteSetTheorems, TLAPS

\* How many requests hold s.
Held(s) == Cardinality(Holders(s))

\* An SA with n requests that hold it.  A larval one has none: packets take
\* mature and dying SAs only.
Good(x, n) ==
    /\ x \in SecAsVar \union {Free}
    /\ x.refcnt = (IF Alive(x) THEN 1 ELSE 0) + n
    /\ x.state = "larval" => n = 0

SaGood == \A s \in Sa : Good(sa[s], Held(s))

OneLive == \A g, h \in LiveHead : g = h

AliveFound == \A s \in Sa : Alive(sa[s]) => head[sa[s].on] = "live"

IInv == TypeOK /\ SaGood /\ OneLive /\ AliveFound

----------------------------------------------------------------------------
(* One SA.                                                                 *)

\* y is what becomes of x: freed, or the same SA, not further from its end.
Later(x, y) ==
    y = Free \/ ( /\ y \in SecAsVar /\ x \in SecAsVar /\ y.on = x.on
                  /\ Rank(x.state) <= Rank(y.state)
                  /\ Alive(y) => Alive(x) )

LEMMA FreeFacts ==
    /\ Free.refcnt = 0 /\ Free.state = "free" /\ ~Alive(Free)
    /\ \A x \in SecAsVar : x # Free /\ x.refcnt \in Nat \ {0} /\ x.state \in State
    /\ \A x \in SecAsVar : x.on \in Head /\ x.age \in Nat /\ x.used \in BOOLEAN
  BY DEF Free, Alive, SecAsVar, State

LEMMA LaterSame == \A x \in SecAsVar \union {Free} : Later(x, x)
  BY FreeFacts DEF Later, Rank, State

LEMMA NewSaGood ==
    ASSUME NEW h \in Head, NEW state \in {"larval", "mature"}
    PROVE  Good(NewSa(state, h), 0) /\ NewSa(state, h) \in SecAsVar /\ NewSa(state, h).on = h
  BY DEF Good, NewSa, SecAsVar, State, Alive

(* key_freesav takes one reference, and the SA with the last one.          *)
LEMMA FreeSavGood ==
    ASSUME NEW x \in SecAsVar, NEW n \in Nat, n > 0, Good(x, n)
    PROVE  Good(FreeSav(x), n - 1) /\ Later(x, FreeSav(x))
<1>1. CASE x.refcnt <= 1
  <2>1. FreeSav(x) = Free
    BY <1>1 DEF FreeSav
  <2>2. n = 1 /\ ~Alive(x)
    BY <1>1, FreeFacts DEF Good
  <2> QED
    BY <2>1, <2>2, FreeFacts DEF Good, Later
<1>2. CASE ~(x.refcnt <= 1)
  <2> DEFINE y == FreeSav(x)
  <2>1. y \in SecAsVar /\ y.refcnt = x.refcnt - 1 /\ y.state = x.state /\ y.on = x.on
    BY <1>2, FreeFacts DEF FreeSav, SecAsVar
  <2>2. Alive(y) <=> Alive(x)
    BY <2>1 DEF Alive
  <2> HIDE DEF y
  <2>3. Good(y, n - 1)
    BY <2>1, <2>2, FreeFacts DEF Good
  <2>4. Later(x, y)
    BY <2>1, <2>2, FreeFacts DEF Later, Rank, State
  <2> QED
    BY <2>3, <2>4 DEF y
<1> QED
  BY <1>1, <1>2

(* The database gives up an SA alive: the requests' references remain.     *)
LEMMA KillGood ==
    ASSUME NEW x \in SecAsVar, NEW n \in Nat, Good(x, n), Alive(x)
    PROVE  Good(Kill(x), n) /\ Later(x, Kill(x)) /\ ~Alive(Kill(x))
<1> DEFINE d == [x EXCEPT !.state = "dead"]
<1>1. d \in SecAsVar /\ d.state = "dead" /\ d.refcnt = x.refcnt /\ d.on = x.on
  BY DEF SecAsVar, State
<1>2. ~Alive(d) /\ x.refcnt = 1 + n
  BY <1>1 DEF Alive, Good
<1> HIDE DEF d
<1>3. Good(d, n + 1) /\ Later(x, d)
  BY <1>1, <1>2, FreeFacts DEF Good, Later, Rank, State
<1>4. Good(FreeSav(d), n) /\ Later(d, FreeSav(d))
  <2> DEFINE m == n + 1
  <2>1. m \in Nat /\ m > 0 /\ m - 1 = n
    OBVIOUS
  <2>2. Good(d, m)
    BY <1>3
  <2> HIDE DEF m
  <2>3. Good(FreeSav(d), m - 1) /\ Later(d, FreeSav(d))
    BY <2>1, <2>2, <1>1, FreeSavGood
  <2> QED
    BY <2>1, <2>3
<1>5. Kill(x) = FreeSav(d)
  BY DEF Kill, d
<1>6. ~Alive(FreeSav(d))
  BY <1>2, <1>4, FreeFacts DEF Later
<1>7. Later(x, FreeSav(d))
  BY <1>3, <1>4, <1>1, FreeFacts DEF Later, Rank, State
<1> QED
  BY <1>4, <1>5, <1>6, <1>7

(* A larval SA whose negotiation has ended badly is gone at once.          *)
LEMMA LarvalGone ==
    ASSUME NEW x \in SecAsVar, NEW n \in Nat, Good(x, n), x.state = "larval"
    PROVE  FreeSav(x) = Free /\ n = 0
  BY FreeFacts DEF Good, FreeSav, Alive

LEMMA OlderGood ==
    ASSUME NEW x \in SecAsVar, NEW n \in Nat, Good(x, n)
    PROVE  /\ Older(x) \in SecAsVar /\ Good(Older(x), n)
           /\ Older(x).state = x.state /\ Older(x).on = x.on
<1> DEFINE y == Older(x)
<1>1. y \in SecAsVar /\ y.state = x.state /\ y.refcnt = x.refcnt /\ y.on = x.on
  BY FreeFacts DEF Older, SecAsVar
<1> HIDE DEF y
<1>2. Good(y, n)
  BY <1>1 DEF Good, Alive
<1> QED
  BY <1>1, <1>2 DEF y

(* What the timer makes of an SA keeps its count and its direction.        *)
LEMMA AgedGood ==
    ASSUME NEW x \in SecAsVar, NEW n \in Nat, Good(x, n)
    PROVE  Good(Aged(x), n) /\ Later(x, Aged(x))
<1> DEFINE soft == x.state = "mature" /\ Soft # 0 /\ x.age > Soft
           dying == x.state = "dying" \/ (soft /\ x.used)
           hard == Hard # 0 /\ x.age > Hard
<1>1. CASE x.state = "larval" /\ x.age > LarvalLife
  <2>1. Aged(x) = FreeSav(x)
    BY <1>1 DEF Aged
  <2> QED
    BY <2>1, <1>1, LarvalGone, FreeFacts DEF Good, Later
<1>2. CASE (soft /\ ~x.used) \/ (dying /\ hard)
  <2>1. x.state \in {"mature", "dying"}
    BY <1>2
  <2>2. Aged(x) = Kill(x)
    BY <1>2, <2>1 DEF Aged
  <2>3. Alive(x)
    BY <2>1 DEF Alive
  <2> QED
    BY <2>2, <2>3, KillGood
<1>3. CASE dying /\ ~hard
  <2> DEFINE y == [x EXCEPT !.state = "dying"]
  <2>1. x.state \in {"mature", "dying"}
    BY <1>3
  <2>2. Aged(x) = y
    BY <1>3, <2>1 DEF Aged
  <2>3. y \in SecAsVar /\ y.state = "dying" /\ y.refcnt = x.refcnt /\ y.on = x.on
    BY DEF SecAsVar, State
  <2> HIDE DEF y
  <2>4. Good(y, n) /\ Later(x, y)
    BY <2>1, <2>3 DEF Good, Later, Alive, Rank
  <2> QED
    BY <2>2, <2>4
<1>4. CASE /\ ~(x.state = "larval" /\ x.age > LarvalLife)
           /\ ~(soft /\ ~x.used) /\ ~dying
  <2>1. Aged(x) = x
    BY <1>4 DEF Aged
  <2> QED
    BY <2>1, LaterSame
<1> QED
  BY <1>1, <1>2, <1>3, <1>4

(* A request takes a reference of an SA that is mature or dying.           *)
LEMMA TakeGood ==
    ASSUME NEW x \in SecAsVar, NEW n \in Nat, Good(x, n), NEW used \in BOOLEAN,
           x.state \in {"mature", "dying"}
    PROVE  /\ Good([x EXCEPT !.refcnt = @ + 1, !.used = used], n + 1)
           /\ Later(x, [x EXCEPT !.refcnt = @ + 1, !.used = used])
<1> DEFINE y == [x EXCEPT !.refcnt = @ + 1, !.used = used]
<1>0. x.refcnt + 1 \in Nat \ {0}
  BY FreeFacts
<1>1. y \in SecAsVar /\ y.state = x.state /\ y.refcnt = x.refcnt + 1 /\ y.on = x.on
  BY <1>0 DEF SecAsVar
<1> HIDE DEF y
<1>2. Good(y, n + 1)
  BY <1>1, FreeFacts DEF Good, Alive
<1>3. Later(x, y)
  BY <1>1 DEF Later, Alive, Rank
<1> QED
  BY <1>2, <1>3 DEF y

----------------------------------------------------------------------------
(* The requests that hold an SA.                                           *)

\* The requests that hold s when request j holds r[j].
HoldersIn(r, s) == {j \in Isr : r[j] = s}

Balanced(d, r) ==
    /\ d \in [Sa -> SecAsVar \union {Free}]
    /\ \A s \in Sa : Good(d[s], Cardinality(HoldersIn(r, s)))

LEMMA HoldersFinite ==
    ASSUME NEW r, NEW s
    PROVE  IsFiniteSet(HoldersIn(r, s)) /\ Cardinality(HoldersIn(r, s)) \in Nat
  BY SaLifeAssumption, FS_Subset, FS_CardinalityType DEF HoldersIn

LEMMA InvBalanced == IInv => Balanced(sa, isr)
  BY DEF IInv, TypeOK, SaGood, Balanced, Held, Holders, HoldersIn

(* Memory a request holds is not free.                                     *)
LEMMA HeldNotFree ==
    ASSUME NEW d, NEW r, Balanced(d, r), NEW i \in Isr, NEW s \in Sa, r[i] = s
    PROVE  Cardinality(HoldersIn(r, s)) > 0 /\ d[s] \in SecAsVar /\ d[s] # Free
<1>1. HoldersIn(r, s) # {}
  BY DEF HoldersIn
<1>2. Cardinality(HoldersIn(r, s)) > 0
  BY <1>1, HoldersFinite, FS_EmptySet
<1>3. d[s].refcnt # 0 /\ d[s] \in SecAsVar \union {Free}
  BY <1>2, HoldersFinite DEF Balanced, Good
<1> QED
  BY <1>2, <1>3, FreeFacts

(* A request that lets go, or takes an SA when it holds none, changes the  *)
(* count of that SA by one and of no other.                                *)
LEMMA HoldersLess ==
    ASSUME NEW r \in [Isr -> Sa \union {NoSa}], NEW i \in Isr, r[i] # NoSa
    PROVE  LET q == [r EXCEPT ![i] = NoSa] IN
           /\ Cardinality(HoldersIn(q, r[i])) = Cardinality(HoldersIn(r, r[i])) - 1
           /\ \A s \in Sa \ {r[i]} : HoldersIn(q, s) = HoldersIn(r, s)
<1> DEFINE q == [r EXCEPT ![i] = NoSa]
<1>1. HoldersIn(q, r[i]) = HoldersIn(r, r[i]) \ {i}
  BY SaLifeAssumption DEF HoldersIn
<1>2. i \in HoldersIn(r, r[i])
  BY DEF HoldersIn
<1>3. Cardinality(HoldersIn(q, r[i])) = Cardinality(HoldersIn(r, r[i])) - 1
  BY <1>1, <1>2, HoldersFinite, FS_RemoveElement
<1>4. \A s \in Sa \ {r[i]} : HoldersIn(q, s) = HoldersIn(r, s)
  BY SaLifeAssumption DEF HoldersIn
<1> QED
  BY <1>3, <1>4

LEMMA HoldersMore ==
    ASSUME NEW r \in [Isr -> Sa \union {NoSa}], NEW i \in Isr, r[i] = NoSa,
           NEW s \in Sa
    PROVE  LET q == [r EXCEPT ![i] = s] IN
           /\ Cardinality(HoldersIn(q, s)) = Cardinality(HoldersIn(r, s)) + 1
           /\ \A t \in Sa \ {s} : HoldersIn(q, t) = HoldersIn(r, t)
<1> DEFINE q == [r EXCEPT ![i] = s]
<1>1. HoldersIn(q, s) = HoldersIn(r, s) \union {i}
  BY SaLifeAssumption DEF HoldersIn
<1>2. i \notin HoldersIn(r, s)
  BY SaLifeAssumption DEF HoldersIn
<1>3. Cardinality(HoldersIn(q, s)) = Cardinality(HoldersIn(r, s)) + 1
  BY <1>1, <1>2, HoldersFinite, FS_AddElement
<1>4. \A t \in Sa \ {s} : HoldersIn(q, t) = HoldersIn(r, t)
  BY SaLifeAssumption DEF HoldersIn
<1> QED
  BY <1>3, <1>4

\* The requests when request i has let go of its SA.
LetGo(i) == [isr EXCEPT ![i] = NoSa]

(* key_checkrequest and key_delsp give back the reference first.           *)
LEMMA ReleasedGood ==
    ASSUME IInv, NEW i \in Isr
    PROVE  /\ Balanced(Released(i), LetGo(i))
           /\ \A s \in Sa : Later(sa[s], Released(i)[s])
           /\ LetGo(i) \in [Isr -> Sa \union {NoSa}] /\ LetGo(i)[i] = NoSa
<1>1. isr \in [Isr -> Sa \union {NoSa}] /\ sa \in [Sa -> SecAsVar \union {Free}]
  BY DEF IInv, TypeOK
<1>2. Balanced(sa, isr)
  BY InvBalanced
<1>3. LetGo(i) \in [Isr -> Sa \union {NoSa}] /\ LetGo(i)[i] = NoSa
  BY <1>1 DEF LetGo
<1>4. CASE isr[i] = NoSa
  <2>1. Released(i) = sa /\ LetGo(i) = isr
    BY <1>4, <1>1 DEF Released, LetGo
  <2> QED
    BY <2>1, <1>1, <1>2, <1>3, LaterSame
<1>5. CASE isr[i] # NoSa
  <2> DEFINE t == isr[i]
             n == Cardinality(HoldersIn(isr, t))
             d == Released(i)
  <2>1. t \in Sa
    BY <1>1, <1>5
  <2>2. n \in Nat /\ n > 0 /\ sa[t] \in SecAsVar
    BY <2>1, <1>2, HeldNotFree, HoldersFinite
  <2>3. Good(sa[t], n)
    BY <2>1, <1>2 DEF Balanced
  <2>4. Cardinality(HoldersIn(LetGo(i), t)) = n - 1
    BY <1>1, <1>5, HoldersLess DEF LetGo
  <2>5. \A s \in Sa \ {t} : HoldersIn(LetGo(i), s) = HoldersIn(isr, s)
    BY <1>1, <1>5, HoldersLess DEF LetGo
  <2>6. d = [sa EXCEPT ![t] = FreeSav(sa[t])]
    BY <1>5 DEF Released
  <2> HIDE DEF d, n
  <2>7. Good(FreeSav(sa[t]), n - 1) /\ Later(sa[t], FreeSav(sa[t]))
    BY <2>2, <2>3, FreeSavGood
  <2>8. d[t] = FreeSav(sa[t]) /\ \A s \in Sa \ {t} : d[s] = sa[s]
    BY <2>1, <2>6, <1>1
  <2>9. d \in [Sa -> SecAsVar \union {Free}]
    BY <2>1, <2>6, <2>7, <1>1 DEF Good
  <2>10. \A s \in Sa : Good(d[s], Cardinality(HoldersIn(LetGo(i), s)))
    <3> TAKE s \in Sa
    <3>1. CASE s = t
      BY <3>1, <2>4, <2>7, <2>8
    <3>2. CASE s # t
      <4>1. d[s] = sa[s] /\ HoldersIn(LetGo(i), s) = HoldersIn(isr, s)
        BY <3>2, <2>5, <2>8
      <4> QED
        BY <4>1, <1>2 DEF Balanced
    <3> QED
      BY <3>1, <3>2
  <2>11. \A s \in Sa : Later(sa[s], d[s])
    BY <2>7, <2>8, <1>1, LaterSame
  <2> QED
    BY <2>9, <2>10, <2>11, <1>3 DEF Balanced, d
<1> QED
  BY <1>4, <1>5

----------------------------------------------------------------------------
(* Steps.                                                                  *)

Forward ==
    \A s \in Sa : sa[s] # Free /\ sa'[s] # Free => Rank(sa[s].state) <= Rank(sa'[s].state)

\* acq and asked have values they may have.
AcqTyped == acq' \in [count : Nat, age : Nat] \union {NoAcq} /\ asked' \in {"none", "ask", "told"}

LEMMA LaterTrans ==
    ASSUME NEW x, NEW y, NEW z, Later(x, y), Later(y, z)
    PROVE  Later(x, z)
<1>1. CASE y = Free
  BY <1>1, FreeFacts DEF Later
<1>2. CASE z = Free
  BY <1>2 DEF Later
<1>3. CASE y # Free /\ z # Free
  BY <1>3, FreeFacts DEF Later, Rank, State
<1> QED
  BY <1>1, <1>2, <1>3

(* The parts of the invariant make it up again after a step.               *)
LEMMA Closes ==
    ASSUME Balanced(sa', isr'), isr' \in [Isr -> Sa \union {NoSa}], AcqTyped,
           head' \in [Head -> {"none", "live", "dead"}], OneLive', AliveFound'
    PROVE  IInv'
<1>1. sa' \in [Sa -> SecAsVar \union {Free}]
  BY DEF Balanced
<1>2. SaGood'
  BY DEF Balanced, SaGood, Held, Holders, HoldersIn
<1> QED
  BY <1>1, <1>2 DEF IInv, TypeOK, AcqTyped

(* A step that makes no SA and leaves the indices alone.                   *)
LEMMA LaterKeeps ==
    ASSUME IInv, Balanced(sa', isr'), isr' \in [Isr -> Sa \union {NoSa}], AcqTyped,
           UNCHANGED head, \A s \in Sa : Later(sa[s], sa'[s])
    PROVE  IInv' /\ Forward
<1>1. OneLive' /\ head' \in [Head -> {"none", "live", "dead"}]
  BY DEF IInv, TypeOK, OneLive, LiveHead
<1>2. AliveFound'
  BY FreeFacts DEF IInv, AliveFound, Later
<1>3. Forward
  BY DEF Forward, Later
<1> QED
  BY <1>1, <1>2, <1>3, Closes

(* The timer, the daemon and a packet keep the type of the acquiring list. *)
LEMMA AcqTypes ==
    ASSUME IInv
    PROVE  /\ AcqReset \in [count : Nat, age : Nat] \union {NoAcq}
           /\ Acquire => AcqTyped
           /\ acq' = acq /\ asked' = "none" => AcqTyped
<1>1. acq \in [count : Nat, age : Nat] \union {NoAcq}
  BY DEF IInv, TypeOK
<1>2. Acquire => AcqTyped
  BY <1>1 DEF Acquire, AcqTyped
<1> QED
  BY <1>1, <1>2 DEF AcqReset, AcqTyped

(* key_getsah, key_newsah: an index that is live stays the only one.       *)
LEMMA GetHeadOne ==
    ASSUME IInv, NEW h \in Head, GetHead(h)
    PROVE  /\ head' \in [Head -> {"none", "live", "dead"}] /\ OneLive'
           /\ head'[h] = "live"
           /\ \A g \in Head : head[g] = "live" => head'[g] = "live"
<1>1. head \in [Head -> {"none", "live", "dead"}] /\ OneLive
  BY DEF IInv, TypeOK
<1>2. head' = [head EXCEPT ![h] = "live"]
  BY DEF GetHead
<1>3. \A g \in Head : head[g] = "live" => g = h
  BY <1>1 DEF GetHead, OneLive, LiveHead, EmptyHead
<1> QED
  BY <1>1, <1>2, <1>3 DEF OneLive, LiveHead

(* A new SA on the index found.                                            *)
LEMMA NewKeeps ==
    ASSUME IInv, NEW s \in Sa, NEW h \in Head, NEW state \in {"larval", "mature"},
           sa[s] = Free, GetHead(h), sa' = [sa EXCEPT ![s] = NewSa(state, h)],
           AcqTyped, UNCHANGED isr
    PROVE  IInv' /\ Forward
<1>1. sa \in [Sa -> SecAsVar \union {Free}] /\ isr' \in [Isr -> Sa \union {NoSa}]
  BY DEF IInv, TypeOK
<1>2. Good(NewSa(state, h), 0) /\ NewSa(state, h) \in SecAsVar /\ NewSa(state, h).on = h
  BY NewSaGood
<1>3. Cardinality(HoldersIn(isr, s)) = 0
  BY InvBalanced, FreeFacts, HoldersFinite DEF Balanced, Good
<1>4. Balanced(sa', isr')
  <2>1. sa' \in [Sa -> SecAsVar \union {Free}]
    BY <1>1, <1>2
  <2>2. \A t \in Sa : Good(sa'[t], Cardinality(HoldersIn(isr, t)))
    BY <1>1, <1>2, <1>3, InvBalanced DEF Balanced
  <2> QED
    BY <2>1, <2>2 DEF Balanced
<1>5. AliveFound'
  <2> SUFFICES ASSUME NEW t \in Sa, Alive(sa'[t]) PROVE head'[sa'[t].on] = "live"
    BY DEF AliveFound
  <2>1. CASE t = s
    BY <2>1, <1>1, <1>2, GetHeadOne
  <2>2. CASE t # s
    <3>1. sa'[t] = sa[t] /\ sa[t] \in SecAsVar
      BY <2>2, <1>1, FreeFacts
    <3> QED
      BY <3>1, GetHeadOne, FreeFacts DEF IInv, AliveFound
  <2> QED
    BY <2>1, <2>2
<1>6. Forward
  BY <1>1, FreeFacts DEF Forward, Rank, State
<1> QED
  BY <1>1, <1>4, <1>5, <1>6, GetHeadOne, Closes

(* key_flush: nothing is left alive and no index live.                     *)
LEMMA FlushKeeps == ASSUME IInv, Flush PROVE IInv' /\ Forward
<1>1. sa \in [Sa -> SecAsVar \union {Free}] /\ isr' \in [Isr -> Sa \union {NoSa}]
  BY DEF IInv, TypeOK, Flush
<1>2. ASSUME NEW s \in Sa
      PROVE  /\ Good(sa'[s], Cardinality(HoldersIn(isr, s)))
             /\ Later(sa[s], sa'[s]) /\ ~Alive(sa'[s])
  <2>1. Good(sa[s], Cardinality(HoldersIn(isr, s)))
    BY InvBalanced DEF Balanced
  <2>2. CASE Alive(sa[s])
    <3>1. sa[s] \in SecAsVar
      BY <1>1, <2>2, FreeFacts
    <3> QED
      BY <2>1, <2>2, <3>1, KillGood, HoldersFinite DEF Flush
  <2>3. CASE ~Alive(sa[s])
    BY <2>1, <2>3, <1>1, LaterSame DEF Flush
  <2> QED
    BY <2>2, <2>3
<1>3. sa' \in [Sa -> SecAsVar \union {Free}]
  BY <1>2 DEF Flush, Good
<1>4. Balanced(sa', isr')
  BY <1>2, <1>3 DEF Balanced, Flush
<1>5. head' \in [Head -> {"none", "live", "dead"}] /\ OneLive' /\ AliveFound' /\ AcqTyped
  BY <1>2, AcqTypes DEF Flush, OneLive, LiveHead, AliveFound
<1>6. Forward
  BY <1>2 DEF Forward, Later
<1> QED
  BY <1>1, <1>4, <1>5, <1>6, Closes

(* One SA is changed by the daemon, or taken notice of by a packet.        *)
LEMMA OneKeeps ==
    ASSUME IInv, NEW s \in Sa, NEW x, sa' = [sa EXCEPT ![s] = x],
           Good(x, Held(s)), Later(sa[s], x), asked' = "none", UNCHANGED <<head, isr, acq>>
    PROVE  IInv' /\ Forward
<1>1. sa \in [Sa -> SecAsVar \union {Free}] /\ isr' \in [Isr -> Sa \union {NoSa}]
  BY DEF IInv, TypeOK
<1>2. Held(s) = Cardinality(HoldersIn(isr, s))
  BY DEF Held, Holders, HoldersIn
<1>3. Balanced(sa', isr')
  BY <1>1, <1>2, InvBalanced DEF Balanced, Good
<1>4. \A t \in Sa : Later(sa[t], sa'[t])
  BY <1>1, LaterSame
<1> QED
  BY <1>1, <1>3, <1>4, AcqTypes, LaterKeeps

(* SADB_UPDATE: a larval SA becomes mature, or is gone.                    *)
LEMMA UpdateKeeps ==
    ASSUME ~LateUpdate, IInv, NEW s \in Sa, NEW ok \in BOOLEAN, Update(s, ok)
    PROVE  IInv' /\ Forward
<1> DEFINE new == [sa[s] EXCEPT !.age = 0, !.used = FALSE]
           up == [new EXCEPT !.state = "mature"]
<1>1. sa[s].state = "larval"
  BY DEF Update
<1>2. sa[s] \in SecAsVar
  BY <1>1, FreeFacts DEF IInv, TypeOK
<1>3. Good(sa[s], Held(s)) /\ Held(s) \in Nat
  BY HoldersFinite DEF IInv, SaGood, Held, Holders, HoldersIn
<1>4. new \in SecAsVar /\ new.state = "larval" /\ new.refcnt = sa[s].refcnt /\ new.on = sa[s].on
  BY <1>1, <1>2 DEF SecAsVar
<1>5. up \in SecAsVar /\ up.state = "mature" /\ up.refcnt = sa[s].refcnt /\ up.on = sa[s].on
  BY <1>2 DEF SecAsVar, State
<1>6. CASE ok
  <2>1. sa' = [sa EXCEPT ![s] = up]
    BY <1>6 DEF Update
  <2> HIDE DEF up
  <2>2. Good(up, Held(s)) /\ Later(sa[s], up)
    BY <1>1, <1>2, <1>3, <1>5 DEF Good, Alive, Later, Rank
  <2> QED
    BY <2>1, <2>2, OneKeeps DEF Update
<1>7. CASE ~ok
  <2>1. sa' = [sa EXCEPT ![s] = FreeSav(new)]
    BY <1>7 DEF Update
  <2> HIDE DEF new
  <2>2. Good(new, Held(s))
    BY <1>1, <1>3, <1>4 DEF Good, Alive
  <2>3. FreeSav(new) = Free /\ Held(s) = 0
    BY <1>3, <1>4, <2>2, LarvalGone
  <2>4. Good(Free, Held(s)) /\ Later(sa[s], Free)
    BY <2>3, FreeFacts DEF Good, Later
  <2> QED
    BY <2>1, <2>3, <2>4, OneKeeps DEF Update
<1> QED
  BY <1>6, <1>7

(* SADB_DELETE: of one SA, or of all between the addresses.                *)
LEMMA DeleteKeeps ==
    ASSUME IInv, (\E s \in Sa : Delete(s)) \/ DeleteAll
    PROVE  IInv' /\ Forward
<1>1. sa \in [Sa -> SecAsVar \union {Free}] /\ isr' \in [Isr -> Sa \union {NoSa}]
  BY DEF IInv, TypeOK, Delete, DeleteAll
<1>2. \A s \in Sa : sa'[s] = sa[s] \/ (Alive(sa[s]) /\ sa'[s] = Kill(sa[s]))
  BY <1>1 DEF Delete, DeleteAll, Named
<1>3. ASSUME NEW s \in Sa
      PROVE  Good(sa'[s], Cardinality(HoldersIn(isr, s))) /\ Later(sa[s], sa'[s])
  <2>1. Good(sa[s], Cardinality(HoldersIn(isr, s)))
    BY InvBalanced DEF Balanced
  <2>2. CASE Alive(sa[s]) /\ sa'[s] = Kill(sa[s])
    <3>1. sa[s] \in SecAsVar
      BY <1>1, <2>2, FreeFacts
    <3> QED
      BY <2>1, <2>2, <3>1, KillGood, HoldersFinite
  <2>3. CASE sa'[s] = sa[s]
    BY <2>1, <2>3, <1>1, LaterSame
  <2> QED
    BY <1>2, <2>2, <2>3
<1>4. sa' \in [Sa -> SecAsVar \union {Free}]
  <2>1. \A s \in Sa : sa'[s] \in SecAsVar \union {Free}
    BY <1>3 DEF Good
  <2> QED
    BY <2>1, <1>1 DEF Delete, DeleteAll
<1>5. Balanced(sa', isr') /\ UNCHANGED head /\ AcqTyped
  BY <1>3, <1>4, AcqTypes DEF Balanced, Delete, DeleteAll
<1> QED
  BY <1>1, <1>3, <1>5, LaterKeeps

LEMMA InboundKeeps ==
    ASSUME IInv, NEW s \in Sa, Inbound(s)
    PROVE  IInv' /\ Forward
<1> DEFINE x == [sa[s] EXCEPT !.used = TRUE]
<1>1. sa[s] \in SecAsVar /\ sa \in [Sa -> SecAsVar \union {Free}]
  BY FreeFacts DEF IInv, TypeOK, Inbound
<1>2. x \in SecAsVar /\ x.state = sa[s].state /\ x.refcnt = sa[s].refcnt /\ x.on = sa[s].on
  BY <1>1 DEF SecAsVar
<1>3. sa' = [sa EXCEPT ![s] = x]
  BY <1>1 DEF Inbound
<1> HIDE DEF x
<1>4. Good(x, Held(s)) /\ Later(sa[s], x)
  BY <1>1, <1>2, FreeFacts DEF IInv, SaGood, Good, Alive, Later, Rank, State
<1> QED
  BY <1>3, <1>4, OneKeeps DEF Inbound

(* The SAs a packet may take are alive, on the live index and not larval.  *)
LEMMA ValidStates ==
    ASSUME NEW d, NEW s \in Valid(d)
    PROVE  s \in Sa /\ d[s].state \in {"mature", "dying"}
  BY DEF Valid

(* key_checkrequest, key_allocsa_policy: the request takes one SA of those *)
(* that may serve; the others are deleted if older ones are not preferred. *)
LEMMA OutboundSaKeeps ==
    ASSUME IInv, NEW i \in Isr, NEW sent \in BOOLEAN, OutboundSa(i, sent)
    PROVE  IInv' /\ Forward
<1> DEFINE d == Released(i)
           r == LetGo(i)
<1>1. /\ Balanced(d, r) /\ r \in [Isr -> Sa \union {NoSa}] /\ r[i] = NoSa
      /\ \A s \in Sa : Later(sa[s], d[s])
  BY ReleasedGood
<1>2. PICK s \in Candidate(d) :
        /\ sa' = [t \in Sa |->
                    IF t = s THEN [d[s] EXCEPT !.refcnt = @ + 1, !.used = @ \/ sent]
                    ELSE IF t \in Valid(d) /\ ~PreferOld /\ Hard # 0 THEN Kill(d[t])
                    ELSE d[t]]
        /\ isr' = [isr EXCEPT ![i] = s]
        /\ asked' = "none"
        /\ UNCHANGED <<head, acq>>
  BY DEF OutboundSa
<1>3. s \in Sa /\ d[s].state \in {"mature", "dying"}
  <2>1. s \in Valid(d)
    BY DEF Candidate
  <2> QED
    BY <2>1, ValidStates
<1>4. isr' = [r EXCEPT ![i] = s] /\ isr' \in [Isr -> Sa \union {NoSa}]
  BY <1>2, <1>3 DEF LetGo, IInv, TypeOK
<1> HIDE DEF d, r
<1>5. /\ Cardinality(HoldersIn(isr', s)) = Cardinality(HoldersIn(r, s)) + 1
      /\ \A t \in Sa \ {s} : HoldersIn(isr', t) = HoldersIn(r, t)
  <2> DEFINE q == [r EXCEPT ![i] = s]
  <2>1. /\ Cardinality(HoldersIn(q, s)) = Cardinality(HoldersIn(r, s)) + 1
        /\ \A t \in Sa \ {s} : HoldersIn(q, t) = HoldersIn(r, t)
    BY <1>1, <1>3, HoldersMore
  <2> QED
    BY <1>4, <2>1
<1>6. d[s] \in SecAsVar /\ \A t \in Sa : d[t] \in SecAsVar \union {Free}
  BY <1>1, <1>3, FreeFacts DEF Balanced
<1>7. ASSUME NEW t \in Sa
      PROVE  Good(sa'[t], Cardinality(HoldersIn(isr', t))) /\ Later(d[t], sa'[t])
  <2> DEFINE n == Cardinality(HoldersIn(r, t))
  <2>1. Good(d[t], n) /\ n \in Nat
    BY <1>1, HoldersFinite DEF Balanced
  <2>2. CASE t = s
    <3> DEFINE used == d[s].used \/ sent
    <3>1. used \in BOOLEAN
      BY <1>6, FreeFacts
    <3>2. sa'[t] = [d[s] EXCEPT !.refcnt = @ + 1, !.used = used]
      BY <1>2, <1>3, <2>2
    <3> HIDE DEF used
    <3> HIDE DEF n
    <3>3. /\ Good([d[s] EXCEPT !.refcnt = @ + 1, !.used = used], n + 1)
          /\ Later(d[s], [d[s] EXCEPT !.refcnt = @ + 1, !.used = used])
      BY <3>1, <2>1, <2>2, <1>3, <1>6, TakeGood
    <3>4. Good(sa'[t], n + 1) /\ Later(d[t], sa'[t])
      BY <3>2, <3>3, <2>2
    <3> QED
      BY <3>4, <2>2, <1>5 DEF n
  <2>3. CASE t # s /\ sa'[t] = Kill(d[t]) /\ t \in Valid(d)
    <3>1. Alive(d[t]) /\ d[t] \in SecAsVar
      BY <2>3, <1>6, ValidStates, FreeFacts DEF Alive
    <3>2. Good(Kill(d[t]), n) /\ Later(d[t], Kill(d[t]))
      BY <3>1, <2>1, KillGood
    <3> QED
      BY <3>2, <2>3, <1>5
  <2>4. CASE t # s /\ sa'[t] = d[t]
    BY <2>4, <2>1, <1>5, <1>6, LaterSame
  <2> QED
    BY <1>2, <2>2, <2>3, <2>4
<1>8. sa' \in [Sa -> SecAsVar \union {Free}]
  <2>1. \A t \in Sa : sa'[t] \in SecAsVar \union {Free}
    BY <1>7 DEF Good
  <2> QED
    BY <1>2, <2>1
<1>9. Balanced(sa', isr')
  BY <1>7, <1>8 DEF Balanced
<1>10. \A t \in Sa : Later(sa[t], sa'[t])
  BY <1>1, <1>7, LaterTrans
<1> QED
  BY <1>2, <1>4, <1>9, <1>10, AcqTypes, LaterKeeps

(* No SA, or the policy is deleted: the request only lets go.              *)
LEMMA LetGoKeeps ==
    ASSUME IInv, NEW i \in Isr, OutboundNoSa(i) \/ DeletePolicy(i)
    PROVE  IInv' /\ Forward
<1>1. sa' = Released(i) /\ isr' = LetGo(i) /\ UNCHANGED head
  BY DEF OutboundNoSa, DeletePolicy, LetGo
<1>2. AcqTyped
  BY AcqTypes DEF OutboundNoSa, DeletePolicy
<1> QED
  BY <1>1, <1>2, ReleasedGood, LaterKeeps

(* key_timehandler: SAs on the live index age, and an index without an SA  *)
(* alive dies.                                                             *)
LEMMA TickKeeps == ASSUME IInv, Tick PROVE IInv' /\ Forward
<1>1. /\ sa \in [Sa -> SecAsVar \union {Free}]
      /\ head \in [Head -> {"none", "live", "dead"}]
      /\ acq \in [count : Nat, age : Nat] \union {NoAcq}
      /\ isr' = isr /\ isr' \in [Isr -> Sa \union {NoSa}]
  BY DEF IInv, TypeOK, Tick
<1>2. \A s \in Sa : sa'[s] = sa[s] \/ (sa[s] # Free /\ sa'[s] = Aged(Older(sa[s])))
  BY DEF Tick
<1>3. ASSUME NEW s \in Sa
      PROVE  Good(sa'[s], Cardinality(HoldersIn(isr, s))) /\ Later(sa[s], sa'[s])
  <2> DEFINE n == Cardinality(HoldersIn(isr, s))
  <2>1. Good(sa[s], n) /\ n \in Nat
    BY InvBalanced, HoldersFinite DEF Balanced
  <2> HIDE DEF n
  <2>2. CASE sa[s] # Free /\ sa'[s] = Aged(Older(sa[s]))
    <3>1. sa[s] \in SecAsVar
      BY <1>1, <2>2
    <3> DEFINE x == Older(sa[s])
    <3>2. x \in SecAsVar /\ Good(x, n) /\ x.state = sa[s].state /\ x.on = sa[s].on
      BY <3>1, <2>1, OlderGood
    <3> HIDE DEF x
    <3>3. Good(Aged(x), n) /\ Later(x, Aged(x))
      BY <3>2, <2>1, AgedGood
    <3>4. Later(sa[s], Aged(x))
      BY <3>1, <3>2, <3>3 DEF Later, Alive
    <3> QED
      BY <2>2, <3>3, <3>4 DEF x, n
  <2>3. CASE sa'[s] = sa[s]
    BY <2>1, <2>3, <1>1, LaterSame DEF n
  <2> QED
    BY <1>2, <2>2, <2>3
<1>4. Balanced(sa', isr')
  <2>1. \A s \in Sa : sa'[s] \in SecAsVar \union {Free}
    BY <1>3 DEF Good
  <2>2. sa' \in [Sa -> SecAsVar \union {Free}]
    BY <2>1 DEF Tick
  <2> QED
    BY <2>2, <1>1, <1>3 DEF Balanced
<1>5. head' = [h \in Head |->
               CASE head[h] = "dead" /\ On(sa, h) = {} -> "none"
                 [] head[h] = "live" /\ (\A s \in On(sa', h) : ~Alive(sa'[s])) -> "dead"
                 [] OTHER -> head[h]]
  BY DEF Tick
<1>6. ASSUME NEW h \in Head
      PROVE  /\ head'[h] \in {"none", "live", "dead"}
             /\ head'[h] = "live" => head[h] = "live"
             /\ \A s \in On(sa', h) : Alive(sa'[s]) /\ head[h] = "live" => head'[h] = "live"
  BY <1>1, <1>5
<1>7. head' \in [Head -> {"none", "live", "dead"}] /\ OneLive'
  <2>1. head' \in [Head -> {"none", "live", "dead"}]
    BY <1>5, <1>6
  <2>2. LiveHead' \subseteq LiveHead
    BY <1>6 DEF LiveHead
  <2> QED
    BY <2>1, <2>2 DEF IInv, OneLive
<1>8. AliveFound'
  <2> SUFFICES ASSUME NEW s \in Sa, Alive(sa'[s]) PROVE head'[sa'[s].on] = "live"
    BY DEF AliveFound
  <2>1. sa'[s] # Free /\ Alive(sa[s]) /\ sa'[s].on = sa[s].on /\ sa[s] \in SecAsVar
    BY <1>3, FreeFacts DEF Later
  <2>2. sa[s].on \in Head /\ head[sa[s].on] = "live" /\ s \in On(sa', sa[s].on)
    BY <2>1, FreeFacts DEF IInv, AliveFound, On
  <2> QED
    BY <2>1, <2>2, <1>6
<1>9. AcqTyped
  <2>1. acq # NoAcq => [acq EXCEPT !.age = @ + 1] \in [count : Nat, age : Nat]
    BY <1>1
  <2> QED
    BY <2>1 DEF Tick, AcqTyped
<1>10. Forward
  BY <1>3 DEF Forward, Later
<1> QED
  BY <1>1, <1>4, <1>7, <1>8, <1>9, <1>10, Closes

LEMMA InitIInv == Init => IInv
<1> SUFFICES ASSUME Init PROVE IInv
  OBVIOUS
<1>1. TypeOK
  BY DEF Init, TypeOK
<1>2. SaGood
  <2> SUFFICES ASSUME NEW s \in Sa PROVE Good(Free, Held(s))
    BY DEF SaGood, Init
  <2>1. Holders(s) = {}
    BY SaLifeAssumption DEF Init, Holders
  <2>2. Held(s) = 0
    BY <2>1, FS_EmptySet DEF Held
  <2> QED
    BY <2>2, FreeFacts DEF Good
<1>3. OneLive /\ AliveFound
  BY FreeFacts DEF Init, OneLive, LiveHead, AliveFound
<1> QED
  BY <1>1, <1>2, <1>3 DEF IInv

(* Every message, packet and timer keeps the invariant and moves each SA   *)
(* on, if at all.                                                          *)
LEMMA StepKeeps ==
    ASSUME ~LateUpdate, IInv, [Next]_vars
    PROVE  IInv' /\ (Forward \/ UNCHANGED vars)
<1>1. ASSUME Daemon PROVE IInv' /\ Forward
  <2>1. ASSUME NEW s \in Sa, NEW h \in Head, NEW known \in BOOLEAN, Getspi(s, h, known)
        PROVE  IInv' /\ Forward
    <3>1. AcqTyped
      BY <2>1, AcqTypes DEF Getspi, AcqTyped, IInv, TypeOK
    <3> QED
      BY <2>1, <3>1, NewKeeps DEF Getspi
  <2>2. ASSUME NEW s \in Sa, NEW h \in Head, Add(s, h) PROVE IInv' /\ Forward
    <3>1. AcqTyped
      BY <2>2, AcqTypes DEF Add
    <3> QED
      BY <2>2, <3>1, NewKeeps DEF Add
  <2>3. ASSUME NEW h \in Head, OnlyHead(h) PROVE IInv' /\ Forward
    <3>1. AcqTyped /\ Balanced(sa', isr') /\ isr' \in [Isr -> Sa \union {NoSa}]
      BY <2>3, AcqTypes, InvBalanced DEF OnlyHead, IInv, TypeOK
    <3>2. GetHead(h) /\ UNCHANGED sa
      BY <2>3 DEF OnlyHead
    <3>3. AliveFound'
      BY <3>2, GetHeadOne, FreeFacts DEF IInv, TypeOK, AliveFound
    <3>4. Forward
      BY <3>2, FreeFacts DEF Forward, IInv, TypeOK, Rank, State
    <3> QED
      BY <3>1, <3>2, <3>3, <3>4, GetHeadOne, Closes
  <2>4. ASSUME NEW s \in Sa, NEW ok \in BOOLEAN, Update(s, ok) PROVE IInv' /\ Forward
    BY <2>4, UpdateKeeps
  <2>5. ASSUME (\E s \in Sa : Delete(s)) \/ DeleteAll PROVE IInv' /\ Forward
    BY <2>5, DeleteKeeps
  <2>6. ASSUME Flush PROVE IInv' /\ Forward
    BY <2>6, FlushKeeps
  <2>7. ASSUME AcquireFailed PROVE IInv' /\ Forward
    <3>1. AcqTyped
      BY <2>7, AcqTypes DEF AcquireFailed, AcqTyped
    <3>2. Balanced(sa', isr') /\ isr' \in [Isr -> Sa \union {NoSa}] /\ UNCHANGED <<sa, head>>
      BY <2>7, InvBalanced DEF AcquireFailed, IInv, TypeOK
    <3>3. \A s \in Sa : Later(sa[s], sa'[s])
      BY <3>2, LaterSame DEF IInv, TypeOK
    <3> QED
      BY <3>1, <3>2, <3>3, LaterKeeps
  <2> QED
    BY <1>1, <2>1, <2>2, <2>3, <2>4, <2>5, <2>6, <2>7 DEF Daemon
<1>2. ASSUME NEW i \in Isr, Outbound(i) \/ DeletePolicy(i) PROVE IInv' /\ Forward
  BY <1>2, OutboundSaKeeps, LetGoKeeps DEF Outbound
<1>3. CASE UNCHANGED vars
  <2>1. IInv'
    BY <1>3 DEF vars, IInv, TypeOK, SaGood, Held, Holders, OneLive, LiveHead, AliveFound
  <2> QED
    BY <2>1, <1>3
<1> QED
  BY <1>1, <1>2, <1>3, InboundKeeps, TickKeeps DEF Next

----------------------------------------------------------------------------
LEMMA SaInvariant == ASSUME ~LateUpdate PROVE Spec => []IInv
<1>1. IInv /\ [Next]_vars => IInv'
  BY StepKeeps
<1> QED
  BY <1>1, InitIInv, PTL DEF Spec

(* The types, for every number of SAs, indices and requests.               *)
THEOREM SaTypes == ASSUME ~LateUpdate PROVE Spec => []TypeOK
<1>1. IInv => TypeOK
  BY DEF IInv
<1> QED
  BY <1>1, SaInvariant, PTL

(* refcnt is one for the database until the SA is dead and one for each    *)
(* request that holds the SA (key_freesav, key.c:1243), whatever the order *)
(* of messages, packets and timers.                                        *)
THEOREM SaRefsBalanced == ASSUME ~LateUpdate PROVE Spec => []RefsBalanced
<1>1. IInv => RefsBalanced
  BY DEF IInv, SaGood, Good, RefsBalanced, Held
<1> QED
  BY <1>1, SaInvariant, PTL

(* No request of a policy ever holds an SA that was freed.                 *)
THEOREM SaHoldersValid == ASSUME ~LateUpdate PROVE Spec => []HoldersValid
<1>1. ASSUME IInv, NEW i \in Isr, isr[i] # NoSa PROVE sa[isr[i]] # Free
  <2>1. isr[i] \in Sa
    BY <1>1 DEF IInv, TypeOK
  <2> QED
    BY <1>1, <2>1, InvBalanced, HeldNotFree
<1>2. IInv => HoldersValid
  BY <1>1 DEF HoldersValid
<1> QED
  BY <1>2, SaInvariant, PTL

(* An SA alive is on the one index key_getsah finds.                       *)
THEOREM SaAliveOnLiveHead == ASSUME ~LateUpdate PROVE Spec => []AliveOnLiveHead
<1>1. ASSUME IInv PROVE Cardinality(LiveHead) <= 1
  <2>1. CASE LiveHead = {}
    BY <2>1, FS_EmptySet
  <2>2. CASE LiveHead # {}
    <3>1. \E h : LiveHead = {h}
      BY <1>1, <2>2 DEF IInv, OneLive
    <3> QED
      BY <3>1, FS_Singleton
  <2> QED
    BY <2>1, <2>2
<1>2. IInv => AliveOnLiveHead
  BY <1>1 DEF IInv, AliveFound, AliveOnLiveHead
<1> QED
  BY <1>2, SaInvariant, PTL

(* Larval, mature, dying, dead: no step takes an SA back.                  *)
THEOREM SaStateForward == ASSUME ~LateUpdate PROVE Spec => StateForward
<1>1. IInv /\ [Next]_vars
         => [\A s \in Sa : sa[s] # Free /\ sa'[s] # Free
                => Rank(sa[s].state) <= Rank(sa'[s].state)]_vars
  BY StepKeeps DEF Forward
<1> QED
  BY <1>1, SaInvariant, PTL DEF Spec, StateForward

=============================================================================
