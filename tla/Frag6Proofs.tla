---------------------------- MODULE Frag6Proofs ----------------------------
(* Proofs about Frag6, for any packets, limits and lifetime: that the two  *)
(* neighbours are all a new fragment has to be compared with, that what is *)
(* handed up is one whole packet, that the congestion mark and the counts  *)
(* are kept, and that older queues are freed first.                        *)
EXTENDS Frag6, FoldProofs

----------------------------------------------------------------------------
(* Fragments of one packet.                                                *)

Apart(f, g) == End(f) <= g.off \/ End(g) <= f.off

Disjoint(frags) == \A f, g \in frags : f # g => Apart(f, g)

LEMMA FragmentFacts ==
    ASSUME NEW k \in Key, NEW f \in Fragment(k)
    PROVE  /\ f.off \in 0..(Total[k] - 1) /\ f.len \in Nat \ {0}
           /\ f.off \in Nat /\ End(f) \in Nat /\ End(f) = f.off + f.len
           /\ f.off < End(f) /\ End(f) <= Total[k] /\ Total[k] \in Nat \ {0}
           /\ (~f.more => End(f) = Total[k]) /\ f.more \in BOOLEAN
           /\ f.ecn \in Ecn[k]
<1>1. Total[k] \in Nat \ {0}
  BY Frag6Assumption
<1>2. /\ f.off \in 0..(Total[k] - 1) /\ f.len \in 1..Total[k] /\ f.more \in BOOLEAN
      /\ f.ecn \in Ecn[k] /\ End(f) <= Total[k] /\ f.more = (End(f) < Total[k])
  BY DEF Fragment
<1>3. End(f) = f.off + f.len
  BY DEF End
<1>4. f.off \in Nat /\ f.len \in Nat \ {0} /\ End(f) \in Nat /\ f.off < End(f)
  BY <1>1, <1>2, <1>3
<1>5. ~f.more => ~(End(f) < Total[k])
  BY <1>2
<1>6. ~f.more => End(f) = Total[k]
  BY <1>1, <1>2, <1>4, <1>5
<1> QED
  BY <1>1, <1>2, <1>3, <1>4, <1>6

(* Fragments share no octet exactly when one ends before the other begins. *)
LEMMA ApartUnits ==
    ASSUME NEW k \in Key, NEW f \in Fragment(k), NEW g \in Fragment(k)
    PROVE  Apart(f, g) <=> Units(f) \cap Units(g) = {}
<1>1. /\ f.off \in Nat /\ End(f) \in Nat /\ f.off < End(f)
      /\ g.off \in Nat /\ End(g) \in Nat /\ g.off < End(g)
  BY FragmentFacts
<1>2. ASSUME ~Apart(f, g) PROVE Units(f) \cap Units(g) # {}
  <2>1. CASE f.off <= g.off
    <3>1. g.off \in Units(f) /\ g.off \in Units(g)
      BY <1>1, <1>2, <2>1 DEF Units, Apart
    <3> QED
      BY <3>1
  <2>2. CASE g.off <= f.off
    <3>1. f.off \in Units(f) /\ f.off \in Units(g)
      BY <1>1, <1>2, <2>2 DEF Units, Apart
    <3> QED
      BY <3>1
  <2> QED
    BY <1>1, <2>1, <2>2
<1>3. ASSUME Apart(f, g), NEW u \in Units(f), u \in Units(g) PROVE FALSE
  BY <1>1, <1>3 DEF Units, Apart
<1> QED
  BY <1>2, <1>3

(* Disjoint fragments have different offsets, so there are not many.       *)
LEMMA OffsetsDiffer ==
    ASSUME NEW k \in Key, NEW F \in SUBSET Fragment(k), Disjoint(F),
           NEW f \in F, NEW g \in F, f.off = g.off
    PROVE  f = g
<1>1. f.off < End(f) /\ g.off < End(g) /\ f.off \in Nat /\ g.off \in Nat /\ End(f) \in Nat /\ End(g) \in Nat
  BY FragmentFacts
<1> QED
  BY <1>1 DEF Disjoint, Apart

LEMMA FragsFinite ==
    ASSUME NEW k \in Key, NEW F \in SUBSET Fragment(k), Disjoint(F)
    PROVE  IsFiniteSet(F)
<1> DEFINE at == [f \in F |-> f.off]
           T == 0..(Total[k] - 1)
<1>1. at \in [F -> T]
  BY FragmentFacts
<1>2. \A f, g \in F : at[f] = at[g] => f = g
  BY OffsetsDiffer
<1>3. at \in Injection(F, T)
  BY <1>1, <1>2 DEF Injection, IsInjective
<1>4. IsFiniteSet(T)
  BY Frag6Assumption, FS_Interval
<1> QED
  BY <1>3, <1>4, FS_Injection

(* The fragment that begins last among some.                               *)
LEMMA LastOne ==
    ASSUME NEW k \in Key, NEW F \in SUBSET Fragment(k), F # {}
    PROVE  \E g \in F : \A h \in F : h.off <= g.off
<1> DEFINE T == {g.off : g \in F}
           N == Total[k]
<1>1. N \in Nat
  BY Frag6Assumption
<1>2. T \in SUBSET (0..N) /\ T # {}
  <2>1. \A g \in F : g.off \in 0..N
    BY <1>1, FragmentFacts
  <2> QED
    BY <2>1
<1> HIDE DEF T, N
<1>3. PICK m \in T : \A n \in T : n <= m
  BY <1>1, <1>2, NatMost
<1> QED
  BY <1>3 DEF T

LEMMA FirstOne ==
    ASSUME NEW k \in Key, NEW F \in SUBSET Fragment(k), F # {}
    PROVE  \E g \in F : \A h \in F : h.off >= g.off
<1> DEFINE T == {g.off : g \in F}
<1>1. T \in SUBSET Nat /\ T # {}
  BY FragmentFacts
<1> HIDE DEF T
<1>2. PICK m \in T : \A n \in T : m <= n
  BY <1>1, NatLeast
<1>3. PICK g \in F : m = g.off
  BY <1>2 DEF T
<1>4. \A h \in F : h.off \in T
  BY DEF T
<1>5. \A h \in F : h.off >= g.off
  BY <1>1, <1>2, <1>3, <1>4
<1> QED
  BY <1>5

(* frag6_input compares a new fragment with the ones before and behind it  *)
(* in the list only: that is enough, since those in the list are disjoint. *)
LEMMA NeighboursSuffice ==
    ASSUME NEW k \in Key, NEW q, q.frags \in SUBSET Fragment(k), Disjoint(q.frags),
           NEW f \in Fragment(k), ~Overlaps(q, f)
    PROVE  \A g \in q.frags : Apart(g, f)
<1> SUFFICES ASSUME NEW g \in q.frags PROVE Apart(g, f)
  OBVIOUS
<1>1. \A h \in q.frags \union {f} : h.off \in Nat /\ End(h) \in Nat /\ h.off < End(h)
  BY FragmentFacts
<1>2. CASE g.off <= f.off
  <2>1. g \in Preceding(q, f) /\ Preceding(q, f) \in SUBSET Fragment(k)
    BY <1>2 DEF Preceding
  <2>2. PICK p \in Preceding(q, f) : \A h \in Preceding(q, f) : h.off <= p.off
    BY <2>1, LastOne
  <2>3. ~(End(p) > f.off) /\ p \in q.frags /\ g.off <= p.off
    BY <2>1, <2>2 DEF Overlaps, Preceding
  <2>4. g = p \/ Apart(g, p)
    BY <2>3 DEF Disjoint
  <2> QED
    BY <1>1, <2>3, <2>4 DEF Apart
<1>3. CASE g.off > f.off
  <2>1. g \in Succeeding(q, f) /\ Succeeding(q, f) \in SUBSET Fragment(k)
    BY <1>3 DEF Succeeding
  <2>2. PICK p \in Succeeding(q, f) : \A h \in Succeeding(q, f) : h.off >= p.off
    BY <2>1, FirstOne
  <2>3. ~(End(f) > p.off) /\ p \in q.frags /\ g.off >= p.off
    BY <2>1, <2>2 DEF Overlaps, Succeeding
  <2> QED
    BY <1>1, <2>3 DEF Apart
<1> QED
  BY <1>1, <1>2, <1>3

----------------------------------------------------------------------------
(* A list without gaps.                                                    *)

LEMMA LengthFacts ==
    ASSUME NEW F, IsFiniteSet(F), \A f \in F : f.len \in Nat
    PROVE  /\ LengthOf(F) \in Nat
           /\ \A f \in F : LengthOf(F) = f.len + LengthOf(F \ {f})
           /\ LengthOf({}) = 0
<1> DEFINE w == [f \in F |-> f.len]
<1>1. \A f \in F : w[f] \in Nat
  OBVIOUS
<1>2. LengthOf(F) = SumFunctionOnSet(w, F)
  BY DEF LengthOf
<1> HIDE DEF w
<1>3. LengthOf(F) \in Nat
  BY <1>1, <1>2, SumRemove
<1>4. ASSUME NEW f \in F PROVE LengthOf(F) = f.len + LengthOf(F \ {f})
  <2> DEFINE G == F \ {f}
             v == [h \in G |-> h.len]
  <2>1. IsFiniteSet(G) /\ \A h \in G : w[h] \in Nat /\ v[h] = w[h]
    BY <1>1, FS_RemoveElement DEF w
  <2>2. LengthOf(G) = SumFunctionOnSet(v, G)
    BY DEF LengthOf
  <2> HIDE DEF v, G
  <2>3. SumFunctionOnSet(v, G) = SumFunctionOnSet(w, G)
    BY <2>1, SumSame
  <2>4. SumFunctionOnSet(w, F) = w[f] + SumFunctionOnSet(w, G) /\ w[f] = f.len
    BY <1>1, SumRemove DEF G, w
  <2> QED
    BY <1>2, <2>2, <2>3, <2>4 DEF G
<1>5. LengthOf({}) = 0
  BY SumZero DEF LengthOf
<1> QED
  BY <1>3, <1>4, <1>5

\* What the walk over the list has seen.
NoGaps(F) ==
    /\ \A g \in F : g.off = LengthOf({h \in F : h.off < g.off})
    /\ \A g \in F : {h \in F : h.off > g.off} = {} => ~g.more

(* Behind a fragment follows the one that begins where it ends.            *)
LEMMA NextBegins ==
    ASSUME NEW k \in Key, NEW F \in SUBSET Fragment(k), Disjoint(F), NoGaps(F),
           NEW g \in F, NEW h \in F, g.off < h.off,
           \A e \in F : e.off > g.off => e.off >= h.off
    PROVE  h.off = End(g)
<1>1. \A e \in F : e.off \in Nat /\ e.len \in Nat /\ End(e) = e.off + e.len
  BY FragmentFacts
<1> DEFINE G == {e \in F : e.off < g.off}
           H == {e \in F : e.off < h.off}
<1>2. g \in H /\ H \ {g} = G
  <2>1. \A e \in F : e.off = g.off => e = g
    BY OffsetsDiffer
  <2> QED
    BY <1>1, <2>1
<1>3. IsFiniteSet(H) /\ \A e \in H : e.len \in Nat
  <2>1. H \in SUBSET F /\ IsFiniteSet(F)
    BY FragsFinite
  <2> QED
    BY <1>1, <2>1, FS_Subset
<1>4. LengthOf(H) = g.len + LengthOf(G)
  <2> HIDE DEF G, H
  <2> QED
    BY <1>2, <1>3, LengthFacts
<1>5. h.off = LengthOf(H) /\ g.off = LengthOf(G)
  BY DEF NoGaps
<1>6. h.off = g.len + g.off
  BY <1>4, <1>5
<1> QED
  BY <1>1, <1>6

(* A list without gaps whose last fragment ends the packet is the packet.  *)
LEMMA NoGapsWhole ==
    ASSUME NEW k \in Key, NEW F \in SUBSET Fragment(k), Disjoint(F), NoGaps(F), F # {}
    PROVE  /\ UNION {Units(f) : f \in F} = 0..(Total[k] - 1)
           /\ LengthOf(F) = Total[k]
           /\ \E f \in F : f.off = 0
           /\ \E f \in F : End(f) = Total[k]
<1>1. /\ Total[k] \in Nat \ {0}
      /\ \A e \in F : /\ e.off \in Nat /\ e.len \in Nat \ {0} /\ End(e) \in Nat
                      /\ End(e) = e.off + e.len /\ End(e) <= Total[k]
                      /\ e.off < Total[k]
  BY FragmentFacts
<1>2. PICK z \in F : \A h \in F : h.off <= z.off
  BY LastOne
<1>3. PICK a \in F : \A h \in F : h.off >= a.off
  BY FirstOne
<1>4. a.off = 0
  <2>1. {h \in F : h.off < a.off} = {}
    BY <1>1, <1>3
  <2>2. LengthOf({}) = 0
    BY LengthFacts, FS_EmptySet
  <2>3. a.off = LengthOf({h \in F : h.off < a.off})
    BY DEF NoGaps
  <2> QED
    BY <2>1, <2>2, <2>3
<1>5. End(z) = Total[k]
  <2>1. {h \in F : h.off > z.off} = {}
    BY <1>1, <1>2
  <2>2. ~z.more
    BY <2>1 DEF NoGaps
  <2> QED
    BY <2>2, FragmentFacts
<1>6. LengthOf(F) = Total[k]
  <2> DEFINE Z == {h \in F : h.off < z.off}
  <2>1. F \ {z} = Z
    <3>1. \A e \in F : e.off = z.off => e = z
      BY OffsetsDiffer
    <3> QED
      BY <1>1, <1>2, <3>1
  <2>2. z.off = LengthOf(Z)
    BY DEF NoGaps
  <2>3. LengthOf(F) = z.len + LengthOf(F \ {z})
    BY <1>1, FragsFinite, LengthFacts
  <2> HIDE DEF Z
  <2> QED
    BY <1>1, <1>5, <2>1, <2>2, <2>3
<1>7. ASSUME NEW x \in 0..(Total[k] - 1) PROVE \E g \in F : x \in Units(g)
  <2> DEFINE B == {h \in F : h.off <= x}
             A == {h \in F : h.off > x}
  <2>1. PICK g \in B : \A h \in B : h.off <= g.off
    <3>1. a \in B /\ B \in SUBSET Fragment(k)
      BY <1>4
    <3> QED
      BY <3>1, LastOne
  <2>2. CASE x < End(g)
    BY <1>1, <2>1, <2>2 DEF Units
  <2>3. CASE x >= End(g)
    <3>1. A # {}
      <4>1. CASE z = g
        BY <1>1, <1>5, <2>3, <4>1
      <4>2. CASE z # g
        <5>1. z \in A \/ z \in B
          BY <1>1
        <5>2. z \in B => z.off = g.off
          BY <1>1, <1>2, <2>1
        <5> QED
          BY <4>2, <5>1, <5>2, <2>1, OffsetsDiffer
      <4> QED
        BY <4>1, <4>2
    <3>2. PICK h \in A : \A e \in A : e.off >= h.off
      <4>1. A \in SUBSET Fragment(k)
        OBVIOUS
      <4> QED
        BY <3>1, <4>1, FirstOne
    <3>3. \A e \in F : e.off > g.off => e \in A
      BY <1>1, <2>1
    <3>4. h.off = End(g)
      BY <1>1, <2>1, <3>2, <3>3, NextBegins
    <3> QED
      BY <1>1, <2>1, <2>3, <3>2, <3>4
  <2> QED
    BY <1>1, <2>1, <2>2, <2>3
<1>8. ASSUME NEW g \in F, NEW x \in Units(g) PROVE x \in 0..(Total[k] - 1)
  BY <1>1 DEF Units
<1>9. UNION {Units(f) : f \in F} = 0..(Total[k] - 1)
  BY <1>7, <1>8
<1> QED
  BY <1>4, <1>5, <1>6, <1>9

----------------------------------------------------------------------------
(* One queue.                                                              *)

\* What the congestion mark of a queue says of its fragments.
EcnSound(q) ==
    \A f \in q.frags : (f.ecn = "ce" => q.ecn = "ce") /\ (f.ecn = "notect" => q.ecn = "notect")

\* Once the first fragment is stored no fragment is too far out.
RoomSound(k, q) ==
    /\ q.unfrglen \in {-1, Unfrg[k]}
    /\ (\E f \in q.frags : f.off = 0) =>
          /\ q.unfrglen = Unfrg[k]
          /\ \A g \in q.frags : End(g) + Unfrg[k] <= MaxPacket

Sound(k, q) ==
    /\ q \in Queue(k)
    /\ Disjoint(q.frags)
    /\ EcnSound(q)
    /\ RoomSound(k, q)
    /\ Cardinality(q.frags) <= q.nfrag

LEMMA QueueFields ==
    ASSUME NEW k \in Key, NEW q \in Queue(k)
    PROVE  /\ q.frags \in SUBSET Fragment(k) /\ q.unfrglen \in {-1} \union Nat
           /\ q.ttl \in 1..FragTtl /\ q.nfrag \in Nat /\ q.ecn \in Ecn[k]
           /\ q # NoQueue
  BY QueueAssumption DEF Queue

\* The queue a fragment is held against before it is heard.
Basis(k, f) == IF Found(k) THEN queue[k] ELSE NewQueue(f)

LEMMA BasisSound ==
    ASSUME NEW k \in Key, NEW f \in Fragment(k), Found(k) => Sound(k, queue[k])
    PROVE  Sound(k, Basis(k, f))
<1>1. CASE Found(k)
  BY <1>1 DEF Basis
<1>2. CASE ~Found(k)
  <2> DEFINE q == NewQueue(f)
  <2>1. /\ q.frags = {} /\ q.unfrglen = -1 /\ q.ttl = FragTtl /\ q.nfrag = 0
        /\ q.ecn = f.ecn /\ q \in Queue(k)
    BY Frag6Assumption, FragmentFacts DEF NewQueue, Queue
  <2> HIDE DEF q
  <2>2. Sound(k, q)
    BY <2>1, FS_EmptySet DEF Sound, Disjoint, EcnSound, RoomSound
  <2> QED
    BY <1>2, <2>2 DEF Basis, q
<1> QED
  BY <1>1, <1>2

\* p is q but for fragments taken away and what else was learnt.
Reduced(p, q) == p.frags \subseteq q.frags /\ p.nfrag = q.nfrag /\ p.ttl = q.ttl

(* Fragments taken away, or a length learnt, leave a queue sound.          *)
LEMMA ReducedSound ==
    ASSUME NEW k \in Key, NEW q, Sound(k, q), NEW p \in Queue(k), Reduced(p, q),
           p.ecn = q.ecn, p.unfrglen \in {q.unfrglen, Unfrg[k]}
    PROVE  Sound(k, p)
<1>1. q \in Queue(k) /\ q.frags \in SUBSET Fragment(k) /\ q.nfrag \in Nat
  BY QueueFields DEF Sound
<1>2. IsFiniteSet(q.frags)
  BY <1>1, FragsFinite DEF Sound
<1>3. Cardinality(p.frags) <= p.nfrag
  <2>1. /\ Cardinality(p.frags) <= Cardinality(q.frags) /\ Cardinality(q.frags) <= q.nfrag
        /\ Cardinality(p.frags) \in Nat /\ Cardinality(q.frags) \in Nat
    BY <1>2, FS_Subset, FS_CardinalityType DEF Sound, Reduced
  <2> QED
    BY <1>1, <2>1 DEF Reduced
<1>4. Disjoint(p.frags) /\ EcnSound(p) /\ RoomSound(k, p)
  BY DEF Sound, Disjoint, EcnSound, RoomSound, Reduced
<1> QED
  BY <1>3, <1>4 DEF Sound

LEMMA HeardSound ==
    ASSUME NEW k \in Key, NEW f \in Fragment(k), Found(k) => Sound(k, queue[k])
    PROVE  /\ Sound(k, Heard(k, f)) /\ Reduced(Heard(k, f), Basis(k, f))
           /\ Heard(k, f).frags = Basis(k, f).frags
           /\ f.off = 0 => Heard(k, f).unfrglen = Unfrg[k]
<1> DEFINE b == Basis(k, f)
           q == [b EXCEPT !.unfrglen = Unfrg[k]]
<1>1. Sound(k, b) /\ b \in Queue(k)
  BY BasisSound DEF Sound
<1> HIDE DEF b
<1>2. Unfrg[k] \in Nat
  BY Frag6Assumption
<1>3. /\ q \in Queue(k) /\ q.frags = b.frags /\ q.nfrag = b.nfrag /\ q.ttl = b.ttl
      /\ q.ecn = b.ecn /\ q.unfrglen = Unfrg[k]
  BY <1>1, <1>2 DEF Queue
<1>4. Heard(k, f) = IF f.off = 0 THEN q ELSE b
  BY DEF Heard, Basis, b
<1> HIDE DEF q
<1>5. Sound(k, q)
  BY <1>1, <1>3, ReducedSound DEF Reduced
<1> QED
  BY <1>1, <1>3, <1>4, <1>5 DEF Reduced, b

LEMMA RecheckSound ==
    ASSUME NEW k \in Key, NEW f \in Fragment(k), NEW q, Sound(k, q)
    PROVE  /\ Sound(k, Recheck(q, f)) /\ Reduced(Recheck(q, f), q)
           /\ Recheck(q, f).unfrglen = q.unfrglen /\ Recheck(q, f).ecn = q.ecn
           /\ f.off = 0 => \A g \in Recheck(q, f).frags : ~TooBig(q, g)
<1> DEFINE F == {g \in q.frags : ~TooBig(q, g)}
           p == [q EXCEPT !.frags = F]
<1>1. q \in Queue(k) /\ q.frags \in SUBSET Fragment(k)
  BY QueueFields DEF Sound
<1>2. F \in SUBSET Fragment(k) /\ F \subseteq q.frags
  BY <1>1
<1> HIDE DEF F
<1>3. /\ p \in Queue(k) /\ p.frags = F /\ p.nfrag = q.nfrag /\ p.ttl = q.ttl
      /\ p.ecn = q.ecn /\ p.unfrglen = q.unfrglen
  BY <1>1, <1>2 DEF Queue
<1>4. Recheck(q, f) = IF f.off = 0 THEN p ELSE q
  BY DEF Recheck, F
<1> HIDE DEF p
<1>5. Sound(k, p)
  BY <1>2, <1>3, ReducedSound DEF Reduced
<1>6. Reduced(p, q) /\ Reduced(q, q)
  BY <1>2, <1>3 DEF Reduced
<1>7. \A g \in F : ~TooBig(q, g)
  BY DEF F
<1> QED
  BY <1>3, <1>4, <1>5, <1>6, <1>7

(* The mark of a fragment that mixes with none of the queue's.             *)
LEMMA MarkSound ==
    ASSUME NEW k \in Key, NEW f \in Fragment(k), NEW q, Sound(k, q), ~EcnMixed(q, f)
    PROVE  /\ Sound(k, Mark(q, f)) /\ Reduced(Mark(q, f), q)
           /\ Mark(q, f).frags = q.frags /\ Mark(q, f).unfrglen = q.unfrglen
           /\ f.ecn = "ce" => Mark(q, f).ecn = "ce"
           /\ f.ecn = "notect" => Mark(q, f).ecn = "notect"
<1> DEFINE p == [q EXCEPT !.ecn = "ce"]
<1>1. q \in Queue(k) /\ f.ecn \in Ecn[k]
  BY FragmentFacts DEF Sound
<1>2. CASE f.ecn = "ce"
  <2>1. /\ p \in Queue(k) /\ p.frags = q.frags /\ p.nfrag = q.nfrag /\ p.ttl = q.ttl
        /\ p.ecn = "ce" /\ p.unfrglen = q.unfrglen
    BY <1>1, <1>2 DEF Queue
  <2>2. Mark(q, f) = p
    BY <1>2 DEF Mark
  <2> HIDE DEF p
  <2>3. q.ecn # "notect"
    BY <1>2 DEF EcnMixed
  <2>4. EcnSound(p)
    BY <2>1, <2>3 DEF EcnSound, Sound
  <2>5. Sound(k, p) /\ Reduced(p, q)
    BY <2>1, <2>4 DEF Sound, Disjoint, RoomSound, Reduced
  <2> QED
    BY <1>2, <2>1, <2>2, <2>5
<1>3. CASE f.ecn # "ce"
  <2>1. Mark(q, f) = q
    BY <1>3 DEF Mark
  <2>2. f.ecn = "notect" => q.ecn = "notect"
    BY DEF EcnMixed
  <2> QED
    BY <1>3, <2>1, <2>2 DEF Reduced
<1> QED
  BY <1>2, <1>3

(* A fragment that overlaps none, and is not too far out, takes its place. *)
LEMMA InsertSound ==
    ASSUME NEW k \in Key, NEW f \in Fragment(k), NEW q, Sound(k, q),
           ~Overlaps(q, f), ~TooBig(q, f),
           f.ecn = "ce" => q.ecn = "ce", f.ecn = "notect" => q.ecn = "notect",
           f.off = 0 => /\ q.unfrglen = Unfrg[k]
                        /\ \A g \in q.frags : ~TooBig(q, g)
    PROVE  /\ Sound(k, Insert(q, f)) /\ f \in Insert(q, f).frags
           /\ Insert(q, f).nfrag = q.nfrag + 1 /\ Insert(q, f).ttl = q.ttl
<1> DEFINE F == q.frags \union {f}
           n == q.nfrag + 1
           p == [q EXCEPT !.frags = F, !.nfrag = n]
<1>1. q \in Queue(k) /\ q.frags \in SUBSET Fragment(k) /\ q.nfrag \in Nat
  BY QueueFields DEF Sound
<1>2. F \in SUBSET Fragment(k) /\ n \in Nat
  BY <1>1
<1>3. Insert(q, f) = p
  BY DEF Insert
<1> HIDE DEF n
<1>4. /\ p \in Queue(k) /\ p.frags = F /\ p.nfrag = n /\ p.ttl = q.ttl
      /\ p.ecn = q.ecn /\ p.unfrglen = q.unfrglen
  BY <1>1, <1>2 DEF Queue
<1> HIDE DEF p
<1>5. Disjoint(F)
  <2>1. \A g \in q.frags : Apart(g, f)
    BY <1>1, NeighboursSuffice DEF Sound
  <2> QED
    BY <2>1 DEF Disjoint, Apart, Sound
<1>6. EcnSound(p)
  BY <1>4 DEF EcnSound, Sound
<1>7. RoomSound(k, p)
  <2>1. Unfrg[k] \in Nat /\ q.unfrglen \in {-1, Unfrg[k]} /\ MaxPacket \in Nat
    BY Frag6Assumption DEF Sound, RoomSound
  <2>2. ASSUME NEW z \in F, z.off = 0
        PROVE  q.unfrglen = Unfrg[k] /\ \A g \in F : End(g) + Unfrg[k] <= MaxPacket
    <3>1. \A g \in F : End(g) \in Nat
      BY <1>2, FragmentFacts
    <3>2. q.unfrglen = Unfrg[k]
      BY <2>2 DEF Sound, RoomSound
    <3>3. \A g \in F : ~TooBig(q, g) => End(g) + Unfrg[k] <= MaxPacket
      BY <2>1, <3>1, <3>2 DEF TooBig
    <3>4. \A g \in q.frags : ~TooBig(q, g) \/ End(g) + Unfrg[k] <= MaxPacket
      BY <2>2 DEF Sound, RoomSound
    <3> QED
      BY <3>2, <3>3, <3>4
  <2> QED
    BY <1>4, <2>1, <2>2 DEF RoomSound
<1>8. Cardinality(F) <= n
  <2>1. IsFiniteSet(q.frags)
    BY <1>1, FragsFinite DEF Sound
  <2>2. Cardinality(q.frags) \in Nat /\ Cardinality(q.frags) <= q.nfrag
    BY <2>1, FS_CardinalityType DEF Sound
  <2>3. Cardinality(F) = IF f \in q.frags THEN Cardinality(q.frags)
                         ELSE Cardinality(q.frags) + 1
    <3> DEFINE G == q.frags
    <3> HIDE DEF G
    <3>1. Cardinality(G \cup {f}) = IF f \in G THEN Cardinality(G) ELSE Cardinality(G) + 1
      BY <2>1, FS_AddElement DEF G
    <3> QED
      BY <3>1 DEF G
  <2> QED
    BY <1>1, <2>2, <2>3 DEF n
<1> QED
  BY <1>3, <1>4, <1>5, <1>6, <1>7, <1>8 DEF Sound, n

(* frag6_input up to the insertion.                                        *)
LEMMA EnqueuedSound ==
    ASSUME NEW k \in Key, NEW f \in Fragment(k), Found(k) => Sound(k, queue[k]), Fits(k, f)
    PROVE  LET q == Enqueued(k, f) IN
           /\ Sound(k, q) /\ f \in q.frags
           /\ q.nfrag = Basis(k, f).nfrag + 1 /\ q.ttl = Basis(k, f).ttl
<1> DEFINE h == Heard(k, f)
           r == Recheck(h, f)
           m == Mark(r, f)
<1>1. /\ Sound(k, h) /\ Reduced(h, Basis(k, f))
      /\ f.off = 0 => h.unfrglen = Unfrg[k]
  BY HeardSound
<1>2. ~TooBig(h, f) /\ ~EcnMixed(r, f) /\ ~Overlaps(r, f)
  BY DEF Fits
<1> HIDE DEF h
<1>3. /\ Sound(k, r) /\ Reduced(r, h) /\ r.unfrglen = h.unfrglen
      /\ f.off = 0 => \A g \in r.frags : ~TooBig(h, g)
  BY <1>1, RecheckSound
<1> HIDE DEF r
<1>4. /\ Sound(k, m) /\ Reduced(m, r) /\ m.frags = r.frags /\ m.unfrglen = r.unfrglen
      /\ f.ecn = "ce" => m.ecn = "ce"
      /\ f.ecn = "notect" => m.ecn = "notect"
  BY <1>2, <1>3, MarkSound
<1> HIDE DEF m
<1>5. ~Overlaps(m, f) /\ \A g : TooBig(m, g) <=> TooBig(h, g)
  BY <1>2, <1>3, <1>4 DEF Overlaps, Preceding, Succeeding, TooBig
<1>6. /\ Sound(k, Insert(m, f)) /\ f \in Insert(m, f).frags
      /\ Insert(m, f).nfrag = m.nfrag + 1 /\ Insert(m, f).ttl = m.ttl
  BY <1>1, <1>2, <1>3, <1>4, <1>5, InsertSound
<1> QED
  BY <1>1, <1>3, <1>4, <1>6 DEF Enqueued, Reduced, h, r, m

----------------------------------------------------------------------------
(* The list of queues.                                                     *)

\* The list holds the queues, each once.
Listed(list, q) ==
    /\ DOMAIN q = Key
    /\ list \in Seq(Key) /\ IsInjective(list)
    /\ \A k \in Key : k \notin ToSet(list) <=> q[k] = NoQueue

Sounds(q, keys) == \A k \in keys : Sound(k, q[k])

Ages(list, q) == \A j \in DOMAIN list : \A i \in 1..(j - 1) : q[list[i]].ttl >= q[list[j]].ttl

\* The queues, without the counts and limits.
Queues(list, q) == Listed(list, q) /\ Sounds(q, ToSet(list)) /\ Ages(list, q)

LEMMA ListedFacts ==
    ASSUME NEW list, NEW q, Listed(list, q)
    PROVE  /\ ToSet(list) \in SUBSET Key /\ IsFiniteSet(ToSet(list))
           /\ Cardinality(ToSet(list)) = Len(list) /\ Len(list) \in Nat
           /\ DOMAIN list = 1..Len(list)
           /\ \A i \in DOMAIN list : list[i] \in ToSet(list)
           /\ \A k \in ToSet(list) : \E i \in DOMAIN list : k = list[i]
<1>1. list \in Seq(Key) /\ IsInjective(list)
  BY DEF Listed
<1>2. /\ DOMAIN list = 1..Len(list) /\ Len(list) \in Nat
      /\ \A i \in DOMAIN list : list[i] \in Key
  BY <1>1
<1> QED
  BY <1>1, <1>2, ListSize DEF ToSet

(* Counts depend on the queues counted only, and add up.                   *)
LEMMA CountedSplit ==
    ASSUME NEW K, IsFiniteSet(K), NEW q, \A k \in K : q[k].nfrag \in Nat, NEW R \in SUBSET K
    PROVE  /\ Counted(q, K) \in Nat /\ Counted(q, R) \in Nat
           /\ Counted(q, K) = Counted(q, R) + Counted(q, K \ R)
<1> DEFINE w == [k \in K |-> q[k].nfrag]
<1>1. \A T \in SUBSET K : Counted(q, T) = SumFunctionOnSet(w, T) /\ Counted(q, T) \in Nat
  <2> SUFFICES ASSUME NEW T \in SUBSET K
               PROVE  Counted(q, T) = SumFunctionOnSet(w, T) /\ Counted(q, T) \in Nat
    OBVIOUS
  <2> DEFINE v == [k \in T |-> q[k].nfrag]
  <2>1. IsFiniteSet(T) /\ \A k \in T : w[k] \in Nat /\ v[k] = w[k]
    BY FS_Subset
  <2>2. Counted(q, T) = SumFunctionOnSet(v, T)
    BY DEF Counted
  <2> HIDE DEF v, w
  <2>3. SumFunctionOnSet(v, T) = SumFunctionOnSet(w, T) /\ SumFunctionOnSet(w, T) \in Nat
    BY <2>1, SumSame, SumRemove
  <2> QED
    BY <2>2, <2>3
<1>2. \A k \in K : w[k] \in Nat
  OBVIOUS
<1> HIDE DEF w
<1>3. SumFunctionOnSet(w, K) = SumFunctionOnSet(w, R) + SumFunctionOnSet(w, K \ R)
  BY <1>2, SumSplit
<1>4. K \in SUBSET K /\ (K \ R) \in SUBSET K
  OBVIOUS
<1> QED
  BY <1>1, <1>3, <1>4

LEMMA CountedSame ==
    ASSUME NEW K, IsFiniteSet(K), NEW q, NEW p,
           \A k \in K : q[k].nfrag \in Nat /\ p[k].nfrag = q[k].nfrag
    PROVE  Counted(p, K) = Counted(q, K)
<1> DEFINE w == [k \in K |-> q[k].nfrag]
           v == [k \in K |-> p[k].nfrag]
<1>1. \A k \in K : w[k] \in Nat /\ v[k] = w[k]
  OBVIOUS
<1>2. Counted(q, K) = SumFunctionOnSet(w, K) /\ Counted(p, K) = SumFunctionOnSet(v, K)
  BY DEF Counted
<1> HIDE DEF w, v
<1> QED
  BY <1>1, <1>2, SumSame

LEMMA CountedOne ==
    ASSUME NEW K, IsFiniteSet(K), NEW q, \A k \in K : q[k].nfrag \in Nat, NEW k \in K
    PROVE  Counted(q, K) = q[k].nfrag + Counted(q, K \ {k})
<1> DEFINE w == [l \in K |-> q[l].nfrag]
           L == K \ {k}
           v == [l \in L |-> q[l].nfrag]
<1>1. /\ \A l \in K : w[l] \in Nat
      /\ IsFiniteSet(L) /\ \A l \in L : w[l] \in Nat /\ v[l] = w[l]
      /\ w[k] = q[k].nfrag
  BY FS_RemoveElement
<1>2. Counted(q, K) = SumFunctionOnSet(w, K) /\ Counted(q, L) = SumFunctionOnSet(v, L)
  BY DEF Counted
<1> HIDE DEF w, v
<1>3. SumFunctionOnSet(w, K) = w[k] + SumFunctionOnSet(w, L)
  BY <1>1, SumRemove
<1> HIDE DEF L
<1>4. SumFunctionOnSet(v, L) = SumFunctionOnSet(w, L)
  BY <1>1, SumSame
<1> QED
  BY <1>1, <1>2, <1>3, <1>4 DEF L

(* A queue put back in its place, or made, at the head of the list.        *)
LEMMA StoreKeeps ==
    ASSUME Queues(order, queue), NEW k \in Key, NEW f \in Fragment(k),
           NEW q, Store(k, q), Sound(k, q), q.ttl = Basis(k, f).ttl,
           NEW d \in Nat, q.nfrag = Basis(k, f).nfrag + d
    PROVE  /\ Queues(order, queue)'
           /\ Counted(queue, ToSet(order))' = Counted(queue, ToSet(order)) + d
           /\ nfragpackets \in Nat /\ nfragpackets >= Len(order)
                 => nfragpackets' \in Nat /\ nfragpackets' >= Len(order')
<1>1. Listed(order, queue) /\ Sounds(queue, ToSet(order)) /\ Ages(order, queue)
  BY DEF Queues
<1>2. order \in Seq(Key) /\ IsInjective(order) /\ DOMAIN queue = Key
  BY <1>1 DEF Listed
<1>3. /\ ToSet(order) \in SUBSET Key /\ IsFiniteSet(ToSet(order)) /\ Len(order) \in Nat
      /\ DOMAIN order = 1..Len(order)
      /\ \A i \in DOMAIN order : order[i] \in ToSet(order)
      /\ \A l \in ToSet(order) : \E i \in DOMAIN order : l = order[i]
  BY <1>1, ListedFacts
<1>4. q \in Queue(k) /\ q # NoQueue /\ q.nfrag \in Nat /\ q.ttl \in 1..FragTtl
  BY QueueFields DEF Sound
<1>5. \A l \in ToSet(order) : /\ queue[l] \in Queue(l) /\ queue[l].nfrag \in Nat
                              /\ queue[l].ttl \in 1..FragTtl
  BY <1>1, <1>3, QueueFields DEF Sounds, Sound
<1>6. /\ queue' = [queue EXCEPT ![k] = q]
      /\ order' = IF Found(k) THEN order ELSE <<k>> \o order
      /\ nfragpackets' = nfragpackets + (IF Found(k) THEN 0 ELSE 1)
  BY DEF Store
<1>7. Found(k) <=> k \in ToSet(order)
  BY <1>1 DEF Listed, Found
<1>8. /\ DOMAIN queue' = Key /\ queue'[k] = q
      /\ \A l \in Key \ {k} : queue'[l] = queue[l]
  BY <1>2, <1>6
<1>9. /\ order' \in Seq(Key)
      /\ Len(order') = Len(order) + (IF Found(k) THEN 0 ELSE 1)
      /\ ~Found(k) => order'[1] = k /\ \A i \in 2..Len(order') : order'[i] = order[i - 1]
  BY <1>2, <1>6
<1>10. /\ IsInjective(order') /\ ToSet(order') = ToSet(order) \union {k}
       /\ DOMAIN order' = 1..Len(order')
  <2>1. CASE Found(k)
    BY <1>2, <1>3, <1>6, <1>7, <2>1
  <2>2. CASE ~Found(k)
    <3>1. DOMAIN order' = 1..(Len(order) + 1) /\ Len(order') = Len(order) + 1
      BY <1>9, <2>2
    <3>2. \A i \in 2..Len(order') : order'[i] = order[i - 1] /\ i - 1 \in DOMAIN order
      BY <1>3, <1>9, <2>2, <3>1
    <3>3. \A i \in DOMAIN order : i + 1 \in 2..Len(order') /\ order'[i + 1] = order[i]
      BY <1>3, <1>9, <2>2, <3>1
    <3>4. \A i \in DOMAIN order' : i = 1 \/ i \in 2..Len(order')
      BY <3>1
    <3>5. 1 \in DOMAIN order' /\ \A i \in 2..Len(order') : i \in DOMAIN order' /\ i \in Nat
      BY <1>3, <3>1
    <3>6. ASSUME NEW i \in DOMAIN order', NEW j \in DOMAIN order', order'[i] = order'[j]
          PROVE  i = j
      <4>1. CASE i = 1 /\ j = 1
        BY <4>1
      <4>2. CASE i # 1 /\ j # 1
        <5>1. order[i - 1] = order[j - 1] /\ i - 1 \in DOMAIN order /\ j - 1 \in DOMAIN order
          BY <3>2, <3>4, <3>6, <4>2
        <5>2. i - 1 = j - 1
          BY <1>2, <5>1 DEF IsInjective
        <5> QED
          BY <3>1, <5>2
      <4>3. CASE i = 1 /\ j # 1
        <5>1. order'[j] = order[j - 1] /\ order[j - 1] \in ToSet(order) /\ order'[i] = k
          BY <1>3, <1>9, <2>2, <3>2, <3>4, <4>3
        <5> QED
          BY <1>7, <2>2, <3>6, <5>1
      <4>4. CASE i # 1 /\ j = 1
        <5>1. order'[i] = order[i - 1] /\ order[i - 1] \in ToSet(order) /\ order'[j] = k
          BY <1>3, <1>9, <2>2, <3>2, <3>4, <4>4
        <5> QED
          BY <1>7, <2>2, <3>6, <5>1
      <4> QED
        BY <4>1, <4>2, <4>3, <4>4
    <3>7. ToSet(order') = ToSet(order) \union {k}
      <4>1. ASSUME NEW l \in ToSet(order') PROVE l \in ToSet(order) \union {k}
        <5>1. PICK i \in DOMAIN order' : l = order'[i]
          BY DEF ToSet
        <5>2. CASE i = 1
          BY <1>9, <2>2, <5>1, <5>2
        <5>3. CASE i # 1
          <6>1. l = order[i - 1] /\ order[i - 1] \in ToSet(order)
            BY <1>3, <3>2, <3>4, <5>1, <5>3
          <6> QED
            BY <6>1
        <5> QED
          BY <5>2, <5>3
      <4>2. ASSUME NEW l \in ToSet(order) \union {k} PROVE l \in ToSet(order')
        <5>0. \A i \in DOMAIN order' : order'[i] \in ToSet(order')
          BY DEF ToSet
        <5>1. CASE l = k
          BY <1>9, <2>2, <3>5, <5>0, <5>1
        <5>2. CASE l # k
          <6>1. PICK i \in DOMAIN order : l = order[i]
            BY <1>3, <5>2
          <6> QED
            BY <3>3, <3>5, <5>0, <6>1
        <5> QED
          BY <5>1, <5>2
      <4> QED
        BY <4>1, <4>2
    <3> QED
      BY <3>1, <3>6, <3>7 DEF IsInjective
  <2> QED
    BY <2>1, <2>2
<1>11. Listed(order', queue')
  <2>1. \A l \in Key : l \notin ToSet(order') <=> queue'[l] = NoQueue
    BY <1>1, <1>4, <1>8, <1>10 DEF Listed
  <2> QED
    BY <1>8, <1>9, <1>10, <2>1 DEF Listed
<1>12. Sounds(queue', ToSet(order'))
  BY <1>1, <1>3, <1>8, <1>10 DEF Sounds
<1>13. Ages(order', queue')
  <2>0. FragTtl \in Nat
    BY Frag6Assumption
  <2>1. CASE Found(k)
    <3>1. \A l \in ToSet(order) : queue'[l].ttl = queue[l].ttl
      BY <1>3, <1>8, <2>1 DEF Basis
    <3> QED
      BY <1>1, <1>3, <1>6, <2>1, <3>1 DEF Ages
  <2>2. CASE ~Found(k)
    <3>1. q.ttl = FragTtl
      BY <2>2 DEF Basis, NewQueue
    <3>2. \A l \in ToSet(order) : queue'[l].ttl = queue[l].ttl
      BY <1>3, <1>7, <1>8, <2>2
    <3>3. ASSUME NEW j \in DOMAIN order', NEW i \in 1..(j - 1)
          PROVE  queue'[order'[i]].ttl >= queue'[order'[j]].ttl
      <4>1. j \in 2..Len(order') /\ Len(order') = Len(order) + 1
        BY <1>3, <1>9, <1>10, <2>2, <3>3
      <4>2. order'[j] = order[j - 1] /\ j - 1 \in DOMAIN order /\ order[j - 1] \in ToSet(order)
        BY <1>3, <1>9, <2>2, <4>1
      <4>3. CASE i = 1
        <5>1. order'[i] = k
          BY <1>9, <2>2, <4>3
        <5> QED
          BY <1>5, <1>8, <2>0, <3>1, <3>2, <4>2, <5>1
      <4>4. CASE i # 1
        <5>1. i \in 2..Len(order') /\ i - 1 \in DOMAIN order /\ i - 1 \in 1..((j - 1) - 1)
          BY <1>3, <4>1, <4>4
        <5>2. order'[i] = order[i - 1] /\ order[i - 1] \in ToSet(order)
          BY <1>3, <1>9, <2>2, <5>1
        <5>3. queue[order[i - 1]].ttl >= queue[order[j - 1]].ttl
          BY <1>1, <4>2, <5>1 DEF Ages
        <5> QED
          BY <3>2, <4>2, <5>2, <5>3
      <4> QED
        BY <4>3, <4>4
    <3> QED
      BY <3>3 DEF Ages
  <2> QED
    BY <2>1, <2>2
<1>14. Counted(queue', ToSet(order')) = Counted(queue, ToSet(order)) + d
  <2> DEFINE K == ToSet(order)
             M == ToSet(order')
             R == K \ {k}
  <2>1. /\ IsFiniteSet(M) /\ k \in M /\ M \ {k} = R /\ IsFiniteSet(R)
        /\ \A l \in M : queue'[l].nfrag \in Nat
        /\ \A l \in R : queue[l].nfrag \in Nat /\ queue'[l].nfrag = queue[l].nfrag
    <3>1. IsFiniteSet(M)
      BY <1>3, <1>10, FS_AddElement
    <3>2. IsFiniteSet(R)
      BY <1>3, FS_RemoveElement
    <3> QED
      BY <1>3, <1>4, <1>5, <1>8, <1>10, <3>1, <3>2
  <2>2. \A l \in K : queue[l].nfrag \in Nat
    BY <1>5
  <2> HIDE DEF K, M, R
  <2>3. Counted(queue', M) = q.nfrag + Counted(queue', R)
    BY <1>8, <2>1, CountedOne
  <2>4. Counted(queue', R) = Counted(queue, R) /\ Counted(queue, R) \in Nat
    <3>1. R \in SUBSET R
      OBVIOUS
    <3>2. Counted(queue, R) \in Nat
      BY <2>1, <3>1, CountedSplit
    <3> QED
      BY <2>1, <3>2, CountedSame
  <2>5. Counted(queue, K) = Basis(k, f).nfrag + Counted(queue, R)
    <3>1. CASE Found(k)
      <4>1. Counted(queue, K) = queue[k].nfrag + Counted(queue, K \ {k})
        BY <1>3, <1>7, <2>2, <3>1, CountedOne DEF K
      <4> QED
        BY <3>1, <4>1 DEF Basis, R
    <3>2. CASE ~Found(k)
      <4>1. K = R
        BY <1>7, <3>2 DEF K, R
      <4>2. Basis(k, f).nfrag = 0
        BY <3>2 DEF Basis, NewQueue
      <4> QED
        BY <2>4, <4>1, <4>2
    <3> QED
      BY <3>1, <3>2
  <2>6. Basis(k, f).nfrag \in Nat
    <3>1. CASE Found(k)
      BY <1>5, <1>7, <3>1 DEF Basis
    <3>2. CASE ~Found(k)
      BY <3>2 DEF Basis, NewQueue
    <3> QED
      BY <3>1, <3>2
  <2>7. Counted(queue', M) = Counted(queue, K) + d
    BY <2>3, <2>4, <2>5, <2>6
  <2> QED
    BY <2>7 DEF K, M
<1>15. nfragpackets \in Nat /\ nfragpackets >= Len(order)
          => nfragpackets' \in Nat /\ nfragpackets' >= Len(order')
  BY <1>3, <1>6, <1>9
<1> QED
  BY <1>11, <1>12, <1>13, <1>14, <1>15 DEF Queues

\* frag6_freef for the queues in gone, of queues q.
Removed(q, gone) ==
    /\ queue' = [k \in Key |-> IF k \in gone THEN NoQueue ELSE q[k]]
    /\ order' = Without(order, gone)

LEMMA RemovedKeeps ==
    ASSUME Queues(order, queue), NEW q, NEW gone, Removed(q, gone),
           \A k \in ToSet(order) : q[k].nfrag = queue[k].nfrag,
           \A k \in ToSet(order) \ gone : Sound(k, q[k]),
           \A k \in Key \ ToSet(order) : q[k] = NoQueue,
           Ages(order, q)
    PROVE  /\ Queues(order, queue)'
           /\ Counted(queue, ToSet(order))' = Counted(queue, ToSet(order) \ gone)
           /\ (ToSet(order))' = ToSet(order) \ gone
           /\ Len(order') = Cardinality(ToSet(order) \ gone)
<1>1. Listed(order, queue) /\ Sounds(queue, ToSet(order))
  BY DEF Queues
<1>2. order \in Seq(Key) /\ IsInjective(order)
  BY <1>1 DEF Listed
<1>3. /\ ToSet(order) \in SUBSET Key /\ IsFiniteSet(ToSet(order)) /\ Len(order) \in Nat
      /\ DOMAIN order = 1..Len(order)
      /\ \A i \in DOMAIN order : order[i] \in ToSet(order)
  BY <1>1, ListedFacts
<1>4. /\ queue' = [k \in Key |-> IF k \in gone THEN NoQueue ELSE q[k]]
      /\ order' = Without(order, gone)
  BY DEF Removed
<1>5. /\ order' \in Seq(Key) /\ IsInjective(order')
      /\ (ToSet(order))' = ToSet(order) \ gone
      /\ Keeps(order', order, Len(order), gone)
  BY <1>2, <1>4, WithoutFacts, WithoutKeeps
<1>6. /\ DOMAIN queue' = Key
      /\ \A k \in Key : queue'[k] = IF k \in gone THEN NoQueue ELSE q[k]
  BY <1>4
<1>7. \A k \in (ToSet(order))' : queue'[k] = q[k] /\ Sound(k, q[k])
  BY <1>3, <1>5, <1>6
<1>8. \A k \in (ToSet(order))' : q[k] # NoQueue
  BY <1>3, <1>5, <1>7, QueueFields DEF Sound
<1>9. \A k \in Key : k \notin (ToSet(order))' <=> queue'[k] = NoQueue
  BY <1>5, <1>6, <1>7, <1>8
<1>10. Listed(order, queue)'
  BY <1>5, <1>6, <1>9 DEF Listed
<1>11. Sounds(queue, ToSet(order))'
  BY <1>7 DEF Sounds
<1>12. /\ \A i \in DOMAIN order' : order'[i] \in (ToSet(order))'
       /\ DOMAIN order' = 1..Len(order') /\ Len(order') \in Nat
       /\ Len(order') = Cardinality((ToSet(order))')
  BY <1>10, ListedFacts
<1>13. ASSUME NEW j \in DOMAIN order', NEW i \in 1..(j - 1)
       PROVE  queue'[order'[i]].ttl >= queue'[order'[j]].ttl
  <2>1. i \in DOMAIN order'
    BY <1>12
  <2>2. PICK a \in 1..Len(order), b \in 1..Len(order) :
           a < b /\ order'[i] = order[a] /\ order'[j] = order[b]
    BY <1>5 DEF Keeps
  <2>3. b \in DOMAIN order /\ a \in 1..(b - 1)
    BY <1>3, <2>2
  <2>4. q[order[a]].ttl >= q[order[b]].ttl
    BY <2>3 DEF Ages
  <2>5. queue'[order'[i]] = q[order'[i]] /\ queue'[order'[j]] = q[order'[j]]
    BY <1>7, <1>12, <2>1
  <2> QED
    BY <2>2, <2>4, <2>5
<1>14. Ages(order, queue)'
  BY <1>13 DEF Ages
<1>15. Counted(queue, ToSet(order))' = Counted(queue, ToSet(order) \ gone)
  <2> DEFINE K == ToSet(order) \ gone
             p == queue'
  <2>1. IsFiniteSet(K)
    BY <1>3, FS_Difference
  <2>2. \A k \in K : queue[k].nfrag \in Nat /\ p[k].nfrag = queue[k].nfrag
    BY <1>1, <1>3, <1>5, <1>7, QueueFields DEF Sounds, Sound
  <2> HIDE DEF K, p
  <2>3. Counted(p, K) = Counted(queue, K)
    BY <2>1, <2>2, CountedSame
  <2> QED
    BY <1>5, <2>3 DEF K, p
<1> QED
  BY <1>5, <1>10, <1>11, <1>12, <1>14, <1>15 DEF Queues

IInv ==
    /\ Queues(order, queue)
    /\ nfrags = Counted(queue, ToSet(order))
    /\ nfragpackets \in Nat /\ nfragpackets >= Len(order)
    /\ maxfragpackets \in PacketLimit /\ maxfrags \in FragLimit
    /\ passed # NoPacket => passed.key \in Key
    /\ PassedWhole
    /\ panicked \in BOOLEAN

LEMMA InvFacts ==
    ASSUME IInv
    PROVE  /\ Listed(order, queue)
           /\ \A k \in Key : Found(k) <=> k \in ToSet(order)
           /\ \A k \in Key : Found(k) => Sound(k, queue[k])
           /\ \A k \in ToSet(order) : /\ queue[k] \in Queue(k) /\ queue[k].nfrag \in Nat
                                     /\ queue[k].ttl \in 1..FragTtl
           /\ ToSet(order) \in SUBSET Key /\ IsFiniteSet(ToSet(order)) /\ Len(order) \in Nat
           /\ Cardinality(ToSet(order)) = Len(order)
           /\ DOMAIN order = 1..Len(order) /\ \A i \in DOMAIN order : order[i] \in ToSet(order)
<1>1. Listed(order, queue) /\ Sounds(queue, ToSet(order))
  BY DEF IInv, Queues
<1>2. \A k \in Key : Found(k) <=> k \in ToSet(order)
  BY <1>1 DEF Found, Listed
<1>3. /\ ToSet(order) \in SUBSET Key /\ IsFiniteSet(ToSet(order)) /\ Len(order) \in Nat
      /\ Cardinality(ToSet(order)) = Len(order)
      /\ DOMAIN order = 1..Len(order) /\ \A i \in DOMAIN order : order[i] \in ToSet(order)
  BY <1>1, ListedFacts
<1>4. \A k \in Key : Found(k) => Sound(k, queue[k])
  BY <1>1, <1>2 DEF Sounds
<1>5. \A k \in ToSet(order) : /\ queue[k] \in Queue(k) /\ queue[k].nfrag \in Nat
                              /\ queue[k].ttl \in 1..FragTtl
  BY <1>1, <1>3, QueueFields DEF Sounds, Sound
<1> QED
  BY <1>1, <1>2, <1>3, <1>4, <1>5

(* The properties of the runs follow from the invariant.                   *)
LEMMA InvImplies ==
    ASSUME IInv
    PROVE  FragsDisjoint /\ EcnKept /\ FragsCounted /\ PassedWhole
<1>1. /\ Listed(order, queue)
      /\ \A k \in Key : Found(k) <=> k \in ToSet(order)
      /\ \A k \in Key : Found(k) => Sound(k, queue[k])
      /\ ToSet(order) \in SUBSET Key /\ IsFiniteSet(ToSet(order))
      /\ \A k \in ToSet(order) : queue[k] \in Queue(k) /\ queue[k].nfrag \in Nat
  BY InvFacts
<1>2. nfrags \in Nat
  <2> DEFINE K == ToSet(order)
  <2>1. IsFiniteSet(K) /\ K \in SUBSET K /\ \A k \in K : queue[k].nfrag \in Nat
    BY <1>1
  <2> HIDE DEF K
  <2>2. Counted(queue, K) \in Nat
    BY <2>1, CountedSplit
  <2> QED
    BY <2>2 DEF IInv, K
<1>3. TypeOK
  <2>1. ToSet(order) = {k \in Key : queue[k] # NoQueue}
    BY <1>1 DEF Found
  <2>2. \A k \in Key : queue[k] \in Queue(k) \union {NoQueue}
    BY <1>1 DEF Sound, Found
  <2> QED
    BY <1>1, <1>2, <2>1, <2>2 DEF TypeOK, IInv, Listed
<1>4. ASSUME NEW k \in Key, Found(k), NEW f \in queue[k].frags, NEW g \in queue[k].frags, f # g
      PROVE  Units(f) \cap Units(g) = {}
  <2>1. Sound(k, queue[k])
    BY <1>1, <1>4
  <2>2. f \in Fragment(k) /\ g \in Fragment(k) /\ Apart(f, g)
    BY <1>4, <2>1, QueueFields DEF Sound, Disjoint
  <2> QED
    BY <2>2, ApartUnits
<1>5. EcnKept
  <2> SUFFICES ASSUME NEW k \in Key, Found(k), NEW f \in queue[k].frags, f.ecn = "ce"
               PROVE  queue[k].ecn = "ce" /\ \A g \in queue[k].frags : g.ecn # "notect"
    BY DEF EcnKept
  <2> QED
    BY <1>1 DEF Sound, EcnSound
<1>6. FragsCounted
  BY <1>1 DEF FragsCounted, IInv, Sound
<1> QED
  BY <1>3, <1>4, <1>5, <1>6 DEF FragsDisjoint, IInv

LEMMA InitInv == Init => IInv
<1> SUFFICES ASSUME Init PROVE IInv
  OBVIOUS
<1>1. order = <<>> /\ DOMAIN order = {} /\ Len(order) = 0 /\ ToSet(order) = {}
  BY DEF Init, ToSet
<1>2. Queues(order, queue)
  BY <1>1 DEF Init, Queues, Listed, Sounds, Ages, IsInjective
<1>3. nfrags = Counted(queue, ToSet(order))
  BY <1>1, SumZero DEF Counted, Init
<1>4. PassedWhole /\ passed = NoPacket
  BY DEF Init, PassedWhole
<1>5. nfragpackets \in Nat /\ nfragpackets >= Len(order)
  BY <1>1 DEF Init
<1> QED
  BY <1>2, <1>3, <1>4, <1>5 DEF Init, IInv

LEMMA NothingPassed == ASSUME passed' = NoPacket PROVE PassedWhole' /\ (passed # NoPacket)' = FALSE
  BY DEF PassedWhole

LEMMA NoQueueMemoryInv == ASSUME IInv, NEW k \in Key, NoQueueMemory(k) PROVE IInv'
<1>1. /\ nfragpackets' = nfragpackets + 1 /\ passed' = NoPacket
      /\ UNCHANGED <<queue, order, nfrags, limits, panicked>>
  BY DEF NoQueueMemory
<1>2. Len(order) \in Nat
  BY InvFacts
<1>3. UNCHANGED <<queue, order, nfrags, maxfragpackets, maxfrags, panicked>>
  BY <1>1 DEF limits
<1>4. Queues(order, queue)' /\ Counted(queue, ToSet(order))' = Counted(queue, ToSet(order))
  BY <1>3 DEF IInv
<1> QED
  BY <1>1, <1>2, <1>3, <1>4, NothingPassed DEF IInv

LEMMA SetLimitsInv == ASSUME IInv, SetLimits PROVE IInv'
<1>1. /\ maxfragpackets' \in PacketLimit /\ maxfrags' \in FragLimit /\ passed' = NoPacket
      /\ UNCHANGED <<queue, order, nfrags, nfragpackets, panicked>>
  BY DEF SetLimits, counts
<1>2. Queues(order, queue)' /\ Counted(queue, ToSet(order))' = Counted(queue, ToSet(order))
  BY <1>1 DEF IInv
<1> QED
  BY <1>1, <1>2, NothingPassed DEF IInv

(* A fragment dropped, or stored: its queue is put back, or made.          *)
LEMMA StoreInv ==
    ASSUME IInv, NEW k \in Key, NEW f \in Fragment(k), NEW q, Store(k, q), Sound(k, q),
           q.ttl = Basis(k, f).ttl, NEW d \in Nat, q.nfrag = Basis(k, f).nfrag + d,
           nfrags' = nfrags + d, passed' = NoPacket, UNCHANGED <<limits, panicked>>
    PROVE  IInv'
<1>1. /\ Queues(order, queue)'
      /\ Counted(queue, ToSet(order))' = Counted(queue, ToSet(order)) + d
      /\ nfragpackets' \in Nat /\ nfragpackets' >= Len(order')
  BY StoreKeeps DEF IInv
<1> QED
  BY <1>1, NothingPassed DEF IInv, limits

LEMMA InputDroppedInv ==
    ASSUME IInv, NEW k \in Key, NEW f \in Fragment(k), InputDropped(k, f) PROVE IInv'
<1> DEFINE b == Basis(k, f)
           h == Heard(k, f)
           r == Recheck(h, f)
           m == Mark(r, f)
<1>1. Found(k) => Sound(k, queue[k])
  BY InvFacts
<1>2. Sound(k, h) /\ Reduced(h, b) /\ Sound(k, b)
  BY <1>1, HeardSound, BasisSound
<1>3. /\ nfrags' = nfrags /\ passed' = NoPacket /\ UNCHANGED <<limits, panicked>>
      /\ Store(k, h) \/ Store(k, r) \/ (~EcnMixed(r, f) /\ Store(k, m))
  BY DEF InputDropped
<1> HIDE DEF h
<1>4. Sound(k, r) /\ Reduced(r, h)
  BY <1>2, RecheckSound
<1> HIDE DEF r
<1>5. ~EcnMixed(r, f) => Sound(k, m) /\ Reduced(m, r)
  BY <1>4, MarkSound
<1> HIDE DEF m
<1>6. PICK q : Store(k, q) /\ Sound(k, q) /\ q.ttl = b.ttl /\ q.nfrag = b.nfrag
  BY <1>2, <1>3, <1>4, <1>5 DEF Reduced
<1>7. b.nfrag \in Nat /\ nfrags \in Nat
  <2>1. b.nfrag \in Nat
    BY <1>2, QueueFields DEF Sound
  <2>2. nfrags \in Nat
    BY InvImplies DEF FragsDisjoint, TypeOK
  <2> QED
    BY <2>1, <2>2
<1>8. q.nfrag = b.nfrag + 0 /\ nfrags' = nfrags + 0 /\ 0 \in Nat
  BY <1>3, <1>6, <1>7
<1> QED
  BY <1>3, <1>6, <1>8, StoreInv

LEMMA InputStoredInv ==
    ASSUME IInv, NEW k \in Key, NEW f \in Fragment(k), InputStored(k, f) PROVE IInv'
<1> DEFINE q == Enqueued(k, f)
<1>1. Found(k) => Sound(k, queue[k])
  BY InvFacts
<1>2. /\ Fits(k, f) /\ Store(k, q) /\ nfrags' = nfrags + 1 /\ passed' = NoPacket
      /\ UNCHANGED <<limits, panicked>>
  BY DEF InputStored
<1>3. Sound(k, q) /\ q.nfrag = Basis(k, f).nfrag + 1 /\ q.ttl = Basis(k, f).ttl
  BY <1>1, <1>2, EnqueuedSound
<1> HIDE DEF q
<1> QED
  BY <1>2, <1>3, StoreInv

(* What completes is the whole packet, and no longer than a packet may be. *)
LEMMA CompleteWhole ==
    ASSUME NEW k \in Key, NEW q, Sound(k, q), Complete(q), q.frags # {}
    PROVE  /\ UNION {Units(f) : f \in q.frags} = 0..(Total[k] - 1)
           /\ LengthOf(q.frags) = Total[k]
           /\ Unfrg[k] + Total[k] <= MaxPacket
<1> DEFINE F == q.frags
<1>1. F \in SUBSET Fragment(k) /\ Disjoint(F) /\ F # {}
  BY QueueFields DEF Sound
<1>2. NoGaps(F)
  BY DEF Complete, NoGaps, Succeeding
<1>3. /\ (\E f \in F : f.off = 0) => \A g \in F : End(g) + Unfrg[k] <= MaxPacket
  BY DEF Sound, RoomSound
<1> HIDE DEF F
<1>4. /\ UNION {Units(f) : f \in F} = 0..(Total[k] - 1)
      /\ LengthOf(F) = Total[k]
      /\ \E f \in F : f.off = 0
      /\ \E f \in F : End(f) = Total[k]
  BY <1>1, <1>2, NoGapsWhole
<1>5. Total[k] + Unfrg[k] <= MaxPacket
  BY <1>3, <1>4
<1>6. Total[k] \in Nat /\ Unfrg[k] \in Nat
  BY Frag6Assumption
<1>7. Unfrg[k] + Total[k] <= MaxPacket
  BY <1>5, <1>6
<1> QED
  BY <1>4, <1>7 DEF F

LEMMA InputPassedInv ==
    ASSUME IInv, NEW k \in Key, NEW f \in Fragment(k), NEW split \in BOOLEAN,
           InputPassed(k, f, split)
    PROVE  IInv'
<1> DEFINE q == Enqueued(k, f)
           K == ToSet(order)
<1>1. /\ Found(k) <=> k \in K
      /\ Found(k) => Sound(k, queue[k])
      /\ \A l \in Key : Found(l) <=> l \in K
      /\ \A l \in Key : Found(l) => Sound(l, queue[l])
      /\ \A l \in K : queue[l].nfrag \in Nat
      /\ K \in SUBSET Key /\ IsFiniteSet(K) /\ Len(order) \in Nat /\ Cardinality(K) = Len(order)
      /\ DOMAIN queue = Key
  BY InvFacts DEF Listed
<1>2. /\ Fits(k, f) /\ Complete(q)
      /\ nfrags' = nfrags + 1 - q.nfrag
      /\ passed' = IF split THEN [key |-> k, frags |-> q.frags] ELSE NoPacket
      /\ queue' = [queue EXCEPT ![k] = NoQueue]
      /\ order' = Without(order, {k})
      /\ nfragpackets' = IF Found(k) THEN nfragpackets - 1 ELSE nfragpackets
      /\ UNCHANGED <<limits, panicked>>
  BY DEF InputPassed
<1>3. Sound(k, q) /\ f \in q.frags /\ q.nfrag = Basis(k, f).nfrag + 1
  BY <1>1, <1>2, EnqueuedSound
<1> HIDE DEF q, K
<1>4. PassedWhole' /\ (passed # NoPacket => passed.key \in Key)'
  <2>1. CASE split
    <3>1. passed'.key = k /\ passed'.frags = q.frags
      BY <1>2, <2>1
    <3>2. /\ UNION {Units(g) : g \in q.frags} = 0..(Total[k] - 1)
          /\ LengthOf(q.frags) = Total[k]
          /\ Unfrg[k] + Total[k] <= MaxPacket
      BY <1>2, <1>3, CompleteWhole
    <3> QED
      BY <3>1, <3>2 DEF PassedWhole
  <2>2. CASE ~split
    BY <1>2, <2>2 DEF PassedWhole
  <2> QED
    BY <2>1, <2>2
<1>5. /\ Queues(order, queue)'
      /\ Counted(queue, ToSet(order))' = Counted(queue, K \ {k})
      /\ Len(order') = Cardinality(K \ {k})
  <2>1. Removed(queue, {k})
    BY <1>1, <1>2 DEF Removed
  <2>2. /\ \A l \in ToSet(order) \ {k} : Sound(l, queue[l])
        /\ \A l \in Key \ ToSet(order) : queue[l] = NoQueue
        /\ Ages(order, queue) /\ Queues(order, queue)
    BY <1>1 DEF IInv, Queues, Found, K
  <2> QED
    BY <2>1, <2>2, RemovedKeeps DEF K
<1>6. nfrags = Counted(queue, K) /\ nfragpackets \in Nat /\ nfragpackets >= Len(order)
  BY DEF IInv, K
<1>7. /\ nfrags' = Counted(queue, K \ {k})
      /\ nfragpackets' \in Nat /\ nfragpackets' >= Len(order')
  <2>1. CASE Found(k)
    <3>1. Counted(queue, K) = queue[k].nfrag + Counted(queue, K \ {k})
      BY <1>1, <2>1, CountedOne
    <3>2. Counted(queue, K \ {k}) \in Nat
      BY <1>1, CountedSplit
    <3>3. Cardinality(K \ {k}) = Cardinality(K) - 1 /\ Cardinality(K \ {k}) \in Nat
      BY <1>1, <2>1, FS_RemoveElement, FS_CardinalityType
    <3>4. q.nfrag = queue[k].nfrag + 1 /\ queue[k].nfrag \in Nat
      BY <1>1, <1>3, <2>1 DEF Basis
    <3>5. nfrags' = Counted(queue, K \ {k})
      BY <1>2, <1>6, <3>1, <3>2, <3>4
    <3> QED
      BY <1>1, <1>2, <1>5, <1>6, <2>1, <3>3, <3>5
  <2>2. CASE ~Found(k)
    <3>1. K \ {k} = K
      BY <1>1, <2>2
    <3>2. Counted(queue, K) \in Nat
      BY <1>1, CountedSplit
    <3>3. q.nfrag = 1
      BY <1>3, <2>2 DEF Basis, NewQueue
    <3>4. Counted(queue, K \ {k}) = Counted(queue, K)
      BY <3>1
    <3>5. nfrags' = nfrags
      BY <1>2, <1>6, <3>2, <3>3
    <3>6. nfragpackets' = nfragpackets /\ Len(order') = Len(order)
      BY <1>1, <1>2, <1>5, <2>2, <3>1
    <3> QED
      BY <1>6, <3>4, <3>5, <3>6
  <2> QED
    BY <2>1, <2>2
<1> QED
  BY <1>2, <1>4, <1>5, <1>7 DEF IInv, limits

(* frag6_freef for each of a set of queues.                                *)
LEMMA FreeKeeps ==
    ASSUME IInv, NEW q, NEW gone \in SUBSET ToSet(order), Free(q, gone),
           \A k \in ToSet(order) : q[k].nfrag = queue[k].nfrag,
           \A k \in ToSet(order) \ gone : Sound(k, q[k]),
           \A k \in Key \ ToSet(order) : q[k] = NoQueue,
           Ages(order, q)
    PROVE  /\ Queues(order, queue)'
           /\ nfrags' = Counted(queue, ToSet(order))'
           /\ Len(order') = Cardinality(ToSet(order) \ gone)
<1> DEFINE K == ToSet(order)
<1>1. /\ \A l \in K : queue[l].nfrag \in Nat /\ q[l].nfrag = queue[l].nfrag
      /\ IsFiniteSet(K) /\ gone \in SUBSET K
  BY InvFacts
<1>2. Removed(q, gone) /\ nfrags' = nfrags - Counted(q, gone)
  BY DEF Free, Removed
<1>3. Queues(order, queue) /\ nfrags = Counted(queue, K)
  BY DEF IInv
<1>4. /\ Queues(order, queue)'
      /\ Counted(queue, ToSet(order))' = Counted(queue, K \ gone)
      /\ Len(order') = Cardinality(ToSet(order) \ gone)
  BY <1>2, <1>3, RemovedKeeps
<1> HIDE DEF K
<1>5. /\ Counted(queue, K) = Counted(queue, gone) + Counted(queue, K \ gone)
      /\ Counted(queue, gone) \in Nat
  BY <1>1, CountedSplit
<1>6. Counted(queue, K \ gone) \in Nat
  BY <1>1, CountedSplit
<1>7. Counted(q, gone) = Counted(queue, gone)
  <2>1. IsFiniteSet(gone)
    BY <1>1, FS_Subset
  <2> QED
    BY <1>1, <2>1, CountedSame
<1> QED
  BY <1>2, <1>3, <1>4, <1>5, <1>6, <1>7

LEMMA DrainInv == ASSUME IInv, Drain PROVE IInv'
<1> DEFINE K == ToSet(order)
<1>1. /\ Free(queue, K) /\ nfragpackets' = nfragpackets - Len(order) /\ passed' = NoPacket
      /\ UNCHANGED <<limits, panicked>>
  BY DEF Drain
<1>2. /\ Ages(order, queue) /\ nfragpackets \in Nat /\ nfragpackets >= Len(order)
  BY DEF IInv, Queues
<1>3. Len(order) \in Nat /\ \A k \in Key \ K : queue[k] = NoQueue
  BY InvFacts DEF Found
<1>4. /\ Queues(order, queue)' /\ nfrags' = Counted(queue, ToSet(order))'
      /\ Len(order') = Cardinality(K \ K)
  BY <1>1, <1>2, <1>3, FreeKeeps
<1>5. Len(order') = 0
  <2>1. K \ K = {}
    OBVIOUS
  <2> QED
    BY <1>4, <2>1, FS_EmptySet
<1>6. nfragpackets' \in Nat /\ nfragpackets' >= Len(order')
  BY <1>1, <1>2, <1>3, <1>5
<1> QED
  BY <1>1, <1>4, <1>6, NothingPassed DEF IInv, limits

(* The slow timer: Dead queues are at the end of their time; of those Left *)
(* the last ones, freed many, go for the limit.                            *)
Dead == {k \in ToSet(order) : queue[k].ttl = 1}

Left == Without(order, Dead)

SlowStep(freed, q) ==
    /\ freed \in 0..Len(Left)
    /\ Free(q, Dead \union Overflowing(Left, freed))
    /\ nfragpackets' = nfragpackets - Cardinality(Dead) - freed
    /\ panicked' \in BOOLEAN
    /\ \A k \in ToSet(order) : q[k].nfrag = queue[k].nfrag /\ q[k].ttl = queue[k].ttl - 1
    /\ \A k \in ToSet(order) \ Dead : Sound(k, q[k])
    /\ \A k \in Key \ ToSet(order) : q[k] = NoQueue

LEMMA LeftFacts ==
    ASSUME IInv
    PROVE  /\ Left \in Seq(Key) /\ IsInjective(Left)
           /\ ToSet(Left) = ToSet(order) \ Dead
           /\ Len(Left) \in Nat /\ DOMAIN Left = 1..Len(Left)
           /\ Cardinality(Dead) \in Nat /\ Len(Left) = Len(order) - Cardinality(Dead)
           /\ Keeps(Left, order, Len(order), Dead)
<1>1. order \in Seq(Key) /\ IsInjective(order)
  BY InvFacts DEF Listed
<1>2. /\ Left \in Seq(Key) /\ IsInjective(Left) /\ ToSet(Left) = ToSet(order) \ Dead
      /\ Keeps(Left, order, Len(order), Dead)
  BY <1>1, WithoutFacts, WithoutKeeps DEF Left
<1>3. IsFiniteSet(ToSet(order)) /\ Cardinality(ToSet(order)) = Len(order) /\ Len(order) \in Nat
  BY InvFacts
<1>4. Dead \in SUBSET ToSet(order)
  BY DEF Dead
<1>5. Cardinality(Dead) \in Nat
  BY <1>3, <1>4, FS_Subset, FS_CardinalityType
<1>6. Cardinality(ToSet(order) \ Dead) = Cardinality(ToSet(order)) - Cardinality(Dead)
  <2>1. ToSet(order) \cap Dead = Dead
    BY <1>4
  <2> QED
    BY <1>3, <2>1, FS_Difference
<1>7. Len(Left) = Cardinality(ToSet(Left))
  BY <1>2, ListSize
<1> QED
  BY <1>2, <1>3, <1>5, <1>6, <1>7

LEMMA SlowTimoStep == ASSUME IInv, SlowTimo PROVE \E freed, q : SlowStep(freed, q)
<1> DEFINE ttl == [k \in Key |-> IF Found(k) THEN queue[k].ttl - 1 ELSE 0]
           aged == [k \in Key |-> IF Found(k) THEN [queue[k] EXCEPT !.ttl = ttl[k]] ELSE NoQueue]
           n == nfragpackets - Cardinality(Dead)
           over == IF maxfragpackets < 0 \/ n <= maxfragpackets THEN 0 ELSE n - maxfragpackets
           freed == IF over > Len(Left) THEN Len(Left) ELSE over
<1>1. /\ \A k \in Key : Found(k) <=> k \in ToSet(order)
      /\ \A k \in Key : Found(k) => Sound(k, queue[k])
      /\ ToSet(order) \in SUBSET Key
      /\ \A k \in ToSet(order) : /\ queue[k] \in Queue(k) /\ queue[k].nfrag \in Nat
                                /\ queue[k].ttl \in 1..FragTtl
  BY InvFacts
<1>2. Expired(ttl) = Dead
  <2>1. \A k \in ToSet(order) : ttl[k] = 0 <=> queue[k].ttl = 1
    BY <1>1, Frag6Assumption
  <2> QED
    BY <1>1, <2>1 DEF Expired, Dead
<1>3. /\ Free(aged, Dead \union Overflowing(Left, freed))
      /\ nfragpackets' = n - freed
      /\ panicked' = (over > Len(Left))
  BY <1>2 DEF SlowTimo, Left
<1>4. over \in Nat /\ freed \in 0..Len(Left) /\ n - freed = nfragpackets - Cardinality(Dead) - freed
  <2>1. /\ nfragpackets \in Nat /\ maxfragpackets \in Int
        /\ Cardinality(Dead) \in Nat /\ Len(Left) \in Nat
    BY LeftFacts, Frag6Assumption DEF IInv
  <2> QED
    BY <2>1
<1> HIDE DEF over, freed, n
<1>5. ASSUME NEW k \in ToSet(order)
      PROVE  /\ aged[k].nfrag = queue[k].nfrag /\ aged[k].ttl = queue[k].ttl - 1
             /\ k \notin Dead => Sound(k, aged[k])
  <2> DEFINE t == queue[k].ttl - 1
             p == queue[k]
             a == [p EXCEPT !.ttl = t]
  <2>1. /\ p \in Queue(k) /\ Sound(k, p) /\ aged[k] = a /\ p.ttl \in 1..FragTtl
        /\ p.ttl = 1 <=> k \in Dead
    BY <1>1 DEF Dead
  <2>2. k \notin Dead => t \in 1..FragTtl
    BY <2>1, Frag6Assumption
  <2> HIDE DEF p, t, aged
  <2>3. a.nfrag = p.nfrag /\ a.ttl = t /\ a.frags = p.frags /\ a.ecn = p.ecn
        /\ a.unfrglen = p.unfrglen
    BY <2>1 DEF Queue
  <2>4. k \notin Dead => a \in Queue(k)
    BY <2>1, <2>2 DEF Queue
  <2> HIDE DEF a
  <2>5. k \notin Dead => Sound(k, a)
    BY <2>1, <2>3, <2>4 DEF Sound, EcnSound, RoomSound
  <2> QED
    BY <2>1, <2>3, <2>5 DEF p, t
<1>6. \A k \in Key \ ToSet(order) : aged[k] = NoQueue
  BY <1>1
<1>7. panicked' \in BOOLEAN
  BY <1>3
<1>8. SlowStep(freed, aged)
  <2> HIDE DEF aged
  <2> QED
    BY <1>3, <1>4, <1>5, <1>6, <1>7 DEF SlowStep
<1> QED
  BY <1>8

(* The tail of a list.                                                     *)
LEMMA OverflowingIs ==
    ASSUME NEW S, NEW s \in Seq(S), NEW n \in 0..Len(s)
    PROVE  \A x : x \in Overflowing(s, n) <=> \E i \in (Len(s) - n + 1)..Len(s) : x = s[i]
<1> DEFINE a == Len(s) - n + 1
           t == SubSeq(s, a, Len(s))
<1>1. /\ Len(s) \in Nat /\ a \in 1..(Len(s) + 1) /\ DOMAIN t = 1..n
      /\ \A i \in 1..n : t[i] = s[a + i - 1]
  OBVIOUS
<1>2. Overflowing(s, n) = {t[i] : i \in 1..n}
  BY <1>1 DEF Overflowing, ToSet
<1>3. \A i \in 1..n : a + i - 1 \in a..Len(s)
  BY <1>1
<1>4. \A i \in a..Len(s) : i - a + 1 \in 1..n /\ a + (i - a + 1) - 1 = i
  BY <1>1
<1> HIDE DEF a, t
<1>5. ASSUME NEW x \in Overflowing(s, n) PROVE \E i \in a..Len(s) : x = s[i]
  BY <1>1, <1>2, <1>3
<1>6. ASSUME NEW i \in a..Len(s) PROVE s[i] \in Overflowing(s, n)
  <2>1. t[i - a + 1] = s[i] /\ i - a + 1 \in 1..n
    BY <1>1, <1>4
  <2> QED
    BY <1>2, <2>1
<1> QED
  BY <1>5, <1>6 DEF a

LEMMA SlowTimoInv == ASSUME IInv, SlowTimo PROVE IInv'
<1>1. PICK freed, q : SlowStep(freed, q)
  BY SlowTimoStep
<1>2. passed' = NoPacket /\ UNCHANGED limits
  BY DEF SlowTimo
<1> DEFINE gone == Dead \union Overflowing(Left, freed)
           rest == {Left[i] : i \in 1..(Len(Left) - freed)}
<1>3. /\ Left \in Seq(Key) /\ ToSet(Left) = ToSet(order) \ Dead
      /\ Len(Left) \in Nat /\ DOMAIN Left = 1..Len(Left)
      /\ Cardinality(Dead) \in Nat /\ Len(Left) = Len(order) - Cardinality(Dead)
      /\ freed \in 0..Len(Left)
  BY <1>1, LeftFacts DEF SlowStep
<1>4. \A x : x \in Overflowing(Left, freed)
              <=> \E i \in (Len(Left) - freed + 1)..Len(Left) : x = Left[i]
  BY <1>3, OverflowingIs
<1>5. gone \in SUBSET ToSet(order)
  <2>1. \A i \in (Len(Left) - freed + 1)..Len(Left) : i \in DOMAIN Left
    BY <1>3
  <2>2. \A i \in DOMAIN Left : Left[i] \in ToSet(order)
    BY <1>3 DEF ToSet
  <2> QED
    BY <1>4, <2>1, <2>2 DEF Dead
<1>6. \A k \in ToSet(order) : queue[k].ttl \in 1..FragTtl
  BY InvFacts
<1>7. Ages(order, q)
  <2>1. \A i \in DOMAIN order : q[order[i]].ttl = queue[order[i]].ttl - 1
                                /\ queue[order[i]].ttl \in Nat
    BY <1>1, <1>6, InvFacts DEF SlowStep
  <2>2. Ages(order, queue) /\ DOMAIN order = 1..Len(order) /\ Len(order) \in Nat
    BY InvFacts DEF IInv, Queues
  <2>3. \A j \in DOMAIN order : \A i \in 1..(j - 1) : i \in DOMAIN order
    BY <2>2
  <2> QED
    BY <2>1, <2>2, <2>3 DEF Ages
<1>8. /\ Queues(order, queue)' /\ nfrags' = Counted(queue, ToSet(order))'
      /\ Len(order') = Cardinality(ToSet(order) \ gone)
  <2>1. /\ Free(q, gone)
        /\ \A k \in ToSet(order) : q[k].nfrag = queue[k].nfrag
        /\ \A k \in ToSet(order) \ gone : Sound(k, q[k])
        /\ \A k \in Key \ ToSet(order) : q[k] = NoQueue
    BY <1>1 DEF SlowStep
  <2> HIDE DEF gone
  <2> QED
    BY <1>5, <1>7, <2>1, FreeKeeps
<1>9. Cardinality(ToSet(order) \ gone) <= Len(Left) - freed
  <2> DEFINE m == Len(Left) - freed
             at == [i \in 1..m |-> Left[i]]
  <2>0. m \in Nat
    BY <1>3
  <2>1. m \in Nat /\ IsFiniteSet(1..m) /\ Cardinality(1..m) = m
    <3> HIDE DEF m
    <3> QED
      BY <2>0, FS_Interval
  <2>2. at \in Surjection(1..m, rest)
    BY DEF Surjection
  <2> HIDE DEF at, rest
  <2>3. IsFiniteSet(rest) /\ Cardinality(rest) <= m
    BY <2>1, <2>2, FS_Surjection
  <2>4. ASSUME NEW k \in ToSet(order) \ gone PROVE k \in rest
    <3>1. k \in ToSet(Left) /\ k \notin Overflowing(Left, freed)
      BY <1>3, <2>4
    <3>2. PICK i \in DOMAIN Left : k = Left[i]
      BY <3>1 DEF ToSet
    <3>3. i \notin (Len(Left) - freed + 1)..Len(Left)
      BY <1>4, <3>1, <3>2
    <3>4. i \in 1..m
      BY <1>3, <3>2, <3>3
    <3> QED
      BY <3>2, <3>4 DEF rest
  <2>5. ToSet(order) \ gone \in SUBSET rest
    BY <2>4
  <2> HIDE DEF gone, m
  <2>6. Cardinality(ToSet(order) \ gone) <= Cardinality(rest) /\ Cardinality(rest) \in Nat
        /\ Cardinality(ToSet(order) \ gone) \in Nat
    BY <2>3, <2>5, FS_Subset, FS_CardinalityType
  <2> QED
    BY <2>1, <2>3, <2>6 DEF m
<1>10. nfragpackets' \in Nat /\ nfragpackets' >= Len(order')
  <2>1. /\ nfragpackets' = nfragpackets - Cardinality(Dead) - freed
        /\ nfragpackets \in Nat /\ nfragpackets >= Len(order) /\ Len(order) \in Nat
    BY <1>1, InvFacts DEF SlowStep, IInv
  <2>2. Len(order') \in Nat
    BY <1>8, ListedFacts DEF Queues
  <2> HIDE DEF gone
  <2> QED
    BY <1>3, <1>8, <1>9, <2>1, <2>2
<1>11. panicked' \in BOOLEAN
  BY <1>1 DEF SlowStep
<1> QED
  BY <1>2, <1>8, <1>10, <1>11, NothingPassed DEF IInv, limits

LEMMA NextInv == IInv /\ [Next]_vars => IInv'
<1> SUFFICES ASSUME IInv, [Next]_vars PROVE IInv'
  OBVIOUS
<1>1. ASSUME NEW k \in Key, Input(k) PROVE IInv'
  <2>1. CASE NoQueueMemory(k)
    BY <2>1, NoQueueMemoryInv
  <2>2. ASSUME NEW f \in Fragment(k), InputDropped(k, f) PROVE IInv'
    BY <2>2, InputDroppedInv
  <2>3. ASSUME NEW f \in Fragment(k), InputStored(k, f) PROVE IInv'
    BY <2>3, InputStoredInv
  <2>4. ASSUME NEW f \in Fragment(k), NEW split \in BOOLEAN, InputPassed(k, f, split) PROVE IInv'
    BY <2>4, InputPassedInv
  <2> QED
    BY <1>1, <2>1, <2>2, <2>3, <2>4 DEF Input
<1>2. CASE SlowTimo
  BY <1>2, SlowTimoInv
<1>3. CASE Drain
  BY <1>3, DrainInv
<1>4. CASE SetLimits
  BY <1>4, SetLimitsInv
<1>5. CASE UNCHANGED vars
  <2>1. UNCHANGED <<queue, order, nfrags, nfragpackets, maxfragpackets, maxfrags, passed, panicked>>
    BY <1>5 DEF vars, counts, limits
  <2>2. Queues(order, queue)' /\ Counted(queue, ToSet(order))' = Counted(queue, ToSet(order))
    BY <2>1 DEF IInv
  <2>3. PassedWhole'
    BY <2>1 DEF IInv, PassedWhole
  <2> QED
    BY <2>1, <2>2, <2>3 DEF IInv
<1> QED
  BY <1>1, <1>2, <1>3, <1>4, <1>5 DEF Next

LEMMA FragInv == Spec => []IInv
  BY InitInv, NextInv, PTL DEF Spec

(* No two stored fragments of a packet share an octet, however the sender  *)
(* cut the packet and in whatever order the fragments came in, although    *)
(* frag6_input compares a new one with its two neighbours only.            *)
THEOREM Frag6Disjoint == Spec => []FragsDisjoint
  BY FragInv, InvImplies, PTL

(* What is handed up is one whole packet, no longer than IPV6_MAXPACKET.   *)
THEOREM Frag6Whole == Spec => []PassedWhole
  BY FragInv, InvImplies, PTL

(* A queue has the congestion mark of every fragment it holds.             *)
THEOREM Frag6EcnKept == Spec => []EcnKept
  BY FragInv, InvImplies, PTL

(* frag6_nfrags is what the queues count, and they count all they hold.    *)
THEOREM Frag6Counted == Spec => []FragsCounted
  BY FragInv, InvImplies, PTL

(* When the slow timer frees a queue it frees all older ones with it.      *)
THEOREM Frag6OldestFirst == Spec => OldestFirst
<1> DEFINE A == SlowTimo => \A i, j \in DOMAIN order :
                   i < j /\ queue'[order[i]] = NoQueue => queue'[order[j]] = NoQueue
<1>1. ASSUME IInv, SlowTimo, NEW i \in DOMAIN order, NEW j \in DOMAIN order,
             i < j, queue'[order[i]] = NoQueue
      PROVE  queue'[order[j]] = NoQueue
  <2>1. PICK freed, q : SlowStep(freed, q)
    BY <1>1, SlowTimoStep
  <2> DEFINE over == Overflowing(Left, freed)
             x == order[i]
             y == order[j]
  <2>2. /\ DOMAIN order = 1..Len(order) /\ Len(order) \in Nat
        /\ x \in ToSet(order) /\ y \in ToSet(order) /\ ToSet(order) \in SUBSET Key
        /\ \A k \in ToSet(order) : queue[k].ttl \in 1..FragTtl
    BY <1>1, InvFacts
  <2>3. \A k \in Key : queue'[k] = IF k \in Dead \union over THEN NoQueue ELSE q[k]
    BY <2>1 DEF SlowStep, Free
  <2>4. x \in Dead \union over
    <3>1. \A k \in ToSet(order) \ Dead : q[k] # NoQueue
      BY <2>1, <2>2, QueueFields DEF SlowStep, Sound
    <3> QED
      BY <1>1, <2>2, <2>3, <3>1
  <2>5. CASE x \in Dead
    <3>1. queue[x].ttl >= queue[y].ttl
      BY <1>1, <2>2 DEF IInv, Queues, Ages
    <3>2. y \in Dead
      BY <2>2, <2>5, <3>1, Frag6Assumption DEF Dead
    <3> QED
      BY <2>2, <2>3, <3>2
  <2>6. CASE x \notin Dead /\ y \notin Dead
    <3>1. /\ Left \in Seq(Key) /\ IsInjective(Left) /\ Len(Left) \in Nat
          /\ DOMAIN Left = 1..Len(Left) /\ Keeps(Left, order, Len(order), Dead)
          /\ freed \in 0..Len(Left)
      BY <1>1, <2>1, LeftFacts DEF SlowStep
    <3>2. j \in 1..Len(order) /\ i \in 1..(j - 1)
      BY <1>1, <2>2
    <3>3. PICK a \in DOMAIN Left, b \in DOMAIN Left : a < b /\ Left[a] = x /\ Left[b] = y
      BY <2>6, <3>1, <3>2 DEF Keeps
    <3>4. \A z : z \in over <=> \E m \in (Len(Left) - freed + 1)..Len(Left) : z = Left[m]
      BY <3>1, OverflowingIs
    <3>5. x \in over
      BY <2>4, <2>6
    <3>6. PICK m \in (Len(Left) - freed + 1)..Len(Left) : x = Left[m]
      BY <3>4, <3>5
    <3>7. m \in DOMAIN Left /\ m = a
      BY <3>1, <3>3, <3>6 DEF IsInjective
    <3>8. b \in (Len(Left) - freed + 1)..Len(Left)
      BY <3>1, <3>3, <3>6, <3>7
    <3>9. y \in over
      BY <3>3, <3>4, <3>8
    <3> QED
      BY <2>2, <2>3, <3>9
  <2>7. CASE y \in Dead
    BY <2>2, <2>3, <2>7
  <2> QED
    BY <2>5, <2>6, <2>7
<1>2. IInv /\ [Next]_vars => [A]_vars
  BY <1>1
<1> QED
  BY <1>2, FragInv, PTL DEF Spec, OldestFirst

=============================================================================
