------------------------- MODULE ReplayWindowProofs ------------------------
(***************************************************************************)
(* Proofs about ReplayWindow for bytes of any width, windows of any size   *)
(* and sequence numbers and counts of any range: the window lets through   *)
(* exactly what it should, and nothing twice.  A bitmap is described by    *)
(* the set of distances from lastseq whose bits are set, so that vshiftl   *)
(* adds its argument to each element of a set.                             *)
(***************************************************************************)
EXTENDS ReplayWindow, FoldProofs

----------------------------------------------------------------------------
(* Numbers.                                                                *)

LEMMA Division ==
    ASSUME NEW n \in Nat, NEW B \in Nat \ {0}
    PROVE  /\ n \div B \in Nat /\ n % B \in 0..(B - 1) /\ n % B <= n
           /\ n = (n \div B) * B + (n % B)
           /\ n # 0 /\ n % B = 0 => B <= n
  OBVIOUS

LEMMA Multiples ==
    ASSUME NEW j \in Nat, NEW k \in Nat, NEW B \in Nat
    PROVE  j * B \in Nat /\ (j < k => j * B + B <= k * B)
  OBVIOUS

LEMMA Digits ==
    ASSUME NEW j \in Nat, NEW k \in Nat, NEW B \in Nat \ {0},
           NEW b \in 0..(B - 1), NEW c \in 0..(B - 1), j * B + b = k * B + c
    PROVE  j = k /\ b = c
<1>1. ~ j < k /\ ~ k < j
  BY Multiples
<1> QED
  BY <1>1

----------------------------------------------------------------------------
(* The bits.                                                               *)

\* The distance from lastseq that bit b of byte i stands for.
Pos(i, b) == (Frlast - i) * ByteBits + b

LEMMA Width == ByteBits \in Nat \ {0} /\ WSize \in Nat /\ Wsizeb \in Nat /\ (WSize # 0 => 0 < Wsizeb)
<1>1. ByteBits \in Nat \ {0} /\ WSize \in Nat
  BY ReplayAssumption
<1>2. WSize * ByteBits \in Nat /\ (0 < WSize => 0 * ByteBits + ByteBits <= WSize * ByteBits)
  BY <1>1, Multiples
<1> QED
  BY <1>1, <1>2 DEF Wsizeb

LEMMA PosFacts ==
    ASSUME NEW i \in Byte, NEW b \in Bit
    PROVE  /\ Pos(i, b) \in Nat /\ Pos(i, b) < Wsizeb
           /\ Fr(Pos(i, b)) = i /\ Pos(i, b) % ByteBits = b
<1> DEFINE k == Frlast - i
           d == Pos(i, b)
<1>1. k \in Nat /\ k < WSize /\ i \in Int /\ Frlast \in Int
  BY Width DEF Byte, Frlast
<1>2. b \in 0..(ByteBits - 1)
  BY DEF Bit
<1>3. d = k * ByteBits + b
  BY DEF Pos
<1> HIDE DEF k, d
<1>4. d \in Nat /\ d < Wsizeb
  BY <1>1, <1>2, <1>3, Width, Multiples DEF Wsizeb
<1>5. d \div ByteBits = k /\ d % ByteBits = b
  <2> DEFINE q == d \div ByteBits
             r == d % ByteBits
  <2>1. q \in Nat /\ r \in 0..(ByteBits - 1) /\ d = q * ByteBits + r
    BY <1>4, Width, Division
  <2> HIDE DEF q, r
  <2>2. q = k /\ r = b
    BY <1>1, <1>2, <1>3, <2>1, Width, Digits
  <2> QED
    BY <2>2 DEF q, r
<1>6. Fr(d) = i
  BY <1>1, <1>5 DEF Fr, k
<1> QED
  BY <1>4, <1>5, <1>6 DEF d

LEMMA FrFacts ==
    ASSUME NEW d \in Nat, d < Wsizeb
    PROVE  Fr(d) \in Byte /\ d % ByteBits \in Bit /\ Pos(Fr(d), d % ByteBits) = d
<1> DEFINE k == d \div ByteBits
<1>1. k \in Nat /\ d % ByteBits \in 0..(ByteBits - 1) /\ d = k * ByteBits + (d % ByteBits)
  BY Width, Division
<1> HIDE DEF k
<1>2. k < WSize
  BY <1>1, Width, Multiples DEF Wsizeb
<1>3. Fr(d) = Frlast - k
  BY DEF Fr, k
<1> QED
  BY <1>1, <1>2, <1>3, Width DEF Byte, Bit, Frlast, Pos

\* The bits of m that are set are those of the distances in Q.
Shows(m, Q) ==
    /\ m \in [Byte -> [Bit -> BOOLEAN]]
    /\ \A i \in Byte, b \in Bit : m[i][b] <=> Pos(i, b) \in Q

LEMMA ShowsSame ==
    ASSUME NEW m, NEW Q, NEW R, Shows(m, Q),
           \A d \in Nat : d < Wsizeb => (d \in Q <=> d \in R)
    PROVE  Shows(m, R)
  BY PosFacts DEF Shows

LEMMA ShowsOne ==
    ASSUME NEW m, NEW n, NEW Q, Shows(m, Q), Shows(n, Q)
    PROVE  m = n
<1>1. ASSUME NEW i \in Byte PROVE m[i] = n[i]
  <2>1. \A b \in Bit : m[i][b] = n[i][b]
    BY DEF Shows
  <2> QED
    BY <2>1 DEF Shows
<1> QED
  BY <1>1 DEF Shows

LEMMA BlankShows == Shows(Blank, {})
  BY DEF Shows, Blank

Plane(Q) == [i \in Byte |-> [b \in Bit |-> IF Pos(i, b) \in Q THEN TRUE ELSE FALSE]]

LEMMA PlaneShows == ASSUME NEW Q PROVE Shows(Plane(Q), Q)
  BY DEF Shows, Plane

LEMMA SetShows ==
    ASSUME NEW m, NEW Q, Shows(m, Q), NEW d \in Nat, d < Wsizeb
    PROVE  Shows(Set(m, d), Q \union {d})
<1> DEFINE i0 == Fr(d)
           b0 == d % ByteBits
<1>1. i0 \in Byte /\ b0 \in Bit /\ Pos(i0, b0) = d
  BY FrFacts
<1>2. \A i \in Byte, b \in Bit : Pos(i, b) = d => i = i0 /\ b = b0
  BY PosFacts
<1>3. Set(m, d) = [m EXCEPT ![i0][b0] = TRUE]
  BY DEF Set
<1> HIDE DEF i0, b0
<1>4. Set(m, d) \in [Byte -> [Bit -> BOOLEAN]]
  BY <1>1, <1>3 DEF Shows
<1>5. \A i \in Byte, b \in Bit : Set(m, d)[i][b] <=> (i = i0 /\ b = b0) \/ m[i][b]
  BY <1>1, <1>3 DEF Shows
<1> QED
  BY <1>1, <1>2, <1>4, <1>5 DEF Shows

----------------------------------------------------------------------------
(* vshiftl                                                                 *)

Plus(Q, n) == {q + n : q \in Q}

LEMMA PlusIn == ASSUME NEW Q \in SUBSET Nat, NEW n \in Nat, NEW d \in Int
                PROVE  d \in Plus(Q, n) <=> d - n \in Q
  BY DEF Plus

LEMMA ShiftBytesShows ==
    ASSUME NEW m, NEW Q \in SUBSET Nat, Shows(m, Q), NEW s \in 1..ByteBits
    PROVE  Shows(ShiftBytes(m, s), Plus(Q, s))
<1>1. ASSUME NEW i \in Byte, NEW b \in Bit
      PROVE  /\ ShiftBytes(m, s)[i][b] \in BOOLEAN
             /\ ShiftBytes(m, s)[i][b] <=> Pos(i, b) - s \in Q
  <2>1. /\ b \in Int /\ 0 <= b /\ b < ByteBits /\ i \in Int /\ 0 <= i /\ i <= Frlast
        /\ ByteBits \in Nat /\ Frlast \in Int /\ s \in Nat
    BY Width DEF Byte, Bit, Frlast
  <2>2. Pos(i, b) \in Nat
    BY PosFacts
  <2>3. CASE b >= s
    <3>1. ShiftBytes(m, s)[i][b] = m[i][b - s] /\ b - s \in Bit
      BY <2>1, <2>3 DEF ShiftBytes, Bit
    <3>2. Pos(i, b - s) = Pos(i, b) - s
      <4> DEFINE p == (Frlast - i) * ByteBits
      <4>1. p \in Int
        BY <2>1
      <4> HIDE DEF p
      <4>2. p + (b - s) = (p + b) - s
        BY <2>1, <4>1
      <4> QED
        BY <4>2 DEF p, Pos
    <3> QED
      BY <3>1, <3>2 DEF Shows
  <2>4. CASE ~(b >= s) /\ i < Frlast
    <3>2. i + 1 \in Byte /\ b - s + ByteBits \in Bit
      BY <2>1, <2>4 DEF Byte, Bit, Frlast
    <3>1. /\ ShiftBytes(m, s)[i][b] \in BOOLEAN
          /\ ShiftBytes(m, s)[i][b] <=> m[i + 1][b - s + ByteBits]
      <4> DEFINE over == m[i + 1][b - s + ByteBits]
      <4>1. over \in BOOLEAN
        BY <3>2 DEF Shows
      <4>2. ShiftBytes(m, s)[i][b] = (IF b >= s THEN m[i][b - s] ELSE i < Frlast /\ over)
        BY Zenon DEF ShiftBytes
      <4> HIDE DEF over
      <4>3. ShiftBytes(m, s)[i][b] = (i < Frlast /\ over)
        BY <2>4, <4>2, Zenon
      <4> QED
        BY <2>4, <4>1, <4>3 DEF over
    <3>3. Pos(i + 1, b - s + ByteBits) = Pos(i, b) - s
      <4> DEFINE p == (Frlast - i) * ByteBits
      <4>1. p \in Int /\ (Frlast - (i + 1)) * ByteBits = p - ByteBits
        BY <2>1
      <4> HIDE DEF p
      <4>2. (p - ByteBits) + (b - s + ByteBits) = (p + b) - s
        BY <2>1, <4>1
      <4> QED
        BY <4>1, <4>2 DEF p, Pos
    <3> QED
      BY <3>1, <3>2, <3>3 DEF Shows
  <2>5. CASE ~(b >= s) /\ ~(i < Frlast)
    <3>1. ShiftBytes(m, s)[i][b] = FALSE
      BY <2>1, <2>5 DEF ShiftBytes
    <3>2. Pos(i, b) - s \notin Nat
      BY <2>1, <2>5 DEF Pos
    <3> QED
      BY <3>1, <3>2
  <2> QED
    BY <2>3, <2>4, <2>5
<1>2. ShiftBytes(m, s) \in [Byte -> [Bit -> BOOLEAN]]
  BY <1>1 DEF ShiftBytes
<1>3. \A i \in Byte, b \in Bit : Pos(i, b) \in Plus(Q, s) <=> Pos(i, b) - s \in Q
  BY PosFacts, PlusIn, Width
<1> QED
  BY <1>1, <1>2, <1>3 DEF Shows

\* The function VShiftL computes.
Shifts(f, m, nbit) ==
    f = [n \in 0..nbit |->
            IF n = 0 THEN m ELSE ShiftBytes(f[n - LastRound(n)], LastRound(n))]

LEMMA RoundFacts ==
    ASSUME NEW n \in Nat, n # 0
    PROVE  LastRound(n) \in 1..ByteBits /\ n - LastRound(n) \in 0..(n - 1)
<1>1. n % ByteBits \in 0..(ByteBits - 1) /\ n % ByteBits <= n /\ (n % ByteBits = 0 => ByteBits <= n)
  BY Width, Division
<1> QED
  BY <1>1, Width DEF LastRound
LEMMA VShiftLShows ==
    ASSUME NEW m, NEW Q \in SUBSET Nat, Shows(m, Q), NEW nbit \in Nat
    PROVE  Shows(VShiftL(m, nbit), Plus(Q, nbit))
<1> DEFINE Good(g, n) == Shows(g[n], Plus(Q, n))
<1>0. Shows(m, Plus(Q, 0))
  <2>1. \A q \in Q : q + 0 = q
    OBVIOUS
  <2>2. Plus(Q, 0) = Q
    BY <2>1, Zenon DEF Plus
  <2> QED
    BY <2>2
<1>1. ASSUME NEW n \in Nat, n # 0, NEW u, Shows(u, Plus(Q, n - LastRound(n)))
      PROVE  Shows(ShiftBytes(u, LastRound(n)), Plus(Q, n))
  <2> DEFINE s == LastRound(n)
             R == Plus(Q, n - s)
  <2>1. s \in 1..ByteBits /\ n - s \in Nat
    BY <1>1, RoundFacts
  <2> HIDE DEF s
  <2>2. R \in SUBSET Nat
    BY <2>1 DEF Plus
  <2>3. Plus(R, s) = Plus(Q, n)
    <3>1. \A q \in Q : (q + (n - s)) + s = q + n
      BY <2>1
    <3>2. R = {q + (n - s) : q \in Q}
      BY DEF Plus
    <3> HIDE DEF R
    <3>3. \A x : x \in Plus(R, s) <=> \E q \in Q : x = (q + (n - s)) + s
      BY <3>2, Zenon DEF Plus
    <3>4. \A x : x \in Plus(R, s) <=> x \in Plus(Q, n)
      <4>1. \A x : x \in Plus(Q, n) <=> \E q \in Q : x = q + n
        BY Zenon DEF Plus
      <4> QED
        BY <3>1, <3>3, <4>1
    <3> QED
      BY <3>4
  <2>4. Shows(u, R)
    BY <1>1 DEF s
  <2> HIDE DEF R
  <2>5. Shows(ShiftBytes(u, s), Plus(R, s))
    BY <2>1, <2>2, <2>4, ShiftBytesShows
  <2> QED
    BY <2>3, <2>5 DEF s
<1>2. ASSUME NEW f, Shifts(f, m, nbit), NEW n \in 0..nbit
      PROVE  Good(f, n)
  <2> DEFINE T == {k \in 0..nbit : ~ Good(f, k)}
  <2> SUFFICES ASSUME T # {} PROVE FALSE
    OBVIOUS
  <2>0. T \in SUBSET Nat
    OBVIOUS
  <2> HIDE DEF T
  <2>1. PICK k \in T : \A j \in T : k <= j
    BY <2>0, NatLeast
  <2>2. k \in Nat /\ k \in 0..nbit /\ ~ Good(f, k)
    BY <2>0, <2>1 DEF T
  <2>3. k # 0
    BY <1>0, <1>2, <2>2 DEF Shifts
  <2>4. k - LastRound(k) \in 0..nbit /\ k - LastRound(k) \notin T
    BY <2>1, <2>2, <2>3, RoundFacts
  <2>5. Shows(f[k - LastRound(k)], Plus(Q, k - LastRound(k)))
    BY <2>4 DEF T
  <2>6. f[k] = ShiftBytes(f[k - LastRound(k)], LastRound(k))
    BY <1>2, <2>2, <2>3, Zenon DEF Shifts
  <2> QED
    BY <1>1, <2>2, <2>3, <2>5, <2>6
<1>3. \E f : Shifts(f, m, nbit)
  <2> DEFINE P(n) == Plane(Plus(Q, n))
             g == [n \in 0..nbit |-> P(n)]
  <2>1. ASSUME NEW n \in 0..nbit PROVE Shows(g[n], Plus(Q, n))
    <3>1. g[n] = P(n)
      OBVIOUS
    <3> HIDE DEF g
    <3> QED
      BY <3>1, PlaneShows
  <2> HIDE DEF g
  <2>2. ASSUME NEW n \in 0..nbit
        PROVE  g[n] = IF n = 0 THEN m ELSE ShiftBytes(g[n - LastRound(n)], LastRound(n))
    <3>1. CASE n = 0
      BY <1>0, <2>1, <3>1, ShowsOne
    <3>2. CASE n # 0
      <4>1. n \in Nat /\ n - LastRound(n) \in 0..nbit
        BY <3>2, RoundFacts
      <4>2. Shows(ShiftBytes(g[n - LastRound(n)], LastRound(n)), Plus(Q, n))
        BY <1>1, <2>1, <3>2, <4>1
      <4> QED
        BY <2>1, <3>2, <4>2, ShowsOne
    <3> QED
      BY <3>1, <3>2
  <2>3. g = [n \in 0..nbit |-> g[n]]
    BY DEF g
  <2>4. Shifts(g, m, nbit)
    BY <2>2, <2>3, Zenon DEF Shifts
  <2> QED
    BY <2>4
<1> DEFINE h == CHOOSE f : Shifts(f, m, nbit)
<1>4. Shifts(h, m, nbit)
  BY <1>3
<1>5. VShiftL(m, nbit) = h[nbit]
  BY Zenon DEF VShiftL, Shifts
<1> HIDE DEF h
<1> QED
  BY <1>2, <1>4, <1>5

----------------------------------------------------------------------------
(* The inductive invariant.                                                *)

Numbers ==
    /\ count \in Nat /\ (count <= MaxCount \/ Cycseq)
    /\ lastseq \in SeqNo /\ marked \subseteq SeqNo /\ accepted \in SeqNo

\* How far the numbers of the packets seen lie behind lastseq.
Seen == {d \in Nat : lastseq - d \in marked}

\* lastseq is the largest of them, 0 before the first.
Newest ==
    /\ 0 \notin marked
    /\ count = 0 <=> marked = {}
    /\ marked = {} => lastseq = 0
    /\ marked # {} => lastseq \in marked /\ \A k \in marked : k <= lastseq

\* The count is that of the packets, until it stops.
CountExact == IsFiniteSet(marked) /\ (count < MaxCount => Cardinality(marked) = count)

IInv ==
    /\ Numbers
    /\ Shows(bitmap, Seen)
    /\ WSize # 0 => Newest /\ CountExact

LEMMA SeqFacts == /\ MaxSeq \in Nat /\ MaxCount \in Nat \ {0} /\ Cycseq \in BOOLEAN
                  /\ \A n \in SeqNo : n \in Nat /\ 0 \in SeqNo
  BY ReplayAssumption DEF SeqNo

\* What ipsec_chkreplay lets through.
Fresh(seq) ==
    seq # 0 /\ (marked = {} \/ seq > lastseq - Wsizeb) /\ seq \notin marked

LEMMA Exact ==
    ASSUME IInv, WSize # 0, NEW seq \in SeqNo
    PROVE  ChkReplay(seq) <=> Fresh(seq)
<1>1. /\ count \in Nat /\ lastseq \in Nat /\ seq \in Nat /\ Wsizeb \in Nat
      /\ Newest /\ Shows(bitmap, Seen)
  BY SeqFacts, Width DEF IInv, Numbers
<1>2. CASE marked = {} \/ seq > lastseq
  BY <1>1, <1>2 DEF ChkReplay, Newest, Fresh
<1>3. CASE marked # {} /\ ~(seq > lastseq)
  <2> DEFINE d == lastseq - seq
  <2>1. d \in Nat /\ lastseq - d = seq /\ count > 0 /\ seq <= lastseq
    BY <1>1, <1>3 DEF Newest
  <2>2. TooOld(seq) <=> ~(d < Wsizeb)
    BY <1>1 DEF TooOld
  <2>3. (d < Wsizeb) <=> seq > lastseq - Wsizeb
    BY <1>1
  <2> HIDE DEF d
  <2>4. ASSUME d < Wsizeb PROVE IsSet(bitmap, d) <=> seq \in marked
    BY <1>1, <2>1, <2>4, FrFacts DEF Shows, IsSet, Seen
  <2> QED
    BY <1>1, <1>3, <2>1, <2>2, <2>3, <2>4 DEF ChkReplay, Fresh, d
<1> QED
  BY <1>2, <1>3

LEMMA MarkShows ==
    ASSUME IInv, WSize # 0, NEW seq \in SeqNo, Fresh(seq), Mark(seq),
           marked' = marked \union {seq}
    PROVE  /\ Shows(bitmap', Seen')
           /\ lastseq' = IF marked = {} \/ seq > lastseq THEN seq ELSE lastseq
<1>1. /\ count \in Nat /\ lastseq \in Nat /\ seq \in Nat /\ Wsizeb \in Nat /\ 0 < Wsizeb
      /\ Newest /\ Shows(bitmap, Seen) /\ Seen \in SUBSET Nat /\ marked \subseteq Nat
  BY SeqFacts, Width DEF IInv, Numbers, Seen
<1>2. Shows(Set(Blank, 0), {0})
  <2>1. Shows(Set(Blank, 0), {} \union {0})
    BY <1>1, BlankShows, SetShows
  <2> QED
    BY <2>1
<1>3. CASE count = 0
  <2>1. bitmap' = Set(Blank, 0) /\ lastseq' = seq /\ marked = {}
    BY <1>1, <1>3 DEF Mark, Newest
  <2>2. Seen' = {0}
    BY <1>1, <2>1 DEF Seen
  <2> QED
    BY <1>2, <2>1, <2>2
<1>4. CASE count # 0 /\ seq > lastseq
  <2> DEFINE n == seq - lastseq
  <2>1. bitmap' = Advanced(n) /\ lastseq' = seq /\ n \in Nat /\ n # 0 /\ lastseq = seq - n
    BY <1>1, <1>4 DEF Mark
  <2>2. \A d \in Nat : d \in Seen' <=> d = 0 \/ d - n \in Seen
    <3> HIDE DEF n
    <3>1. ASSUME NEW d \in Nat PROVE seq - d \in marked => d - n \in Nat
      BY <1>1, <2>1 DEF Newest
    <3>2. ASSUME NEW d \in Nat PROVE (seq - d = seq <=> d = 0) /\ lastseq - (d - n) = seq - d
      BY <1>1, <2>1
    <3> QED
      BY <2>1, <3>1, <3>2 DEF Seen
  <2> HIDE DEF n
  <2>3. CASE n < Wsizeb
    <3>1. Shows(VShiftL(bitmap, n), Plus(Seen, n))
      BY <1>1, <2>1, VShiftLShows
    <3>2. Shows(Set(VShiftL(bitmap, n), 0), Plus(Seen, n) \union {0})
      BY <1>1, <3>1, SetShows
    <3>3. Advanced(n) = Set(VShiftL(bitmap, n), 0)
      BY <2>3 DEF Advanced
    <3>4. \A d \in Nat : d \in Plus(Seen, n) \union {0} <=> d \in Seen'
      BY <1>1, <2>1, <2>2, PlusIn
    <3>5. Shows(bitmap', Seen')
      BY <2>1, <3>2, <3>3, <3>4, ShowsSame
    <3> QED
      BY <1>4, <2>1, <3>5
  <2>4. CASE ~(n < Wsizeb)
    <3>1. Advanced(n) = Set(Blank, 0)
      BY <2>4 DEF Advanced
    <3>2. \A d \in Nat : d < Wsizeb => (d \in {0} <=> d \in Seen')
      BY <1>1, <2>1, <2>2, <2>4
    <3>3. Shows(bitmap', Seen')
      BY <1>2, <2>1, <3>1, <3>2, ShowsSame
    <3> QED
      BY <1>4, <2>1, <3>3
  <2> QED
    BY <2>3, <2>4
<1>5. CASE count # 0 /\ ~(seq > lastseq)
  <2> DEFINE n == lastseq - seq
  <2>1. bitmap' = Set(bitmap, n) /\ lastseq' = lastseq /\ n \in Nat /\ marked # {}
    BY <1>1, <1>5 DEF Mark, Newest
  <2>2. n < Wsizeb /\ seq = lastseq - n
    <3>1. seq > lastseq - Wsizeb
      BY <2>1 DEF Fresh
    <3> QED
      BY <1>1, <3>1
  <2> HIDE DEF n
  <2>3. Shows(Set(bitmap, n), Seen \union {n})
    BY <1>1, <2>1, <2>2, SetShows
  <2>4. \A d \in Nat : d \in Seen \union {n} <=> d \in Seen'
    BY <1>1, <2>1, <2>2 DEF Seen
  <2>5. Shows(bitmap', Seen')
    BY <2>1, <2>3, <2>4, ShowsSame
  <2> QED
    BY <1>5, <2>1, <2>5
<1> QED
  BY <1>3, <1>4, <1>5

LEMMA ReceiveOK == ASSUME IInv, NEW seq \in SeqNo, Receive(seq) PROVE IInv'
<1>1. /\ count \in Nat /\ lastseq \in SeqNo /\ seq \in Nat /\ marked \subseteq SeqNo
      /\ (count <= MaxCount \/ Cycseq) /\ MaxCount \in Nat \ {0}
      /\ marked' = marked \union {seq} /\ ChkReplay(seq) /\ Mark(seq)
  BY SeqFacts DEF IInv, Numbers, Receive
<1>2. \/ MayCount /\ count' = count + 1 /\ accepted' = seq
      \/ count = MaxCount /\ count' = count /\ accepted' = 0
  BY DEF Receive, MayCount
<1>3. lastseq' \in {lastseq, seq}
  BY <1>1 DEF Mark
<1>4. Numbers'
  BY <1>1, <1>2, <1>3, SeqFacts DEF Numbers, MayCount
<1>5. CASE WSize = 0
  <2>1. Byte = {} /\ bitmap' = bitmap
    BY <1>1, <1>5 DEF Byte, Mark
  <2>2. Shows(bitmap', Seen')
    BY <2>1 DEF IInv, Shows
  <2> QED
    BY <1>4, <1>5, <2>2 DEF IInv
<1>6. CASE WSize # 0
  <2>1. Fresh(seq) /\ Newest /\ CountExact
    BY <1>1, <1>6, Exact DEF IInv
  <2>2. /\ Shows(bitmap', Seen')
        /\ lastseq' = IF marked = {} \/ seq > lastseq THEN seq ELSE lastseq
    BY <1>1, <1>6, <2>1, MarkShows
  <2>3. Newest'
    <3>1. 0 \notin marked' /\ marked' # {} /\ count' # 0
      BY <1>1, <1>2, <2>1 DEF Newest, Fresh
    <3>2. lastseq' \in marked' /\ \A k \in marked' : k <= lastseq'
      BY <1>1, <2>1, <2>2, SeqFacts DEF Newest
    <3> QED
      BY <3>1, <3>2 DEF Newest
  <2>4. CountExact'
    <3>1. IsFiniteSet(marked') /\ Cardinality(marked') = Cardinality(marked) + 1
      BY <1>1, <2>1, FS_AddElement DEF CountExact, Fresh
    <3>2. count' < MaxCount => count < MaxCount /\ count' = count + 1
      BY <1>1, <1>2
    <3> QED
      BY <2>1, <3>1, <3>2 DEF CountExact
  <2> QED
    BY <1>4, <2>2, <2>3, <2>4 DEF IInv
<1> QED
  BY <1>5, <1>6

LEMMA InitOK == Init => IInv
<1> SUFFICES ASSUME Init PROVE IInv
  OBVIOUS
<1>1. Numbers
  BY SeqFacts DEF Init, Numbers, SeqNo
<1>2. Seen = {}
  BY DEF Init, Seen
<1>3. Newest /\ CountExact
  BY FS_EmptySet DEF Init, Newest, CountExact
<1> QED
  BY <1>1, <1>2, <1>3, BlankShows DEF IInv, Init

LEMMA StepOK == IInv /\ [Next]_vars => IInv'
<1> SUFFICES ASSUME IInv, [Next]_vars PROVE IInv'
  OBVIOUS
<1>1. ASSUME NEW seq \in SeqNo, Receive(seq) PROVE IInv'
  BY <1>1, ReceiveOK
<1>2. ASSUME UNCHANGED <<count, lastseq, bitmap, marked>>, accepted' \in SeqNo PROVE IInv'
  BY <1>2 DEF IInv, Numbers, Seen, Newest, CountExact
<1>3. CASE Refuse
  BY <1>2, <1>3, SeqFacts DEF Refuse, IInv, Numbers
<1>4. CASE UNCHANGED vars
  BY <1>2, <1>4 DEF vars, IInv, Numbers
<1> QED
  BY <1>1, <1>3, <1>4 DEF Next

LEMMA Invariant == Spec => []IInv
  BY InitOK, StepOK, PTL DEF Spec

----------------------------------------------------------------------------
(* What follows.                                                           *)

\* ipsec_chkreplay lets a number through exactly if it is not 0, was not seen,
\* and is not older than the window, whatever came in whatever order: no
\* shift of ipsec_updatereplay loses or invents a bit.
THEOREM ReplayWindowExact == Spec => []WindowExact
<1>1. IInv => WindowExact
  <2> SUFFICES ASSUME IInv PROVE WindowExact
    OBVIOUS
  <2>1. TypeOK
    BY DEF IInv, Numbers, Shows, TypeOK
  <2>2. ASSUME WSize # 0, NEW seq \in SeqNo
        PROVE  ChkReplay(seq) <=> seq # 0 /\ seq > Highest - Wsizeb /\ seq \notin marked
    <3>1. /\ lastseq \in Nat /\ seq \in Nat /\ marked \subseteq Nat /\ Newest
          /\ Wsizeb \in Nat /\ 0 < Wsizeb
      BY <2>2, SeqFacts, Width DEF IInv, Numbers
    <3>2. Highest = lastseq
      <4>1. CASE marked = {}
        BY <3>1, <4>1 DEF Highest, Newest
      <4>2. CASE marked # {}
        <5>1. lastseq \in marked /\ \A k \in marked : k <= lastseq
          BY <3>1, <4>2 DEF Newest
        <5>2. \A n \in marked : (\A k \in marked : k <= n) => n = lastseq
          BY <3>1, <5>1
        <5> QED
          BY <4>2, <5>1, <5>2, Zenon DEF Highest
      <4> QED
        BY <4>1, <4>2
    <3>3. marked = {} => seq > lastseq - Wsizeb
      BY <3>1 DEF Newest
    <3> QED
      BY <2>2, <3>2, <3>3, Exact DEF Fresh
  <2> QED
    BY <2>1, <2>2 DEF WindowExact
<1> QED
  BY <1>1, Invariant, PTL

\* No packet is counted twice, and none once the count has reached its end,
\* unless the SA lets it cycle.
THEOREM ReplayAcceptedOnce == Spec => AcceptedOnce
<1>1. IInv /\ [Next]_vars
      => (WSize # 0 /\ count' > count =>
            accepted' \notin marked /\ (Cycseq \/ Cardinality(marked) < MaxCount))
  <2> SUFFICES ASSUME IInv, [Next]_vars, WSize # 0, count' > count
               PROVE  accepted' \notin marked /\ (Cycseq \/ Cardinality(marked) < MaxCount)
    OBVIOUS
  <2>1. /\ count \in Nat /\ (count <= MaxCount \/ Cycseq) /\ MaxCount \in Nat
        /\ Cycseq \in BOOLEAN /\ CountExact
    BY SeqFacts DEF IInv, Numbers
  <2>2. PICK seq \in SeqNo : Receive(seq)
    BY <2>1 DEF Next, Refuse, vars
  <2>3. MayCount /\ accepted' = seq
    BY <2>1, <2>2 DEF Receive
  <2>4. seq \notin marked
    BY <2>2, Exact DEF Receive, Fresh
  <2> QED
    BY <2>1, <2>3, <2>4 DEF MayCount, CountExact
<1> QED
  BY <1>1, Invariant, PTL DEF Spec, AcceptedOnce
=============================================================================
