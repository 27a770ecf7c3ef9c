------------------------------- MODULE Frag6 -------------------------------
(***************************************************************************)
(* Fragment reassembly of frag6.c.  A reassembly queue (struct ip6q) keeps *)
(* the fragments of one packet, identified by addresses and identifier;    *)
(* the queues are on the list ip6q, the newest first.  Input, the slow     *)
(* timer, the drain under memory pressure and sysctl act on the list, each *)
(* in one step (splnet and the ip6q lock).                                 *)
(*                                                                         *)
(* Lengths are counted in units of 8 octets.  The sender may fragment the  *)
(* packet more than once, at different places (a retransmission, a copy    *)
(* over another path); a router may mark any fragment.                     *)
(***************************************************************************)
EXTENDS Integers, FiniteSets, Sequences, SequencesExt, Lists

CONSTANTS
    Key,        \* packets: source, destination and identifier
    Unfrg,      \* Unfrg[k]: length of the unfragmentable part of packet k
    Total,      \* Total[k]: length of its fragmentable part
    MaxPacket,  \* IPV6_MAXPACKET
    FragTtl,    \* IPV6_FRAGTTL, in runs of the slow timer
    Ecn,        \* Ecn[k]: ECN codepoints its fragments may carry
    PacketLimit, FragLimit, \* values sysctl gives to the limits; -1: none
    MaxLost,    \* bound: queue counts lost to failing allocations
    NoQueue,
    NoPacket

ASSUME Frag6Assumption ==
    /\ Unfrg \in [Key -> Nat]
    /\ Total \in [Key -> Nat \ {0}]
    /\ MaxPacket \in Nat
    /\ FragTtl \in Nat \ {0}
    /\ Ecn \in [Key -> SUBSET {"notect", "ect", "ce"}]
    /\ PacketLimit \subseteq Int /\ FragLimit \subseteq Int
    /\ MaxLost \in Nat

VARIABLES
    queue,          \* queue[k]: the reassembly queue of packet k
    order,          \* the list ip6q, newest first
    nfragpackets,   \* frag6_nfragpackets
    nfrags,         \* frag6_nfrags
    maxfragpackets, \* ip6_maxfragpackets
    maxfrags,       \* ip6_maxfrags
    passed,         \* the packet the last step handed to the next header
    panicked        \* frag6_freef was called on the head of the list

counts == <<nfragpackets, nfrags>>
limits == <<maxfragpackets, maxfrags>>
vars == <<queue, order, counts, limits, passed, panicked>>

End(f) == f.off + f.len

\* The fragments packet k may come in (struct ip6asfrag); the one that ends
\* it has no MORE_FRAG.
Fragment(k) ==
    {f \in [off : 0..(Total[k] - 1), len : 1..Total[k], more : BOOLEAN, ecn : Ecn[k]] :
         End(f) <= Total[k] /\ f.more = (End(f) < Total[k])}

Units(f) == f.off..(End(f) - 1)

\* struct ip6q; unfrglen is -1 until the first fragment has come in.
Queue(k) == [frags : SUBSET Fragment(k), unfrglen : {-1} \union Nat,
          ttl : 1..FragTtl, nfrag : Nat, ecn : Ecn[k]]

ASSUME QueueAssumption == \A k \in Key : NoQueue \notin Queue(k)

TypeOK ==
    /\ DOMAIN queue = Key
    /\ \A k \in Key : queue[k] \in Queue(k) \union {NoQueue}
    /\ order \in Seq(Key) /\ IsInjective(order)
    /\ ToSet(order) = {k \in Key : queue[k] # NoQueue}
    /\ nfragpackets \in Nat /\ nfrags \in Nat
    /\ maxfragpackets \in PacketLimit /\ maxfrags \in FragLimit
    /\ passed # NoPacket => passed.key \in Key
    /\ panicked \in BOOLEAN

----------------------------------------------------------------------------
(* One fragment against the queue of its packet.                           *)

NewQueue(f) == [frags |-> {}, unfrglen |-> -1, ttl |-> FragTtl,
                nfrag |-> 0, ecn |-> f.ecn]

Found(k) == queue[k] # NoQueue

Below(limit, n) == limit < 0 \/ n < limit

\* Mutant: every fragment, be it a duplicate, starts the timer again.
HeardRefreshes(k, f) ==
    LET q == IF Found(k) THEN [queue[k] EXCEPT !.ttl = FragTtl] ELSE NewQueue(f)
    IN  IF f.off = 0 THEN [q EXCEPT !.unfrglen = Unfrg[k]] ELSE q

\* The first fragment tells the length of the unfragmentable part.
Heard(k, f) ==
    LET q == IF Found(k) THEN queue[k] ELSE NewQueue(f)
    IN  IF f.off = 0 THEN [q EXCEPT !.unfrglen = Unfrg[k]] ELSE q

TooBig(q, f) == End(f) + (IF q.unfrglen >= 0 THEN q.unfrglen ELSE 0) > MaxPacket

\* Mutant: fragments that came in before the first one are not checked again.
RecheckNone(q, f) == q

\* The first fragment may show stored ones to be too far out.  The counts
\* are left as they are.
Recheck(q, f) ==
    IF f.off = 0 THEN [q EXCEPT !.frags = {g \in @ : ~TooBig(q, g)}] ELSE q

\* Mutant: the mixture is noticed in one order only.
EcnMixedOneWay(q, f) == f.ecn = "ce" /\ q.ecn = "notect"

EcnMixed(q, f) ==
    \/ f.ecn = "ce" /\ q.ecn = "notect"
    \/ f.ecn = "notect" /\ q.ecn # "notect"

\* A mark survives even if the fragment that carries it is dropped.
Mark(q, f) == IF f.ecn = "ce" THEN [q EXCEPT !.ecn = "ce"] ELSE q

Preceding(q, f) == {g \in q.frags : g.off <= f.off}
Succeeding(q, f) == {g \in q.frags : g.off > f.off}

\* Mutant: only the fragment before the new one is compared with it.
OverlapsPreceding(q, f) ==
    \E g \in Preceding(q, f) : (\A h \in Preceding(q, f) : h.off <= g.off) /\ End(g) > f.off

\* Only the two neighbours in the list are compared with the new fragment.
Overlaps(q, f) ==
    \/ \E g \in Preceding(q, f) :
          (\A h \in Preceding(q, f) : h.off <= g.off) /\ End(g) > f.off
    \/ \E g \in Succeeding(q, f) :
          (\A h \in Succeeding(q, f) : h.off >= g.off) /\ End(f) > g.off

Insert(q, f) == [q EXCEPT !.frags = @ \union {f}, !.nfrag = @ + 1]

\* The length of fragments laid end to end.
LengthOf(frags) == SumFunctionOnSet([f \in frags |-> f.len], frags)

\* The walk over the list: no gap, and nothing is to follow the last one.
Complete(q) ==
    /\ \A g \in q.frags : g.off = LengthOf({h \in q.frags : h.off < g.off})
    /\ \A g \in q.frags : Succeeding(q, g) = {} => ~g.more

----------------------------------------------------------------------------
(* frag6_input.  A fragment refused for a limit changes nothing.           *)

Admitted(k) ==
    /\ ~panicked
    /\ Below(maxfrags, nfrags)
    /\ Found(k) \/ Below(maxfragpackets, nfragpackets)

Store(k, q) ==
    /\ queue' = [queue EXCEPT ![k] = q]
    /\ order' = IF Found(k) THEN order ELSE <<k>> \o order
    /\ nfragpackets' = nfragpackets + (IF Found(k) THEN 0 ELSE 1)

\* malloc of a new queue fails after it has been counted.
NoQueueMemory(k) ==
    /\ Admitted(k) /\ ~Found(k)
    /\ nfragpackets < Len(order) + MaxLost
    /\ nfragpackets' = nfragpackets + 1
    /\ passed' = NoPacket
    /\ UNCHANGED <<queue, order, nfrags, limits, panicked>>

\* The fragment is dropped (too big, no memory, mixed ECN, overlap).  Its
\* queue is made nevertheless, and what it tells of the packet is kept.
InputDropped(k, f) ==
    /\ Admitted(k)
    /\ LET q == Heard(k, f)
           r == Recheck(q, f)
       IN  \/ TooBig(q, f) /\ Store(k, q)
           \/ ~TooBig(q, f) /\ Store(k, r)  \* malloc of the ip6asfrag fails
           \/ ~TooBig(q, f) /\ EcnMixed(r, f) /\ Store(k, r)
           \/ ~TooBig(q, f) /\ ~EcnMixed(r, f) /\ Overlaps(r, f) /\ Store(k, Mark(r, f))
    /\ passed' = NoPacket
    /\ UNCHANGED <<nfrags, limits, panicked>>

\* The queue with fragment f in its place.
Enqueued(k, f) == Insert(Mark(Recheck(Heard(k, f), f), f), f)

Fits(k, f) ==
    LET q == Heard(k, f)
        r == Recheck(q, f)
    IN  ~TooBig(q, f) /\ ~EcnMixed(r, f) /\ ~Overlaps(r, f)

InputStored(k, f) ==
    /\ Admitted(k) /\ Fits(k, f)
    /\ ~Complete(Enqueued(k, f))
    /\ Store(k, Enqueued(k, f))
    /\ nfrags' = nfrags + 1
    /\ passed' = NoPacket
    /\ UNCHANGED <<limits, panicked>>

\* Reassembly is complete.  The queue is gone even if m_split finds no memory.
InputPassed(k, f, split) ==
    /\ Admitted(k) /\ Fits(k, f)
    /\ LET q == Enqueued(k, f) IN
        /\ Complete(q)
        /\ nfrags' = nfrags + 1 - q.nfrag
        /\ passed' = IF split THEN [key |-> k, frags |-> q.frags] ELSE NoPacket
    /\ queue' = [queue EXCEPT ![k] = NoQueue]
    /\ order' = Without(order, {k})
    /\ nfragpackets' = IF Found(k) THEN nfragpackets - 1 ELSE nfragpackets
    /\ UNCHANGED <<limits, panicked>>

----------------------------------------------------------------------------
(* The slow timer, the drain and sysctl.                                   *)

\* What some queues count (q6->ip6q_nfrag), all together.
Counted(q, keys) == SumFunctionOnSet([k \in keys |-> q[k].nfrag], keys)

\* Mutant: the fragments still stored are subtracted, not those counted.
FreeStored(q, gone) ==
    /\ queue' = [k \in Key |-> IF k \in gone THEN NoQueue ELSE q[k]]
    /\ order' = Without(order, gone)
    /\ nfrags' = nfrags - SumFunctionOnSet([k \in gone |-> Cardinality(q[k].frags)], gone)

\* frag6_freef for each queue of a set.
Free(q, gone) ==
    /\ queue' = [k \in Key |-> IF k \in gone THEN NoQueue ELSE q[k]]
    /\ order' = Without(order, gone)
    /\ nfrags' = nfrags - Counted(q, gone)

\* Mutant: the oldest queues are spared.
OverflowingNewest(left, n) == ToSet(SubSeq(left, 1, n))

\* The last n queues of the list.
Overflowing(left, n) == ToSet(SubSeq(left, Len(left) - n + 1, Len(left)))

Expired(ttl) == {k \in Key : Found(k) /\ ttl[k] = 0}

\* A queue lives for ttl runs; beyond the limit the oldest queues are freed,
\* and if there are none left, the head of the list is taken for one.
SlowTimo ==
    /\ ~panicked
    /\ LET ttl == [k \in Key |-> IF Found(k) THEN queue[k].ttl - 1 ELSE 0]
           aged == [k \in Key |-> IF Found(k) THEN [queue[k] EXCEPT !.ttl = ttl[k]]
                                  ELSE NoQueue]
           left == Without(order, Expired(ttl))
           n == nfragpackets - Cardinality(Expired(ttl))
           over == IF maxfragpackets < 0 \/ n <= maxfragpackets THEN 0
                   ELSE n - maxfragpackets
           freed == IF over > Len(left) THEN Len(left) ELSE over
       IN  /\ Free(aged, Expired(ttl) \union Overflowing(left, freed))
           /\ nfragpackets' = n - freed
           /\ panicked' = (over > Len(left))
    /\ passed' = NoPacket
    /\ UNCHANGED limits

Drain ==
    /\ ~panicked
    /\ order # <<>>
    /\ Free(queue, ToSet(order))
    /\ nfragpackets' = nfragpackets - Len(order)
    /\ passed' = NoPacket
    /\ UNCHANGED <<limits, panicked>>

SetLimits ==
    /\ ~panicked
    /\ maxfragpackets' \in PacketLimit /\ maxfrags' \in FragLimit
    /\ passed' = NoPacket
    /\ UNCHANGED <<queue, order, counts, panicked>>

----------------------------------------------------------------------------
Init ==
    /\ queue = [k \in Key |-> NoQueue]
    /\ order = <<>>
    /\ nfragpackets = 0 /\ nfrags = 0
    /\ maxfragpackets \in PacketLimit /\ maxfrags \in FragLimit
    /\ passed = NoPacket
    /\ panicked = FALSE

Input(k) ==
    \/ NoQueueMemory(k)
    \/ \E f \in Fragment(k) :
          \/ InputDropped(k, f)
          \/ InputStored(k, f)
          \/ \E split \in BOOLEAN : InputPassed(k, f, split)

Next ==
    \/ \E k \in Key : Input(k)
    \/ SlowTimo
    \/ Drain
    \/ SetLimits

Spec == Init /\ [][Next]_vars

\* The slow timer runs every half second (pfslowtimo).
FairSpec == Spec /\ WF_vars(SlowTimo)

----------------------------------------------------------------------------
(* Comparing a new fragment with its two neighbours is enough: no two      *)
(* stored fragments of a packet share an octet (and everything is typed).  *)
FragsDisjoint ==
    TypeOK /\ \A k \in Key : Found(k) =>
        \A f, g \in queue[k].frags : f # g => Units(f) \cap Units(g) = {}

(* What is handed up is one whole packet: every octet once, none missing,  *)
(* no longer than a packet may be, whatever order its fragments came in    *)
(* and whatever was dropped, rechecked or drained in between.              *)
PassedWhole ==
    passed # NoPacket =>
        /\ UNION {Units(f) : f \in passed.frags} = 0..(Total[passed.key] - 1)
        /\ LengthOf(passed.frags) = Total[passed.key]
        /\ Unfrg[passed.key] + Total[passed.key] <= MaxPacket

(* "if CE is set, do not lose CE.  drop if CE and not-ECT are mixed": the  *)
(* queue has the congestion mark of every fragment it holds, and holds no  *)
(* marked fragment beside a not-ECT one, whichever came first.             *)
EcnKept ==
    \A k \in Key : Found(k) =>
        LET seen == {f.ecn : f \in queue[k].frags}
        IN  "ce" \in seen => queue[k].ecn = "ce" /\ "notect" \notin seen

(* frag6_nfrags, which the limit on fragments is held against, is the sum  *)
(* of what the queues will give back when they are freed, and that covers  *)
(* every stored fragment: it cannot go below zero or creep upwards,        *)
(* although dequeueing a fragment does not count it off.                   *)
FragsCounted ==
    /\ nfrags = Counted(queue, ToSet(order))
    /\ \A k \in ToSet(order) : Cardinality(queue[k].frags) <= queue[k].nfrag

(* When queues are freed for the limit, older ones go first: whenever the  *)
(* slow timer frees a queue it frees all queues that were made before.     *)
OldestFirst ==
    [][SlowTimo => \A i, j \in DOMAIN order :
           i < j /\ queue'[order[i]] = NoQueue => queue'[order[j]] = NoQueue]_vars

(* A packet of which not all fragments arrive does not stay for ever, no   *)
(* matter how many duplicates of its fragments keep coming in.             *)
QueueEnds == \A k \in Key : Found(k) ~> ~Found(k) \/ panicked

=============================================================================
