---------------------------- MODULE ReplayWindow ---------------------------
(***************************************************************************)
(* The anti-replay window of one inbound SA: ipsec_chkreplay and           *)
(* ipsec_updatereplay of ipsec.c as ah_input.c and esp_input.c call them   *)
(* on an authenticated packet.  The window is an array of bytes, the newest *)
(* packet in the lowest bit of the last one; it is shifted by the distance *)
(* to a newer sequence number.                                             *)
(*                                                                         *)
(* The width of a byte and the range of sequence numbers are parameters,   *)
(* so that small instances have every edge: byte boundaries, the end of    *)
(* the window, the last number and the last count.                         *)
(***************************************************************************)
EXTENDS Integers, FiniteSets

CONSTANTS
    ByteBits, \* bits of a byte: 8
    WSize,    \* replay->wsize, bytes of the window
    MaxSeq,   \* the largest sequence number: 2^32 - 1
    MaxCount, \* the packet count that stops a receiver: 0xffffffff
    Cycseq    \* SADB_X_EXT_CYCSEQ

ASSUME ReplayAssumption ==
    /\ ByteBits \in Nat \ {0} /\ WSize \in Nat
    /\ MaxSeq \in Nat \ {0} /\ MaxCount \in Nat \ {0}
    /\ Cycseq \in BOOLEAN

VARIABLES
    count,    \* replay->count, packets accepted
    lastseq,  \* replay->lastseq
    bitmap,   \* bitmap[i][b]: bit b of byte i of the window
    marked,   \* sequence numbers the window was told of
    accepted  \* the last step let this packet through; 0: none

vars == <<count, lastseq, bitmap, marked, accepted>>

Byte == 0..(WSize - 1)
Bit == 0..(ByteBits - 1)
Wsizeb == WSize * ByteBits
Frlast == WSize - 1
SeqNo == 0..MaxSeq

Blank == [i \in Byte |-> [b \in Bit |-> FALSE]]

TypeOK ==
    /\ count \in Nat /\ (count <= MaxCount \/ Cycseq)
    /\ lastseq \in SeqNo
    /\ bitmap \in [Byte -> [Bit -> BOOLEAN]]
    /\ marked \subseteq SeqNo /\ accepted \in SeqNo

----------------------------------------------------------------------------
\* Mutant: the bits shifted out of a byte are lost.
ShiftBytesAlone(m, s) ==
    [i \in Byte |-> [b \in Bit |-> b >= s /\ m[i][b - s]]]

\* One round of vshiftl: all bytes by s <= ByteBits, the upper bits of each
\* going to the byte before it.
ShiftBytes(m, s) ==
    [i \in Byte |-> [b \in Bit |->
        IF b >= s THEN m[i][b - s] ELSE i < Frlast /\ m[i + 1][b - s + ByteBits]]]

\* The last round of a shift by n bits: whole bytes first, then what is left.
LastRound(n) == IF n % ByteBits = 0 THEN ByteBits ELSE n % ByteBits

\* vshiftl.
VShiftL(m, nbit) ==
    LET shifted[n \in 0..nbit] ==
            IF n = 0 THEN m ELSE ShiftBytes(shifted[n - LastRound(n)], LastRound(n))
    IN  shifted[nbit]

\* The bit of a sequence number that is diff behind lastseq.
Fr(diff) == Frlast - (diff \div ByteBits)
IsSet(m, diff) == m[Fr(diff)][diff % ByteBits]
Set(m, diff) == [m EXCEPT ![Fr(diff)][diff % ByteBits] = TRUE]

\* Mutant: the window is one packet narrower.
TooOldEarly(seq) == lastseq - seq >= Wsizeb - 1

\* "over range to check, i.e. too old or wrapped"
TooOld(seq) == lastseq - seq >= Wsizeb

\* ipsec_chkreplay.
ChkReplay(seq) ==
    \/ WSize = 0
    \/ /\ seq # 0
       /\ count > 0 /\ seq <= lastseq => ~TooOld(seq) /\ ~IsSet(bitmap, lastseq - seq)

\* The window after a new largest number.
Advanced(diff) ==
    IF diff < Wsizeb THEN Set(VShiftL(bitmap, diff), 0) ELSE Set(Blank, 0)

\* The part of ipsec_updatereplay that marks a packet as seen.
Mark(seq) ==
    /\ bitmap' = CASE WSize = 0 -> bitmap
                   [] WSize # 0 /\ count = 0 -> Set(Blank, 0)
                   [] WSize # 0 /\ count # 0 /\ seq > lastseq -> Advanced(seq - lastseq)
                   [] OTHER -> Set(bitmap, lastseq - seq)
    /\ lastseq' = IF WSize # 0 /\ (count = 0 \/ seq > lastseq) THEN seq ELSE lastseq

\* "don't increment, no more packets accepted"
MayCount == count # MaxCount \/ Cycseq

\* A packet that passes both checks and whose ICV is right.  It is marked
\* even if the counter is at its end.
Receive(seq) ==
    /\ ChkReplay(seq)
    /\ Mark(seq)
    /\ marked' = marked \union {seq}
    /\ IF MayCount THEN count' = count + 1 /\ accepted' = seq
       ELSE UNCHANGED count /\ accepted' = 0

\* A packet refused by ipsec_chkreplay, or with a wrong ICV.
Refuse ==
    /\ accepted' = 0
    /\ UNCHANGED <<count, lastseq, bitmap, marked>>

Init ==
    /\ count = 0 /\ lastseq = 0
    /\ bitmap = Blank
    /\ marked = {} /\ accepted = 0

\* With CYCSEQ the count goes on for ever; the model stops one above its end.
Next == (\E seq \in SeqNo : count <= MaxCount /\ Receive(seq)) \/ Refuse

Spec == Init /\ [][Next]_vars

----------------------------------------------------------------------------
Highest == IF marked = {} THEN 0 ELSE CHOOSE n \in marked : \A k \in marked : k <= n

(* The window is exactly the set of numbers seen, as far as it reaches     *)
(* back: a number is let through iff it is not 0, not seen before and not  *)
(* older than the window, in whatever order and with whatever gaps packets *)
(* come in (and everything is typed).                                      *)
WindowExact ==
    /\ TypeOK
    /\ WSize # 0 => \A seq \in SeqNo : ChkReplay(seq) <=>
          seq # 0 /\ seq > Highest - Wsizeb /\ seq \notin marked

(* No packet is accepted twice, and none after MaxCount packets ("no more  *)
(* packets accepted") unless the SA allows its counter to cycle.           *)
AcceptedOnce ==
    [][WSize # 0 /\ count' > count =>
          accepted' \notin marked /\ (Cycseq \/ Cardinality(marked) < MaxCount)]_vars

=============================================================================
