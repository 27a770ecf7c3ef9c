------------------------------- MODULE SaLife ------------------------------
(***************************************************************************)
(* The life of the security associations of key.c between one pair of      *)
(* addresses: PF_KEY messages of a key daemon, the one-second timer,       *)
(* outbound packets that look up an SA for a policy and keep it there, and *)
(* the acquiring list.  One handler is one step (splsoftnet).              *)
(*                                                                         *)
(* An SA (struct secasvar) hangs on an SA index (struct secashead).  An    *)
(* index that was flushed or has run empty is dead; new SAs get a new one, *)
(* while SAs that policies still hold remain on the dead one.  An SPI      *)
(* names an SA among those alive.  The order of a state's list is left     *)
(* out: of SAs made in one second either may be the oldest.                *)
(***************************************************************************)
EXTENDS Integers, FiniteSets

CONSTANTS
    Sa,         \* memory for SAs
    Head,       \* memory for SA indices
    Isr,        \* IPsec requests of policies (struct ipsecrequest)
    Soft, Hard, \* lifetimes given by the daemon, in seconds
    LarvalLife, \* key_larval_lifetime
    BlockCount, \* key_blockacq_count
    BlockLife,  \* key_blockacq_lifetime
    PreferOld,  \* key_preferred_oldsa
    LateUpdate, \* the daemon sends SADB_UPDATE for SAs that are in use
    NoSa, NoAcq

ASSUME SaLifeAssumption ==
    /\ IsFiniteSet(Isr)
    /\ {Soft, Hard, LarvalLife, BlockCount, BlockLife} \subseteq Nat
    /\ PreferOld \in BOOLEAN /\ LateUpdate \in BOOLEAN
    /\ NoSa \notin Sa

VARIABLES
    sa,    \* sa[s]: the SA in this memory
    head,  \* head[h]: the SA index in this memory
    isr,   \* isr[i]: the SA request i holds (isr->sav)
    acq,   \* the entry on acqtree
    asked  \* "ask": the last step sent SADB_ACQUIRE; "told": the daemon
           \* spoke of one; else "none"

vars == <<sa, head, isr, acq, asked>>

\* SADB_SASTATE_*, in the order of an SA's life.
State == {"larval", "mature", "dying", "dead"}
Rank(x) == CASE x = "larval" -> 1 [] x = "mature" -> 2
             [] x = "dying" -> 3 [] x = "dead" -> 4

\* No SA, or one that was deleted: nothing refers to it.
Free == [state |-> "free", on |-> "none", refcnt |-> 0, age |-> 0, used |-> FALSE]

\* struct secasvar; age: seconds since created; used: usetime is not zero.
SecAsVar == [state : State, on : Head, refcnt : Nat \ {0}, age : Nat, used : BOOLEAN]

TypeOK ==
    /\ sa \in [Sa -> SecAsVar \union {Free}]
    /\ head \in [Head -> {"none", "live", "dead"}]
    /\ isr \in [Isr -> Sa \union {NoSa}]
    /\ acq \in [count : Nat, age : Nat] \union {NoAcq}
    /\ asked \in {"none", "ask", "told"}

Alive(x) == x.state \in {"larval", "mature", "dying"}

----------------------------------------------------------------------------
(* References.                                                             *)

\* Mutant: an SA nobody refers to stays.
FreeSavLate(x) == IF x.refcnt <= 0 THEN Free ELSE [x EXCEPT !.refcnt = @ - 1]

\* key_freesav: the last reference takes the SA along (key_delsav).
FreeSav(x) == IF x.refcnt <= 1 THEN Free ELSE [x EXCEPT !.refcnt = @ - 1]

\* Mutant: a dying SA is marked only, and keeps the database's reference.
KillKeepsDying(x) ==
    IF x.state = "dying" THEN [x EXCEPT !.state = "dead"]
    ELSE FreeSav([x EXCEPT !.state = "dead"])

\* The database gives up an SA; it lives on while requests hold it.
Kill(x) == FreeSav([x EXCEPT !.state = "dead"])

\* Mutant: the request forgets the SA it holds.
ReleasedNot(i) == sa

\* The database without the reference request i holds.
Released(i) ==
    IF isr[i] = NoSa THEN sa ELSE [sa EXCEPT ![isr[i]] = FreeSav(@)]

----------------------------------------------------------------------------
(* PF_KEY messages of the daemon.                                          *)

LiveHead == {h \in Head : head[h] = "live"}
EmptyHead == {h \in Head : head[h] = "none"}

\* key_getsah, else key_newsah: the index a new SA goes to.
GetHead(h) ==
    /\ h \in IF LiveHead # {} THEN LiveHead ELSE EmptyHead
    /\ head' = [head EXCEPT ![h] = "live"]

NewSa(state, h) ==
    [state |-> state, on |-> h, refcnt |-> 1, age |-> 0, used |-> FALSE]

\* The daemon answers an ACQUIRE: its entry starts anew.
AcqReset == IF acq = NoAcq THEN NoAcq ELSE [count |-> 0, age |-> 0]

Getspi(s, h, known) ==
    /\ sa[s] = Free /\ GetHead(h)
    /\ sa' = [sa EXCEPT ![s] = NewSa("larval", h)]
    /\ acq' = IF known THEN AcqReset ELSE acq
    /\ asked' = IF known THEN "told" ELSE "none"
    /\ UNCHANGED isr

Add(s, h) ==
    /\ sa[s] = Free /\ GetHead(h)
    /\ sa' = [sa EXCEPT ![s] = NewSa("mature", h)]
    /\ asked' = "none"
    /\ UNCHANGED <<isr, acq>>

\* SADB_GETSPI or SADB_ADD that fails after it has made a new index.
OnlyHead(h) ==
    /\ LiveHead = {} /\ GetHead(h)
    /\ asked' = "none"
    /\ UNCHANGED <<sa, isr, acq>>

\* key_getsavbyspi on a live index.
Named(s) == Alive(sa[s]) /\ head[sa[s].on] = "live"

\* Mutant: any SA alive is updated.
UpdateAny(s, ok) ==
    /\ Named(s)
    /\ sa' = [sa EXCEPT ![s] = IF ok THEN [@ EXCEPT !.age = 0, !.state = "mature"]
                               ELSE FreeSav(@)]
    /\ asked' = "none"
    /\ UNCHANGED <<head, isr, acq>>

\* Any SA alive can be updated.  A value refused takes a reference along.
Update(s, ok) ==
    /\ Named(s)
    /\ sa[s].state = "larval" \/ LateUpdate
    /\ LET new == [sa[s] EXCEPT !.age = 0, !.used = FALSE]
       IN  sa' = [sa EXCEPT ![s] = IF ok THEN [new EXCEPT !.state = "mature"]
                                   ELSE FreeSav(new)]
    /\ asked' = "none"
    /\ UNCHANGED <<head, isr, acq>>

Delete(s) ==
    /\ Named(s)
    /\ sa' = [sa EXCEPT ![s] = Kill(@)]
    /\ asked' = "none"
    /\ UNCHANGED <<head, isr, acq>>

\* SADB_DELETE without an SPI spares the larval SAs.
DeleteAll ==
    /\ sa' = [s \in Sa |-> IF Named(s) /\ sa[s].state # "larval"
                           THEN Kill(sa[s]) ELSE sa[s]]
    /\ asked' = "none"
    /\ UNCHANGED <<head, isr, acq>>

\* Mutant: SAs being negotiated are spared here, too.
FlushSparesLarval ==
    /\ sa' = [s \in Sa |-> IF sa[s].state \in {"mature", "dying"}
                           THEN Kill(sa[s]) ELSE sa[s]]
    /\ head' = [h \in Head |-> IF head[h] = "none" THEN "none" ELSE "dead"]
    /\ asked' = "none"
    /\ UNCHANGED <<isr, acq>>

Flush ==
    /\ sa' = [s \in Sa |-> IF Alive(sa[s]) THEN Kill(sa[s]) ELSE sa[s]]
    /\ head' = [h \in Head |-> IF head[h] = "none" THEN "none" ELSE "dead"]
    /\ asked' = "none"
    /\ UNCHANGED <<isr, acq>>

\* SADB_ACQUIRE from the daemon: the negotiation has failed.
AcquireFailed ==
    /\ acq' = AcqReset
    /\ asked' = "told"
    /\ UNCHANGED <<sa, head, isr>>

----------------------------------------------------------------------------
(* Outbound packets and policies.                                          *)

\* Mutant: every packet that is refused makes the entry a new one.
AcquireRestarts ==
    IF acq = NoAcq THEN acq' = [count |-> 0, age |-> 0] /\ asked' = "ask"
    ELSE acq' = [acq EXCEPT !.count = 0, !.age = 0] /\ asked' = "none"

\* key_acquire: a further message only after BlockCount packets without one.
Acquire ==
    IF acq = NoAcq THEN acq' = [count |-> 0, age |-> 0] /\ asked' = "ask"
    ELSE IF BlockCount < acq.count
         THEN acq' = [acq EXCEPT !.count = 0] /\ asked' = "ask"
         ELSE acq' = [acq EXCEPT !.count = @ + 1] /\ asked' = "none"

\* The SAs of database d a packet may take: of the first state that has any.
Valid(d) ==
    LET inState(x) == {s \in Sa : d[s].state = x /\ head[d[s].on] = "live"}
        order == IF PreferOld THEN <<"dying", "mature">> ELSE <<"mature", "dying">>
    IN  IF inState(order[1]) # {} THEN inState(order[1]) ELSE inState(order[2])

\* key_preferred_oldsa: the oldest, else the newest of them.
Candidate(d) ==
    {s \in Valid(d) : \A t \in Valid(d) :
        IF PreferOld THEN d[s].age >= d[t].age ELSE d[s].age <= d[t].age}

\* key_checkrequest finds an SA, and the packet is sent or dropped later on.
\* Without PreferOld the other SAs of that state are deleted.
OutboundSa(i, sent) ==
    LET d == Released(i) IN
    \E s \in Candidate(d) :
        /\ sa' = [t \in Sa |->
                    IF t = s THEN [d[s] EXCEPT !.refcnt = @ + 1, !.used = @ \/ sent]
                    ELSE IF t \in Valid(d) /\ ~PreferOld /\ Hard # 0 THEN Kill(d[t])
                    ELSE d[t]]
        /\ isr' = [isr EXCEPT ![i] = s]
        /\ asked' = "none"
        /\ UNCHANGED <<head, acq>>

OutboundNoSa(i) ==
    LET d == Released(i) IN
    /\ Valid(d) = {}
    /\ sa' = d
    /\ isr' = [isr EXCEPT ![i] = NoSa]
    /\ Acquire
    /\ UNCHANGED head

Outbound(i) == (\E sent \in BOOLEAN : OutboundSa(i, sent)) \/ OutboundNoSa(i)

\* An inbound packet holds the SA for the time of its handler only.
Inbound(s) ==
    /\ sa[s].state \in {"mature", "dying"}
    /\ sa' = [sa EXCEPT ![s].used = TRUE]
    /\ asked' = "none"
    /\ UNCHANGED <<head, isr, acq>>

\* key_delsp; a new policy's request starts without an SA.
DeletePolicy(i) ==
    /\ isr[i] # NoSa
    /\ sa' = Released(i)
    /\ isr' = [isr EXCEPT ![i] = NoSa]
    /\ asked' = "none"
    /\ UNCHANGED <<head, acq>>

----------------------------------------------------------------------------
(* key_timehandler, once a second.                                         *)

\* What a second more does to an SA on a live index; a lifetime of 0 is none.
Aged(x) ==
    LET soft == x.state = "mature" /\ Soft # 0 /\ x.age > Soft
        dying == x.state = "dying" \/ (soft /\ x.used)
    IN  CASE x.state = "larval" /\ x.age > LarvalLife -> FreeSav(x)
          [] soft /\ ~x.used -> Kill(x)
          [] dying /\ Hard # 0 /\ x.age > Hard -> Kill(x)
          [] dying /\ ~(Hard # 0 /\ x.age > Hard) -> [x EXCEPT !.state = "dying"]
          [] OTHER -> x

\* A second more; an SA without lifetimes and a dead one do not count.
Older(x) ==
    IF x.state = "larval" \/ (Alive(x) /\ Soft # 0) THEN [x EXCEPT !.age = @ + 1] ELSE x

On(d, h) == {s \in Sa : d[s] # Free /\ d[s].on = h}

\* Dead indices go when their last SA is gone; one without SAs alive dies.
Tick ==
    LET d == [s \in Sa |-> IF sa[s] = Free \/ head[sa[s].on] = "dead" THEN sa[s]
                           ELSE Aged(Older(sa[s]))]
    IN  /\ sa' = d
        /\ head' = [h \in Head |->
               CASE head[h] = "dead" /\ On(sa, h) = {} -> "none"
                 [] head[h] = "live" /\ (\A s \in On(d, h) : ~Alive(d[s])) -> "dead"
                 [] OTHER -> head[h]]
        /\ acq' = IF acq = NoAcq \/ acq.age + 1 > BlockLife THEN NoAcq
                  ELSE [acq EXCEPT !.age = @ + 1]
        /\ asked' = "none"
        /\ UNCHANGED isr

----------------------------------------------------------------------------
Init ==
    /\ sa = [s \in Sa |-> Free]
    /\ head = [h \in Head |-> "none"]
    /\ isr = [i \in Isr |-> NoSa]
    /\ acq = NoAcq
    /\ asked = "none"

Daemon ==
    \/ \E s \in Sa, h \in Head :
          \/ \E known \in BOOLEAN : Getspi(s, h, known)
          \/ Add(s, h)
    \/ \E h \in Head : OnlyHead(h)
    \/ \E s \in Sa : \E ok \in BOOLEAN : Update(s, ok)
    \/ \E s \in Sa : Delete(s)
    \/ DeleteAll
    \/ Flush
    \/ AcquireFailed

Next ==
    \/ Daemon
    \/ \E i \in Isr : Outbound(i) \/ DeletePolicy(i)
    \/ \E s \in Sa : Inbound(s)
    \/ Tick

Spec == Init /\ [][Next]_vars

\* The timer re-arms itself every second.  Every policy keeps seeing packets:
\* an assumption on the traffic.
FairSpec == Spec /\ WF_vars(Tick) /\ \A i \in Isr : WF_vars(Outbound(i))

----------------------------------------------------------------------------
Holders(s) == {i \in Isr : isr[i] = s}

(* "sav should already be freed, and sav->refcnt shows other references to *)
(* sav (such as from SPD)" (key.c, key_timehandler): an SA has one         *)
(* reference of the database until it is dead and one of each request that *)
(* holds it.  None is freed early, none leaks, through every message,      *)
(* packet and timer.                                                       *)
RefsBalanced ==
    \A s \in Sa : sa[s].refcnt = (IF Alive(sa[s]) THEN 1 ELSE 0) + Cardinality(Holders(s))

(* A request never holds memory that was freed.                            *)
HoldersValid == \A i \in Isr : isr[i] # NoSa => sa[isr[i]] # Free

(* SAs alive can be found: they are on the one index that is live, whatever *)
(* flushes and timers did to older indices.                                *)
AliveOnLiveHead ==
    /\ \A s \in Sa : Alive(sa[s]) => head[sa[s].on] = "live"
    /\ Cardinality(LiveHead) <= 1

(* An SA never goes back to an earlier state.                              *)
StateForward ==
    [][\A s \in Sa : sa[s] # Free /\ sa'[s] # Free
           => Rank(sa[s].state) <= Rank(sa'[s].state)]_vars

(* Every SA with lifetimes is freed in the end: negotiated or not, used or *)
(* not, held by policies or not.                                           *)
SaEnds == \A s \in Sa : sa[s] # Free ~> sa[s] = Free

(* While there is no SA to be had and the daemon says nothing, it is asked *)
(* again and again; suppressing SADB_ACQUIRE never becomes silence.        *)
AskedAgain == <>[](Valid(sa) = {} /\ asked # "told") => []<>(asked = "ask")

=============================================================================
