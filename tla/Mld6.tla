-------------------------------- MODULE Mld6 -------------------------------
(***************************************************************************)
(* Listeners of one multicast group on a link: mld6.c (MLDv1) on several   *)
(* hosts, the queries of a multicast router (or of mld6query), and the     *)
(* link, which may lose, delay and reorder messages.  The group is one     *)
(* that is reported: neither all-nodes nor of a scope below link-local.    *)
(*                                                                         *)
(* The code has one variant for FreeBSD, where the reference count of a    *)
(* membership is the interface layer's, and one for NetBSD and OpenBSD.    *)
(* A link may have hosts of both kinds.                                    *)
(***************************************************************************)
EXTENDS Integers

CONSTANTS
    Host,
    FreeBSD,   \* the hosts that run the FreeBSD variant
    MaxClaims  \* bound: joins of the group by sockets and addresses of a host

ASSUME Mld6Assumption == FreeBSD \subseteq Host /\ MaxClaims \in Nat \ {0}

VARIABLES
    claims, \* claims[h]: in6m_refcount; 0: no membership record
    state,  \* in6m_state
    timer,  \* the callout of the record is pending
    wire,   \* messages on the way, each to one host
    last,   \* who sent the last report h heard or sent for this membership
    due     \* h has joined or was queried, and the group was not reported since

vars == <<claims, state, timer, wire, last, due>>

Listens(h) == claims[h] > 0

Message == [type : {"query0", "query", "report", "done"}, to : Host]

TypeOK ==
    /\ claims \in [Host -> 0..MaxClaims]
    /\ state \in [Host -> {"other", "ireportedlast", "reportpending"}]
    /\ timer \in [Host -> BOOLEAN]
    /\ wire \subseteq Message
    /\ last \in [Host -> {"none", "mine", "other"}]
    /\ due \in [Host -> BOOLEAN]

----------------------------------------------------------------------------
(* Messages.                                                               *)

\* A message of h to the link: each other host may or may not get it, or
\* none (no link-local address, no mbuf).
Send(type, h, from) ==
    \E to \in SUBSET (Host \ {h}) : wire' = from \union [type : {type}, to : to]

\* A report of h: state and timer are up to the caller.
Report(h, from) ==
    /\ Send("report", h, from)
    /\ last' = [last EXCEPT ![h] = "mine"]
    /\ due' = [due EXCEPT ![h] = FALSE]

\* mld_start_listening: a report, and a second one some time later.
StartListening(h) ==
    /\ Report(h, wire)
    /\ state' = [state EXCEPT ![h] = "ireportedlast"]
    /\ timer' = [timer EXCEPT ![h] = TRUE]

----------------------------------------------------------------------------
(* Joining and leaving (in6_addmulti, in6_delmulti).                       *)

\* A first claim may ask for a delay (delay > 0).
Join(h, delay) ==
    /\ ~Listens(h)
    /\ claims' = [claims EXCEPT ![h] = 1]
    /\ IF delay
       THEN /\ state' = [state EXCEPT ![h] = "reportpending"]
            /\ timer' = [timer EXCEPT ![h] = TRUE]
            /\ due' = [due EXCEPT ![h] = TRUE]
            /\ UNCHANGED <<wire, last>>
       ELSE StartListening(h)

JoinAgain(h) ==
    /\ Listens(h) /\ claims[h] < MaxClaims
    /\ claims' = [claims EXCEPT ![h] = @ + 1]
    /\ UNCHANGED <<state, timer, wire, last, due>>

\* One of several claims goes.  The other variant stops the timer first.
LeaveOne(h) ==
    /\ claims[h] > 1
    /\ claims' = [claims EXCEPT ![h] = @ - 1]
    /\ timer' = [timer EXCEPT ![h] = @ /\ h \in FreeBSD]
    /\ UNCHANGED <<state, wire, last, due>>

\* The last claim goes: mld_stop_listening, and the record is freed.
Leave(h) ==
    /\ claims[h] = 1
    /\ claims' = [claims EXCEPT ![h] = 0]
    /\ IF state[h] = "ireportedlast" THEN Send("done", h, wire) ELSE UNCHANGED wire
    /\ state' = [state EXCEPT ![h] = "other"]
    /\ timer' = [timer EXCEPT ![h] = FALSE]
    /\ last' = [last EXCEPT ![h] = "none"]
    /\ due' = [due EXCEPT ![h] = FALSE]

----------------------------------------------------------------------------
(* mld_timeo and mld_input.                                                *)

TimeoPending(h) ==
    /\ timer[h] /\ state[h] = "reportpending"
    /\ StartListening(h)
    /\ UNCHANGED claims

\* The report is sent, and the flag left as it is.
TimeoReport(h) ==
    /\ timer[h] /\ state[h] # "reportpending"
    /\ Report(h, wire)
    /\ timer' = [timer EXCEPT ![h] = FALSE]
    /\ UNCHANGED <<claims, state>>

Timeo(h) == TimeoPending(h) \/ TimeoReport(h)

Arrives(m) == m \in wire

\* Of no interest: no such membership, a report not yet due, or a Done.
HeardNothing(m) ==
    /\ Arrives(m)
    /\ \/ ~Listens(m.to)
       \/ m.type = "done"
       \/ m.type \in {"query0", "query"} /\ state[m.to] = "reportpending"
    /\ wire' = wire \ {m}
    /\ UNCHANGED <<claims, state, timer, last, due>>

\* Mutant: the answer is scheduled only if no timer was ever stopped.
HeardQueryIdle(h, m) ==
    /\ Arrives(m) /\ m.to = h
    /\ m.type = "query" /\ Listens(h) /\ state[h] # "reportpending"
    /\ timer' = [timer EXCEPT ![h] = @ \/ state[h] = "ireportedlast"]
    /\ due' = [due EXCEPT ![h] = TRUE]
    /\ wire' = wire \ {m}
    /\ UNCHANGED <<claims, state, last>>

\* A query gives a delay: a timer that is idle or later is started anew.
HeardQuery(h, m) ==
    /\ Arrives(m) /\ m.to = h
    /\ m.type = "query" /\ Listens(h) /\ state[h] # "reportpending"
    /\ timer' = [timer EXCEPT ![h] = TRUE]
    /\ due' = [due EXCEPT ![h] = TRUE]
    /\ wire' = wire \ {m}
    /\ UNCHANGED <<claims, state, last>>

\* A query that wants an answer at once.
HeardQuery0(h, m) ==
    /\ Arrives(m) /\ m.to = h
    /\ m.type = "query0" /\ Listens(h) /\ state[h] # "reportpending"
    /\ Report(h, wire \ {m})
    /\ state' = [state EXCEPT ![h] = "ireportedlast"]
    /\ timer' = [timer EXCEPT ![h] = FALSE]
    /\ UNCHANGED claims

\* Mutant: the flag stays.
HeardReportKeepsFlag(h, m) ==
    /\ Arrives(m) /\ m.to = h
    /\ m.type = "report" /\ Listens(h)
    /\ state' = [state EXCEPT ![h] = IF @ = "reportpending" THEN "other" ELSE @]
    /\ timer' = [timer EXCEPT ![h] = FALSE]
    /\ last' = [last EXCEPT ![h] = "other"]
    /\ due' = [due EXCEPT ![h] = FALSE]
    /\ wire' = wire \ {m}
    /\ UNCHANGED claims

\* Another listener has reported the group.
HeardReport(h, m) ==
    /\ Arrives(m) /\ m.to = h
    /\ m.type = "report" /\ Listens(h)
    /\ state' = [state EXCEPT ![h] = "other"]
    /\ timer' = [timer EXCEPT ![h] = FALSE]
    /\ last' = [last EXCEPT ![h] = "other"]
    /\ due' = [due EXCEPT ![h] = FALSE]
    /\ wire' = wire \ {m}
    /\ UNCHANGED claims

\* A general query or one for this group, which any host may miss.
Query(type) ==
    /\ \E to \in SUBSET Host : wire' = wire \union [type : {type}, to : to]
    /\ UNCHANGED <<claims, state, timer, last, due>>

----------------------------------------------------------------------------
Init ==
    /\ claims = [h \in Host |-> 0]
    /\ state = [h \in Host |-> "other"]
    /\ timer = [h \in Host |-> FALSE]
    /\ wire = {}
    /\ last = [h \in Host |-> "none"]
    /\ due = [h \in Host |-> FALSE]

Next ==
    \/ \E h \in Host :
          \/ \E delay \in BOOLEAN : Join(h, delay)
          \/ JoinAgain(h)
          \/ LeaveOne(h)
          \/ Leave(h)
          \/ Timeo(h)
          \/ \E m \in wire : HeardQuery(h, m) \/ HeardQuery0(h, m) \/ HeardReport(h, m)
    \/ \E m \in wire : HeardNothing(m)
    \/ \E type \in {"query", "query0"} : Query(type)

Spec == Init /\ [][Next]_vars

\* Callouts run.  Nothing is assumed of the link or of the router.
FairSpec == Spec /\ \A h \in Host : WF_vars(Timeo(h))

----------------------------------------------------------------------------
(* "For fast leave to work, we have to know that we are the last person to *)
(* send a report for this group" (mld6.c:514): a Done is sent only by a    *)
(* host that has heard no report of another listener since its own last    *)
(* one, however reports, queries and timers crossed.                       *)
DoneByLastReporter ==
    [][\A h \in Host :
          (\E m \in wire' \ wire : m.type = "done") /\ Listens(h) /\ claims'[h] = 0
              => last[h] = "mine"]_vars

(* Whoever joins, or hears a query as a listener, sends a report or hears  *)
(* one of another listener before long, unless it leaves: no order of      *)
(* reports, queries and claims that come and go silences it.               *)
Reported == \A h \in FreeBSD : due[h] ~> ~due[h]

(* A report that is due has its callout.                                   *)
DueIsTimed == \A h \in FreeBSD : due[h] => timer[h]

=============================================================================
