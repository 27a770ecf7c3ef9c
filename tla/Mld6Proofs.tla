----------------------------- MODULE Mld6Proofs ----------------------------
(* Proofs about Mld6, for any set of hosts of either variant: the types,   *)
(* that a report that is due has its callout, and that only the last       *)
(* reporter of the group sends a Done.                                     *)
EXTENDS Mld6, TLAPS

\* What mld_stop_listening goes by: the flag is true of the history.
FlagMine == \A h \in Host : state[h] = "ireportedlast" => last[h] = "mine"

IInv == TypeOK /\ FlagMine

\* A step is an action of one host, of one message, or of the router.
HostStep(h) ==
    \/ \E delay \in BOOLEAN : Join(h, delay)
    \/ JoinAgain(h)
    \/ LeaveOne(h)
    \/ Leave(h)
    \/ Timeo(h)
    \/ \E m \in wire : HeardQuery(h, m) \/ HeardQuery0(h, m) \/ HeardReport(h, m)

(* Sending puts messages on the wire and nothing else.                     *)
LEMMA SendTypes ==
    ASSUME NEW h \in Host, NEW type \in {"query0", "query", "report", "done"},
           NEW from \in SUBSET Message, Send(type, h, from)
    PROVE  wire' \subseteq Message
  BY DEF Send, Message

(* Every step of the hosts, the router and the link keeps the types and    *)
(* the meaning of MLD_IREPORTEDLAST (mld6.c:438).                          *)
LEMMA StepIInv == IInv /\ [Next]_vars => IInv'
<1> SUFFICES ASSUME IInv, [Next]_vars PROVE IInv'
  OBVIOUS
<1> USE Mld6Assumption
<1>1. ASSUME NEW h \in Host, HostStep(h) PROVE IInv'
  <2>1. ASSUME NEW delay \in BOOLEAN, Join(h, delay) PROVE IInv'
    <3>1. CASE delay
      <4>1. /\ claims' = [claims EXCEPT ![h] = 1]
            /\ state' = [state EXCEPT ![h] = "reportpending"]
            /\ timer' = [timer EXCEPT ![h] = TRUE]
            /\ due' = [due EXCEPT ![h] = TRUE]
            /\ UNCHANGED <<wire, last>>
        BY <2>1, <3>1 DEF Join
      <4> QED
        BY <4>1 DEF IInv, TypeOK, FlagMine
    <3>2. CASE ~delay
      <4>1. StartListening(h)
        BY <2>1, <3>2 DEF Join
      <4>2. wire' \subseteq Message
        BY <4>1, SendTypes DEF StartListening, Report, IInv, TypeOK
      <4> QED
        BY <2>1, <4>1, <4>2 DEF IInv, TypeOK, FlagMine, Join, StartListening, Report
    <3> QED
      BY <3>1, <3>2
  <2>2. ASSUME JoinAgain(h) PROVE IInv'
    BY <2>2 DEF IInv, TypeOK, FlagMine, JoinAgain
  <2>3. ASSUME LeaveOne(h) PROVE IInv'
    BY <2>3 DEF IInv, TypeOK, FlagMine, LeaveOne
  <2>4. ASSUME Leave(h) PROVE IInv'
    <3>1. wire' \subseteq Message
      BY <2>4, SendTypes DEF Leave, IInv, TypeOK
    <3> QED
      BY <2>4, <3>1 DEF IInv, TypeOK, FlagMine, Leave
  <2>5. ASSUME Timeo(h) PROVE IInv'
    <3>1. wire' \subseteq Message
      BY <2>5, SendTypes DEF Timeo, TimeoPending, TimeoReport, StartListening,
                             Report, IInv, TypeOK
    <3>2. CASE TimeoPending(h)
      BY <3>1, <3>2 DEF IInv, TypeOK, FlagMine, TimeoPending, StartListening, Report
    <3>3. CASE TimeoReport(h)
      BY <3>1, <3>3 DEF IInv, TypeOK, FlagMine, TimeoReport, Report
    <3> QED
      BY <2>5, <3>2, <3>3 DEF Timeo
  <2>6. ASSUME NEW m \in wire, HeardQuery(h, m) PROVE IInv'
    BY <2>6 DEF IInv, TypeOK, FlagMine, HeardQuery
  <2>7. ASSUME NEW m \in wire, HeardQuery0(h, m) PROVE IInv'
    <3>1. wire' \subseteq Message
      BY <2>7, SendTypes DEF HeardQuery0, Report, IInv, TypeOK
    <3> QED
      BY <2>7, <3>1 DEF IInv, TypeOK, FlagMine, HeardQuery0, Report
  <2>8. ASSUME NEW m \in wire, HeardReport(h, m) PROVE IInv'
    BY <2>8 DEF IInv, TypeOK, FlagMine, HeardReport
  <2> QED
    BY <1>1, <2>1, <2>2, <2>3, <2>4, <2>5, <2>6, <2>7, <2>8 DEF HostStep
<1>2. ASSUME NEW m \in wire, HeardNothing(m) PROVE IInv'
  BY <1>2 DEF IInv, TypeOK, FlagMine, HeardNothing
<1>3. ASSUME NEW type \in {"query", "query0"}, Query(type) PROVE IInv'
  BY <1>3 DEF IInv, TypeOK, FlagMine, Query, Message
<1>4. CASE UNCHANGED vars
  BY <1>4 DEF IInv, TypeOK, FlagMine, vars
<1> QED
  BY <1>1, <1>2, <1>3, <1>4 DEF Next, HostStep

LEMMA InitIInv == Init => IInv
  BY Mld6Assumption DEF Init, IInv, TypeOK, FlagMine

(* The types hold, and with them FlagMine.                                 *)
THEOREM MldTypes == Spec => [](TypeOK /\ FlagMine)
<1>1. IInv => TypeOK /\ FlagMine
  BY DEF IInv
<1> QED
  BY <1>1, InitIInv, StepIInv, PTL DEF Spec

(* A Done is sent only by a host that has heard no other listener since    *)
(* its own last report: mld_stop_listening sends one only if the flag is   *)
(* set, and FlagMine says what the flag means.                             *)
THEOREM LastReporterDone == Spec => DoneByLastReporter
<1> DEFINE Told == \A h \in Host :
          (\E m \in wire' \ wire : m.type = "done") /\ Listens(h) /\ claims'[h] = 0
              => last[h] = "mine"
<1>1. IInv /\ [Next]_vars => [Told]_vars
  <2> SUFFICES ASSUME IInv, Next, NEW g \in Host, Listens(g), claims'[g] = 0,
                      NEW d \in wire' \ wire
               PROVE  last[g] = "mine"
    BY DEF vars
  <2> USE DEF IInv, TypeOK, Listens
  <2>1. ASSUME NEW h \in Host, HostStep(h) PROVE last[g] = "mine"
    <3>1. ASSUME NEW delay \in BOOLEAN, Join(h, delay) PROVE FALSE
      BY <3>1 DEF Join
    <3>2. ASSUME JoinAgain(h) PROVE FALSE
      BY <3>2, Mld6Assumption DEF JoinAgain
    <3>3. ASSUME LeaveOne(h) PROVE FALSE
      BY <3>3, Mld6Assumption DEF LeaveOne
    <3>4. ASSUME Leave(h) PROVE last[g] = "mine"
      <4>1. g = h
        BY <3>4 DEF Leave
      <4>2. state[h] = "ireportedlast"
        BY <3>4 DEF Leave
      <4> QED
        BY <4>1, <4>2 DEF FlagMine
    <3>5. ASSUME Timeo(h) PROVE FALSE
      BY <3>5 DEF Timeo, TimeoPending, TimeoReport
    <3>6. ASSUME NEW m \in wire,
                 HeardQuery(h, m) \/ HeardQuery0(h, m) \/ HeardReport(h, m)
          PROVE  FALSE
      BY <3>6 DEF HeardQuery, HeardQuery0, HeardReport
    <3> QED
      BY <2>1, <3>1, <3>2, <3>3, <3>4, <3>5, <3>6 DEF HostStep
  <2>2. ASSUME NEW m \in wire, HeardNothing(m) PROVE FALSE
    BY <2>2 DEF HeardNothing
  <2>3. ASSUME NEW type \in {"query", "query0"}, Query(type) PROVE FALSE
    BY <2>3 DEF Query
  <2> QED
    BY <2>1, <2>2, <2>3 DEF Next, HostStep
<1>2. DoneByLastReporter <=> [][Told]_vars
  BY DEF DoneByLastReporter
<1> QED
  BY <1>1, <1>2, InitIInv, StepIInv, PTL DEF Spec

(* On a FreeBSD host the callout of a report that is due is pending: the   *)
(* safety half of Reported.  It needs nothing but the types.               *)
THEOREM DueTimed == Spec => []DueIsTimed
<1>1. Init => DueIsTimed
  BY Mld6Assumption DEF Init, DueIsTimed
<1>2. IInv /\ DueIsTimed /\ [Next]_vars => DueIsTimed'
  <2> SUFFICES ASSUME IInv, DueIsTimed, [Next]_vars PROVE DueIsTimed'
    OBVIOUS
  <2> USE Mld6Assumption DEF IInv, TypeOK, DueIsTimed
  <2>1. ASSUME NEW h \in Host, HostStep(h) PROVE DueIsTimed'
    <3>1. ASSUME NEW delay \in BOOLEAN, Join(h, delay) PROVE DueIsTimed'
      BY <3>1 DEF Join, StartListening, Report
    <3>2. ASSUME JoinAgain(h) \/ LeaveOne(h) \/ Leave(h) PROVE DueIsTimed'
      BY <3>2 DEF JoinAgain, LeaveOne, Leave
    <3>3. ASSUME Timeo(h) PROVE DueIsTimed'
      BY <3>3 DEF Timeo, TimeoPending, TimeoReport, StartListening, Report
    <3>4. ASSUME NEW m \in wire,
                 HeardQuery(h, m) \/ HeardQuery0(h, m) \/ HeardReport(h, m)
          PROVE  DueIsTimed'
      BY <3>4 DEF HeardQuery, HeardQuery0, HeardReport, Report
    <3> QED
      BY <2>1, <3>1, <3>2, <3>3, <3>4 DEF HostStep
  <2>2. ASSUME NEW m \in wire, HeardNothing(m) PROVE DueIsTimed'
    BY <2>2 DEF HeardNothing
  <2>3. ASSUME NEW type \in {"query", "query0"}, Query(type) PROVE DueIsTimed'
    BY <2>3 DEF Query
  <2>4. CASE UNCHANGED vars
    BY <2>4 DEF vars
  <2> QED
    BY <2>1, <2>2, <2>3, <2>4 DEF Next, HostStep
<1> QED
  BY <1>1, <1>2, InitIInv, StepIInv, PTL DEF Spec

=============================================================================
