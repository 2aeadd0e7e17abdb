----------------------------- MODULE RTCPReports -----------------------------
(***************************************************************************)
(* When an RTCPInstance that only receives (fSink is NULL) sends its       *)
(* reports, and whom it counts as members of the session.  The interval    *)
(* between reports grows with the members; OnExpire() draws it anew before *)
(* a report is sent, and OnReceive() brings the report forward when a      *)
(* member leaves.  Members that are silent for some reports are reaped.    *)
(*                                                                         *)
(* Times are kept relative to the present, and the counts of reports       *)
(* relative to fOutgoingReportCount.                                       *)
(***************************************************************************)
EXTENDS Integers, FiniteSets

CONSTANTS
  Others,     \* the SSRCs of the other participants
  Period,     \* membershipReapPeriod (5)
  MinTime,    \* RTCP_MIN_TIME, in units of COMPENSATION
  Costs,      \* what one member adds to the interval: average size / bandwidth
  MaxLate,    \* bound: how late the event loop calls onExpire()
  LongAgo     \* bound: no interval is longer than this

ASSUME OthersAssumption == IsFiniteSet(Others)
ASSUME PeriodAssumption == Period \in Nat \ {0, 1}
ASSUME TimesAssumption ==
  /\ MinTime \in Nat /\ MaxLate \in Nat
  /\ Costs \subseteq Nat /\ Costs # {} /\ IsFiniteSet(Costs)

VARIABLES
  table,          \* RTCPMemberDatabase: how many reports ago an SSRC was noted
  fNumMembers,
  reports,        \* fOutgoingReportCount % Period
  fPrevNumMembers,
  fIsInitial,
  sinceReport,    \* the present - fPrevReportTime
  untilReport,    \* fNextReportTime, for which onExpire() is scheduled, - the present
  sinceSent       \* history: time since a report was sent, up to LongAgo

vars == <<table, fNumMembers, reports, fPrevNumMembers, fIsInitial, sinceReport, untilReport,
          sinceSent>>

None == -1
Members == {s \in Others : table[s] # None}

Larger(m, n)  == IF m > n THEN m ELSE n
Smaller(m, n) == IF m < n THEN m ELSE n

(***************************************************************************)
(* rtcp_interval(), for a session without senders.                         *)
(***************************************************************************)
Minimum(initial) == IF initial THEN MinTime \div 2 ELSE MinTime
Deterministic(members, initial) == {Larger(Minimum(initial), members * cost) : cost \in Costs}

\* The interval is random, from one half to three halves of this.
Intervals(members, initial) ==
  UNION {(t \div 2)..((3 * t) \div 2) : t \in Deterministic(members, initial)}

ASSUME LongAgoAssumption ==
  /\ LongAgo \in Nat
  /\ \A members \in 1..(1 + Cardinality(Others)), initial \in BOOLEAN :
       \A t \in Intervals(members, initial) : t <= LongAgo

\* The constructor calls onExpire(), which schedules the first report.
Init ==
  /\ table = [s \in Others |-> None]
  /\ fNumMembers = 1
  /\ reports = 1 % Period
  /\ fPrevNumMembers = 1
  /\ fIsInitial = TRUE
  /\ sinceReport = 0
  /\ untilReport \in Intervals(1, TRUE)
  /\ sinceSent = LongAgo

Tick ==
  /\ untilReport > -MaxLate
  /\ sinceReport' = sinceReport + 1
  /\ untilReport' = untilReport - 1
  /\ sinceSent' = Smaller(sinceSent + 1, LongAgo)
  /\ UNCHANGED <<table, fNumMembers, reports, fPrevNumMembers, fIsInitial>>

(***************************************************************************)
(* onExpire()                                                              *)
(***************************************************************************)

\* Slip: those are reaped who were last noted right after the reports of the
\* last period.
OldLate(noted) == {s \in Members : noted[s] > Period + 1}

\* reapOldMembers(): who has not been noted for more than a period.
Old(noted) == {s \in Members : noted[s] > Period}

\* sendReport(): the count goes up, and at every period members are reaped; or
\* reports are not enabled (see setStreamSocket() over TCP), and nothing is sent.
SendReport ==
  LET noted == [s \in Others |-> IF s \in Members THEN table[s] + 1 ELSE None]
      reap  == (reports + 1) % Period = 0
      gone  == IF reap THEN Old(noted) ELSE {}
  IN \/ /\ reports' = (reports + 1) % Period
        /\ table' = [s \in Others |-> IF s \in gone THEN None ELSE noted[s]]
        /\ fNumMembers' = fNumMembers - Cardinality(gone)
        /\ sinceSent' = 0
     \/ UNCHANGED <<reports, table, fNumMembers, sinceSent>>

\* Slip: the timer is believed.
DueUnconditionally(t) == TRUE

\* Reconsideration: a report is due if the interval, drawn for the members of now,
\* has passed.
Due(t) == sinceReport >= t

\* Slip: a report that is not due is forgotten.
AgainNot(t) == untilReport' = untilReport

\* Schedule() for the interval drawn.
Again(t) == untilReport' = t - sinceReport

Expire ==
  /\ untilReport <= 0
  /\ \E t \in Intervals(fNumMembers, fIsInitial) :
       \/ /\ Due(t)
          /\ SendReport
          /\ sinceReport' = 0
          /\ untilReport' \in Intervals(fNumMembers, fIsInitial)
          /\ fIsInitial' = FALSE
       \/ /\ ~Due(t)
          /\ Again(t)
          /\ UNCHANGED <<reports, table, fNumMembers, sinceSent, sinceReport, fIsInitial>>
  /\ fPrevNumMembers' = fNumMembers

(***************************************************************************)
(* onReceive()                                                             *)
(***************************************************************************)

\* NewMember(), which also notes a member, new or not.
Note(s) ==
  /\ table' = [table EXCEPT ![s] = 0]
  /\ fNumMembers' = fNumMembers + (IF s \in Members THEN 0 ELSE 1)

\* A report, alone or with other packets that are no BYE.
ReceiveReport(s) ==
  /\ Note(s)
  /\ UNCHANGED <<reports, fPrevNumMembers, fIsInitial, sinceReport, untilReport, sinceSent>>

\* Reverse reconsideration: the time of the next report, and that from which its
\* interval counts, come closer in proportion to the members that are left.
Forward(members) ==
  /\ untilReport' = (members * untilReport) \div fPrevNumMembers
  /\ sinceReport' = (members * sinceReport) \div fPrevNumMembers
  /\ fPrevNumMembers' = members

\* A BYE: NewMember() notes the one who leaves; if it was no member yet, it stays
\* one, but is not counted here.  The reaped count as leaving, too, at the first BYE
\* after their report.
ReceiveBye(s) ==
  LET left == IF s \in Members THEN fNumMembers - 1 ELSE fNumMembers
  IN /\ \/ s \in Members /\ table' = [table EXCEPT ![s] = None] /\ fNumMembers' = left
        \/ s \notin Members /\ Note(s)
     /\ IF left < fPrevNumMembers THEN Forward(left)
        ELSE UNCHANGED <<fPrevNumMembers, sinceReport, untilReport>>
     /\ UNCHANGED <<reports, fIsInitial, sinceSent>>

Next ==
  \/ Tick \/ Expire
  \/ \E s \in Others : ReceiveReport(s) \/ ReceiveBye(s)

Spec == Init /\ [][Next]_vars

\* Time passes, and the event loop calls onExpire() when it is due.
FairSpec == Spec /\ WF_vars(Tick) /\ WF_vars(Expire)

-----------------------------------------------------------------------------
(***************************************************************************)
(* Properties.                                                             *)
(***************************************************************************)

\* The values the variables may have.
TypeOK ==
  /\ table \in [Others -> {None} \cup Nat]
  /\ fNumMembers \in Nat \ {0} /\ fPrevNumMembers \in Nat \ {0}
  /\ reports \in 0..Period - 1
  /\ fIsInitial \in BOOLEAN
  /\ sinceReport \in Nat /\ untilReport \in Int /\ sinceSent \in 0..LongAgo

\* Whoever comes, leaves, leaves without having come, or falls silent: the number
\* of members is that of the table and ourselves, and nobody who has not been
\* heard for two periods of reports is among them.
MembersCurrent ==
  /\ TypeOK
  /\ fNumMembers = 1 + Cardinality(Members)
  /\ \A s \in Members : table[s] <= Period + reports

\* Reports keep the distance that the members of that moment demand, though members
\* come while the timer runs, and others that leave bring it forward.
ReportsApart ==
  [][reports' # reports =>
       \E t \in Intervals(fNumMembers, fIsInitial) : t <= sinceSent]_vars

\* Reports go on, unless members leave again and again (each BYE may put off the
\* report by what it moves fPrevReportTime).
ReportsGoOn ==
  []<><<Expire /\ sinceReport' = 0>>_vars \/ []<><<\E s \in Others : ReceiveBye(s)>>_vars
=============================================================================
