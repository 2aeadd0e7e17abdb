------------------------- MODULE RTCPReports_proofs -------------------------
(***************************************************************************)
(* The membership and the distance between reports, for any participants,  *)
(* any period, any costs of a member and any interval.                     *)
(***************************************************************************)
EXTENDS RTCPReports, TLAPS, FiniteSetTheorems

\* The members are a finite set, counted by a natural number.
LEMMA MembersFinite ==
  ASSUME TypeOK
  PROVE  IsFiniteSet(Members) /\ Cardinality(Members) \in Nat
         /\ Cardinality(Members) <= Cardinality(Others) /\ Cardinality(Others) \in Nat
<1>1. Members \subseteq Others
  BY DEF Members
<1> QED
  BY <1>1, FS_Subset, FS_CardinalityType, OthersAssumption

\* Every interval is a whole number.
LEMMA IntervalsInt ==
  ASSUME NEW m \in Nat, NEW initial \in BOOLEAN, NEW t \in Intervals(m, initial)
  PROVE  t \in Int
BY DEF Intervals

\* The time since the last computed report is no longer than since the last one sent.
ReportTimesAgree == sinceReport <= sinceSent \/ sinceSent = LongAgo

IInv == MembersCurrent /\ ReportTimesAgree

\* The initial states.
LEMMA InitIInv == Init => IInv
<1> SUFFICES ASSUME Init PROVE IInv
  OBVIOUS
<1>1. Members = {}
  BY DEF Init, Members
<1>2. untilReport \in Int
  BY IntervalsInt DEF Init
<1>3. TypeOK
  BY <1>2, PeriodAssumption, LongAgoAssumption DEF Init, TypeOK, None
<1>4. Cardinality(Members) = 0
  BY <1>1, FS_EmptySet
<1> QED
  BY <1>1, <1>3, <1>4 DEF Init, IInv, MembersCurrent, ReportTimesAgree

\* NewMember() counts whom it adds.
LEMMA NoteCounts ==
  ASSUME TypeOK, fNumMembers = 1 + Cardinality(Members), NEW s \in Others, Note(s)
  PROVE  /\ table' \in [Others -> {None} \cup Nat]
         /\ fNumMembers' \in Nat \ {0}
         /\ fNumMembers' = 1 + Cardinality(Members')
         /\ Members' = Members \cup {s}
         /\ \A r \in Others : table'[r] = IF r = s THEN 0 ELSE table[r]
<1>1. Members' = Members \cup {s}
  BY DEF Note, Members, None, TypeOK
<1>2. IsFiniteSet(Members) /\ Cardinality(Members) \in Nat
  BY MembersFinite
<1>3. Cardinality(Members') = IF s \in Members THEN Cardinality(Members) ELSE Cardinality(Members) + 1
  BY <1>1, <1>2, FS_AddElement
<1> QED
  BY <1>1, <1>2, <1>3 DEF Note, TypeOK

\* Whom NewMember() notes has just been heard.
LEMMA NoteIsRecent ==
  ASSUME MembersCurrent, NEW s \in Others, Note(s), UNCHANGED reports, NEW r \in Members'
  PROVE  table'[r] <= Period + reports'
<1>1. r \in Members \cup {s} /\ r \in Others /\ table'[r] = IF r = s THEN 0 ELSE table[r]
  BY NoteCounts DEF MembersCurrent, Members
<1>2. Period + reports \in Nat
  BY PeriodAssumption DEF MembersCurrent, TypeOK
<1> QED
  BY <1>1, <1>2 DEF MembersCurrent

\* sendReport() counts whom it reaps, and leaves nobody who has not been noted for
\* more than a period.
LEMMA ReportReaps ==
  ASSUME MembersCurrent, SendReport
  PROVE  /\ table' \in [Others -> {None} \cup Nat]
         /\ fNumMembers' \in Nat \ {0}
         /\ reports' \in 0..Period - 1
         /\ fNumMembers' = 1 + Cardinality(Members')
         /\ \A s \in Members' : table'[s] <= Period + reports'
<1> DEFINE noted == [s \in Others |-> IF s \in Members THEN table[s] + 1 ELSE None]
           gone == IF (reports + 1) % Period = 0 THEN Old(noted) ELSE {}
<1>1. CASE UNCHANGED <<reports, table, fNumMembers, sinceSent>>
  BY <1>1 DEF MembersCurrent, TypeOK, Members
<1>2. CASE /\ reports' = (reports + 1) % Period
           /\ table' = [s \in Others |-> IF s \in gone THEN None ELSE noted[s]]
           /\ fNumMembers' = fNumMembers - Cardinality(gone)
  <2>1. gone \subseteq Members
    BY DEF Old
  <2>2. \A s \in Members : table[s] \in Nat /\ noted[s] = table[s] + 1
    BY DEF Members, MembersCurrent, TypeOK
  <2>3. table' \in [Others -> {None} \cup Nat] /\ Members' = Members \ gone
    BY <1>2, <2>1, <2>2 DEF Members, None
  <2>4. IsFiniteSet(Members) /\ Cardinality(Members) \in Nat
    BY MembersFinite DEF MembersCurrent
  <2>5. Cardinality(Members') = Cardinality(Members) - Cardinality(gone)
    <3>1. Members \cap gone = gone
      BY <2>1
    <3> QED
      BY <2>3, <2>4, <3>1, FS_Difference
  <2>6. IsFiniteSet(Members') /\ Cardinality(Members') \in Nat
    BY <2>3, <2>4, FS_Subset, FS_CardinalityType
  <2>7. Cardinality(gone) \in Nat
    BY <2>1, <2>4, FS_Subset, FS_CardinalityType
  <2>8. fNumMembers' = 1 + Cardinality(Members') /\ fNumMembers' \in Nat \ {0}
    BY <1>2, <2>4, <2>5, <2>6, <2>7 DEF MembersCurrent
  <2>9. /\ reports' \in 0..Period - 1
        /\ reports' = IF reports + 1 = Period THEN 0 ELSE reports + 1
    BY <1>2, PeriodAssumption DEF MembersCurrent, TypeOK
  <2>10. ASSUME NEW s \in Members' PROVE table'[s] <= Period + reports'
    <3>1. s \in Members /\ s \notin gone /\ s \in Others /\ table'[s] = table[s] + 1
      BY <1>2, <2>2, <2>3 DEF Members
    <3>2. CASE reports + 1 = Period
      <4>1. (reports + 1) % Period = 0
        BY <1>2, <2>9, <3>2
      <4>2. ~(noted[s] > Period)
        BY <3>1, <4>1 DEF Old
      <4> QED
        BY <2>2, <2>9, <3>1, <3>2, <4>2, PeriodAssumption
    <3>3. CASE reports + 1 # Period
      BY <2>2, <2>9, <3>1, <3>3, PeriodAssumption DEF MembersCurrent, TypeOK
    <3> QED
      BY <3>2, <3>3
  <2> QED
    BY <2>3, <2>8, <2>9, <2>10
<1> QED
  BY <1>1, <1>2 DEF SendReport

\* Reverse reconsideration makes both times whole numbers, and the past no longer.
LEMMA ForwardShrinks ==
  ASSUME TypeOK, NEW m \in Nat \ {0}, m < fPrevNumMembers, Forward(m)
  PROVE  /\ untilReport' \in Int
         /\ sinceReport' \in Nat /\ sinceReport' <= sinceReport
         /\ fPrevNumMembers' \in Nat \ {0}
<1> DEFINE p == fPrevNumMembers
           q == (m * sinceReport) \div p
<1>1. /\ p \in Nat \ {0} /\ sinceReport \in Nat /\ untilReport \in Int
      /\ m * sinceReport \in Nat /\ m * untilReport \in Int
  BY DEF TypeOK
<1>2. /\ q \in Int /\ (m * untilReport) \div p \in Int
      /\ p * q <= m * sinceReport /\ m * sinceReport < p * (q + 1)
  BY <1>1
<1>3. m * sinceReport <= p * sinceReport
  BY <1>1
<1>4. q >= 0
  BY <1>1, <1>2
<1>5. q <= sinceReport
  <2>1. SUFFICES ASSUME q > sinceReport PROVE FALSE
    BY <1>1, <1>2
  <2>2. p * q > p * sinceReport
    BY <1>1, <1>2, <2>1
  <2> QED
    BY <1>1, <1>2, <1>3, <2>2
<1> QED
  BY <1>1, <1>2, <1>4, <1>5 DEF Forward

\* Every step keeps the invariant.
LEMMA NextIInv == IInv /\ [Next]_vars => IInv'
<1> SUFFICES ASSUME IInv, [Next]_vars PROVE IInv'
  OBVIOUS
<1> USE DEF IInv
<1>0. TypeOK /\ IsFiniteSet(Members) /\ Cardinality(Members) \in Nat
  BY MembersFinite DEF MembersCurrent
<1>1. CASE Tick
  <2>1. Members' = Members
    BY <1>1 DEF Tick, Members
  <2>2. TypeOK'
    BY <1>0, <1>1, LongAgoAssumption DEF Tick, TypeOK, Smaller
  <2>3. ReportTimesAgree'
    BY <1>0, <1>1, LongAgoAssumption DEF Tick, TypeOK, Smaller, ReportTimesAgree
  <2> QED
    BY <1>1, <2>1, <2>2, <2>3 DEF Tick, MembersCurrent
<1>2. CASE Expire
  <2>1. PICK t \in Intervals(fNumMembers, fIsInitial) :
          \/ /\ Due(t)
             /\ SendReport
             /\ sinceReport' = 0
             /\ untilReport' \in Intervals(fNumMembers, fIsInitial)
             /\ fIsInitial' = FALSE
          \/ /\ ~Due(t)
             /\ Again(t)
             /\ UNCHANGED <<reports, table, fNumMembers, sinceSent, sinceReport, fIsInitial>>
    BY <1>2 DEF Expire
  <2>2. t \in Int /\ fPrevNumMembers' = fNumMembers
    BY <1>0, <1>2, IntervalsInt DEF Expire, TypeOK
  <2>3. CASE SendReport /\ sinceReport' = 0 /\ fIsInitial' = FALSE
             /\ untilReport' \in Intervals(fNumMembers, fIsInitial)
    <3>1. untilReport' \in Int
      BY <1>0, <2>3, IntervalsInt DEF TypeOK
    <3>2. sinceSent' \in 0..LongAgo
      BY <1>0, <2>3, LongAgoAssumption DEF SendReport, TypeOK
    <3>3. MembersCurrent'
      BY <1>0, <2>2, <2>3, <3>1, <3>2, ReportReaps DEF MembersCurrent, TypeOK
    <3> QED
      BY <2>3, <3>2, <3>3, LongAgoAssumption DEF ReportTimesAgree
  <2>4. CASE Again(t) /\ UNCHANGED <<reports, table, fNumMembers, sinceSent, sinceReport, fIsInitial>>
    <3>1. TypeOK' /\ Members' = Members
      BY <1>0, <2>2, <2>4 DEF Again, TypeOK, Members
    <3> QED
      BY <2>4, <3>1 DEF MembersCurrent, ReportTimesAgree
  <2> QED
    BY <2>1, <2>3, <2>4
<1>3. ASSUME NEW s \in Others, ReceiveReport(s) PROVE IInv'
  <2>1. TypeOK' /\ fNumMembers' = 1 + Cardinality(Members')
    BY <1>0, <1>3, NoteCounts DEF ReceiveReport, TypeOK, MembersCurrent
  <2>2. \A r \in Members' : table'[r] <= Period + reports'
    BY <1>3, NoteIsRecent DEF ReceiveReport
  <2> QED
    BY <1>3, <2>1, <2>2 DEF ReceiveReport, MembersCurrent, ReportTimesAgree
<1>4. ASSUME NEW s \in Others, ReceiveBye(s) PROVE IInv'
  <2> DEFINE left == IF s \in Members THEN fNumMembers - 1 ELSE fNumMembers
  <2>1. /\ IF left < fPrevNumMembers THEN Forward(left)
          ELSE UNCHANGED <<fPrevNumMembers, sinceReport, untilReport>>
        /\ UNCHANGED <<reports, fIsInitial, sinceSent>>
    BY <1>4 DEF ReceiveBye
  <2>2. left \in Nat \ {0}
    <3>1. s \in Members => Cardinality(Members) # 0
      BY <1>0, FS_EmptySet
    <3> QED
      BY <1>0, <3>1 DEF MembersCurrent
  <2>3. /\ untilReport' \in Int /\ sinceReport' \in Nat /\ sinceReport' <= sinceReport
        /\ fPrevNumMembers' \in Nat \ {0}
    <3>1. CASE left < fPrevNumMembers
      BY <1>0, <2>1, <2>2, <3>1, ForwardShrinks
    <3>2. CASE ~(left < fPrevNumMembers)
      BY <1>0, <2>1, <3>2 DEF TypeOK
    <3> QED
      BY <3>1, <3>2
  <2>4. ReportTimesAgree'
    BY <1>0, <2>1, <2>3, LongAgoAssumption DEF TypeOK, ReportTimesAgree
  <2>5. CASE s \notin Members /\ Note(s)
    <3>1. TypeOK' /\ fNumMembers' = 1 + Cardinality(Members')
      BY <1>0, <2>1, <2>3, <2>5, NoteCounts DEF TypeOK, MembersCurrent
    <3>2. \A r \in Members' : table'[r] <= Period + reports'
      BY <2>1, <2>5, NoteIsRecent
    <3> QED
      BY <2>4, <3>1, <3>2 DEF MembersCurrent
  <2>6. CASE s \in Members /\ table' = [table EXCEPT ![s] = None] /\ fNumMembers' = left
    <3>1. Members' = Members \ {s}
      BY <1>0, <2>6 DEF Members, TypeOK, None
    <3>2. /\ Cardinality(Members') = Cardinality(Members) - 1
          /\ Cardinality(Members') \in Nat
      BY <1>0, <2>6, <3>1, FS_RemoveElement, FS_CardinalityType
    <3>3. fNumMembers' \in Nat \ {0} /\ fNumMembers' = 1 + Cardinality(Members')
      BY <1>0, <2>2, <2>6, <3>2 DEF MembersCurrent
    <3>4. TypeOK'
      BY <1>0, <2>1, <2>3, <2>6, <3>3 DEF TypeOK
    <3>5. \A r \in Members' : table'[r] <= Period + reports'
      BY <1>0, <2>1, <2>6, <3>1 DEF TypeOK, Members, MembersCurrent
    <3> QED
      BY <2>4, <3>3, <3>4, <3>5 DEF MembersCurrent
  <2> QED
    BY <1>4, <2>5, <2>6 DEF ReceiveBye
<1>5. CASE UNCHANGED vars
  BY <1>5 DEF vars, MembersCurrent, TypeOK, Members, ReportTimesAgree
<1> QED
  BY <1>1, <1>2, <1>3, <1>4, <1>5 DEF Next

\* Whoever comes, leaves or falls silent, the members are counted, and nobody who
\* has not been heard for two periods is among them.
THEOREM MembersCounted == Spec => []MembersCurrent
<1>1. IInv => MembersCurrent
  BY DEF IInv
<1> QED
  BY InitIInv, NextIInv, <1>1, PTL DEF Spec

\* A step that sends a report keeps the distance.
LEMMA StepKeepsApart ==
  ASSUME IInv, [Next]_vars, reports' # reports
  PROVE  \E t \in Intervals(fNumMembers, fIsInitial) : t <= sinceSent
<1> USE DEF IInv, MembersCurrent
<1>1. sinceSent \in 0..LongAgo /\ sinceReport \in Nat /\ fNumMembers \in Nat /\ fIsInitial \in BOOLEAN
  BY DEF TypeOK
<1>2. Expire
  BY DEF Next, vars, Tick, ReceiveReport, ReceiveBye
<1>3. PICK t \in Intervals(fNumMembers, fIsInitial) : Due(t)
  BY <1>1, <1>2 DEF Expire
<1>4. t \in Int /\ sinceReport >= t
  BY <1>1, <1>3, IntervalsInt DEF Due
<1>5. fNumMembers \in 1..(1 + Cardinality(Others))
  BY MembersFinite, <1>1
<1>6. t <= LongAgo
  BY <1>1, <1>5, LongAgoAssumption
<1> QED
  BY <1>1, <1>4, <1>6, LongAgoAssumption DEF ReportTimesAgree

\* Reports keep the distance that the members of that moment demand.
THEOREM KeepApart == Spec => ReportsApart
<1>1. IInv /\ [Next]_vars =>
        [reports' # reports =>
           \E t \in Intervals(fNumMembers, fIsInitial) : t <= sinceSent]_vars
  BY StepKeepsApart
<1> QED
  BY InitIInv, NextIInv, <1>1, PTL DEF Spec, ReportsApart
============================================================================
