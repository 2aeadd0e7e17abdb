-------------------------- MODULE PortPairs_proofs --------------------------
(***************************************************************************)
(* The sockets of PortPairs are accounted for, and subsessions listen      *)
(* where they say, for any subsessions, ports and other processes.         *)
(***************************************************************************)
EXTENDS PortPairs, TLAPS

\* An even port has the next one beside it.
LEMMA Parity ==
  ASSUME NEW p \in Ports
  PROVE  /\ p \in Nat \ {0} /\ Even(p) \in Ports /\ rtcpPortNum(p) \in Ports
         /\ ~Odd(p) => rtcpPortNum(p) = p + 1
         /\ ~Odd(Even(p))
<1>1. p \in Nat \ {0} /\ Even(p) \in Ports /\ rtcpPortNum(p) \in Ports
  BY PortsAssumption
<1>2. ~Odd(p) => rtcpPortNum(p) = p + 1
  BY DEF rtcpPortNum
<1>3. ~Odd(Even(p))
  BY <1>1 DEF Odd, Even
<1> QED
  BY <1>1, <1>2, <1>3

\* What is open after a step of Sockets.
LEMMA SocketsOpen ==
  ASSUME open \subseteq Subsessions \X Ports, reusable \subseteq open,
         NEW i \in Subsessions, NEW opened \in SUBSET Ports, NEW closed \in SUBSET Ports,
         Sockets(i, opened, closed)
  PROVE  /\ open' \subseteq Subsessions \X Ports /\ reusable' \subseteq open'
         /\ \A j \in Subsessions, p \in Ports :
              <<j, p>> \in open' <=> IF j = i THEN p \notin closed /\ (p \in opened \/ <<i, p>> \in open)
                                     ELSE <<j, p>> \in open
         /\ \A j \in Subsessions, p \in Ports :
              j # i => (<<j, p>> \in reusable' <=> <<j, p>> \in reusable)
         /\ reuseFlag = 1 => \A p \in opened \ closed : <<i, p>> \in reusable'
BY DEF Sockets

\* What ListensAsTold says of one subsession.
Right(i) ==
  fRTPSocket[i] # Dead =>
    /\ fRTPSocket[i] = fClientPortNum[i]
    /\ kind[i] = "mux" => fRTCPSocket[i] = fRTPSocket[i]
    /\ kind[i] = "rtp" => ~Odd(fRTPSocket[i]) /\ fRTCPSocket[i] \in {fRTPSocket[i] + 1, Dead}
    /\ <<i, fRTPSocket[i]>> \notin reusable => fRTCPSocket[i] # Dead

\* Where a call of initiate() is: NoReuse is there during the search only, the table
\* then has all the bad sockets, and fRTPSocket still points to the last one or to one
\* that is not in it.
Call ==
  /\ self = NoOne <=> pc = "idle"
  /\ reuseFlag = IF Searching THEN 0 ELSE 1
  /\ ~Searching => socketHashTable = {}
  /\ self # NoOne => ~hasSource[self] /\ kind[self] # "unspecified"
  /\ Searching => fRTCPSocket[self] = Null
  /\ pc = "rtp" => fRTPSocket[self] \in {Null} \cup socketHashTable
  /\ pc = "rtcp" => /\ fRTPSocket[self] = fClientPortNum[self] /\ kind[self] # "mux"
                    /\ fRTPSocket[self] \in Ports \ socketHashTable /\ ~Odd(fRTPSocket[self])

IInv ==
  /\ Accounted /\ Call
  /\ \A i \in Subsessions : hasSource[i] \/ (i = self /\ pc = "sources") => Right(i)

\* No Groupsock without a socket is a port.
LEMMA NoPort == Null \notin Ports /\ Dead \notin Ports /\ Null # Dead
BY PortsAssumption DEF Null, Dead

LEMMA InitIInv == Init => IInv
<1> SUFFICES ASSUME Init PROVE IInv
  OBVIOUS
<1>1. PICK offer \in [Subsessions -> Offers] :
        /\ kind = [i \in Subsessions |-> offer[i].kind]
        /\ fClientPortNum = [i \in Subsessions |-> offer[i].port]
  BY DEF Init
<1>2. kind \in [Subsessions -> Kinds] /\ fClientPortNum \in [Subsessions -> {0} \cup Ports]
  BY <1>1, PortsAssumption
<1>3. TypeOK
  BY <1>2 DEF Init, TypeOK, Groupsocks
<1>4. Accounted
  BY <1>3, NoPort DEF Init, Accounted
<1>5. Call
  BY NoOneAssumption DEF Init, Call, Searching
<1> QED
  BY <1>4, <1>5, NoOneAssumption DEF Init, IInv

\* A step that leaves the sockets alone, and the call too.
LEMMA OtherStep ==
  ASSUME IInv,
         UNCHANGED <<kind, sockets, hasSource, pc, self, socketHashTable, reuseFlag, kernel>>,
         others' \subseteq Ports, fClientPortNum' \in [Subsessions -> {0} \cup Ports],
         \A i \in Subsessions : hasSource[i] \/ self # NoOne => fClientPortNum'[i] = fClientPortNum[i]
  PROVE  IInv'
<1>1. TypeOK'
  BY DEF IInv, Accounted, TypeOK, sockets, kernel
<1>2. Accounted'
  BY <1>1 DEF IInv, Accounted, sockets, kernel
<1>3. Call'
  BY NoOneAssumption DEF IInv, Call, Accounted, TypeOK, Searching, sockets, kernel
<1>4. ASSUME NEW i \in Subsessions, hasSource'[i] \/ (i = self' /\ pc' = "sources")
      PROVE  Right(i)'
  <2>1. Right(i) /\ fClientPortNum'[i] = fClientPortNum[i]
    BY <1>4, NoOneAssumption DEF IInv
  <2> QED
    BY <2>1 DEF Right, sockets, kernel
<1> QED
  BY <1>2, <1>3, <1>4 DEF IInv

\* What is right of the subsessions that the step of i does not touch stays so.
LEMMA RightOfOthers ==
  ASSUME TypeOK, NEW i \in Subsessions, NEW opened \in SUBSET Ports, NEW closed \in SUBSET Ports,
         Sockets(i, opened, closed), UNCHANGED kind,
         NEW j \in Subsessions, i # j, Right(j),
         fRTPSocket'[j] = fRTPSocket[j], fRTCPSocket'[j] = fRTCPSocket[j],
         fClientPortNum'[j] = fClientPortNum[j]
  PROVE  Right(j)'
<1>1. \A p \in Ports : <<j, p>> \in reusable' <=> <<j, p>> \in reusable
  BY SocketsOpen DEF TypeOK
<1>2. fRTPSocket[j] \in Groupsocks /\ reusable \subseteq Subsessions \X Ports
      /\ reusable' \subseteq Subsessions \X Ports
  BY SocketsOpen DEF TypeOK
<1>3. <<j, fRTPSocket[j]>> \in reusable' <=> <<j, fRTPSocket[j]>> \in reusable
  BY <1>1, <1>2
<1> QED
  BY <1>3 DEF Right

\* The steps of initiate() and deInitiate().
LEMMA UseGivenPortStep ==
  ASSUME IInv, NEW i \in Subsessions, UseGivenPort(i)
  PROVE  IInv'
<1> DEFINE p == IF kind[i] = "rtp" THEN Even(fClientPortNum[i]) ELSE fClientPortNum[i]
           asked == IF kind[i] = "rtp" THEN {p, rtcpPortNum(p)} ELSE {p}
           Bound(bound, q) == IF q \in bound THEN q ELSE Dead
<1>1. TypeOK /\ Call /\ reuseFlag = 1 /\ socketHashTable = {} /\ pc = "idle" /\ self = NoOne
      /\ i # NoOne /\ ~hasSource[i] /\ fRTPSocket[i] = Null /\ fRTCPSocket[i] = Null
  BY NoOneAssumption DEF IInv, UseGivenPort, CanInitiate, Accounted, Call, Searching
<1>2. p \in Ports /\ rtcpPortNum(p) \in Ports /\ asked \subseteq Ports
  BY <1>1, Parity DEF UseGivenPort, TypeOK
<1>3. kind[i] = "rtp" => ~Odd(p) /\ rtcpPortNum(p) = p + 1
  BY <1>1, <1>2, Parity DEF UseGivenPort, TypeOK
<1>4. PICK bound \in SUBSET asked :
        /\ fRTPSocket' = [fRTPSocket EXCEPT ![i] = Bound(bound, p)]
        /\ fRTCPSocket' = [fRTCPSocket EXCEPT ![i] =
              CASE kind[i] = "rtp" -> Bound(bound, rtcpPortNum(p))
                [] kind[i] = "mux" -> Bound(bound, p)
                [] OTHER -> Null]
        /\ Sockets(i, bound, {})
  BY DEF UseGivenPort
<1>5. /\ fClientPortNum' = [fClientPortNum EXCEPT ![i] = p]
      /\ pc' = "sources" /\ self' = i /\ kind[i] # "unspecified"
      /\ UNCHANGED <<kind, hasSource, socketHashTable, reuseFlag, others>>
  BY DEF UseGivenPort
<1>6. /\ open' \subseteq Subsessions \X Ports /\ reusable' \subseteq open'
      /\ \A j \in Subsessions, q \in Ports :
           <<j, q>> \in open' <=> IF j = i THEN q \in bound \/ <<i, q>> \in open ELSE <<j, q>> \in open
      /\ \A q \in bound : <<i, q>> \in reusable'
  <2>1. open \subseteq Subsessions \X Ports /\ reusable \subseteq open
        /\ bound \in SUBSET Ports /\ {} \in SUBSET Ports /\ Sockets(i, bound, {})
    BY <1>1, <1>2, <1>4 DEF TypeOK
  <2> HIDE DEF asked
  <2> QED
    BY <1>1, <2>1 DEF Sockets
<1>7. /\ fRTPSocket'[i] = Bound(bound, p)
      /\ kind[i] = "rtp" => fRTCPSocket'[i] = Bound(bound, rtcpPortNum(p))
      /\ kind[i] = "mux" => fRTCPSocket'[i] = Bound(bound, p)
      /\ kind[i] \notin {"rtp", "mux"} => fRTCPSocket'[i] = Null
      /\ \A j \in Subsessions : j # i => /\ fRTPSocket'[j] = fRTPSocket[j]
                                         /\ fRTCPSocket'[j] = fRTCPSocket[j]
                                         /\ fClientPortNum'[j] = fClientPortNum[j]
      /\ fClientPortNum'[i] = p
  BY <1>1, <1>4, <1>5 DEF TypeOK
<1>8. TypeOK'
  <2>1. fRTPSocket' \in [Subsessions -> Groupsocks] /\ fRTCPSocket' \in [Subsessions -> Groupsocks]
    BY <1>1, <1>2, <1>4 DEF TypeOK, Groupsocks
  <2> QED
    BY <1>1, <1>2, <1>5, <1>6, <2>1 DEF TypeOK
<1>9. Accounted'
  <2>1. ASSUME NEW j \in Subsessions, NEW q \in Ports
        PROVE  <<j, q>> \in open' <=> \/ q \in {fRTPSocket'[j], fRTCPSocket'[j]}
                                      \/ j = self' /\ q \in socketHashTable'
    <3>1. <<j, q>> \in open <=> q \in {fRTPSocket[j], fRTCPSocket[j]}
      BY <1>1 DEF IInv, Accounted
    <3>2. CASE j # i
      BY <1>1, <1>5, <1>6, <1>7, <3>1, <3>2
    <3>3. CASE j = i
      <4>1. <<i, q>> \in open' <=> q \in bound
        BY <1>1, <1>6, <3>1, <3>3, NoPort
      <4>2. q \in bound <=> q \in {fRTPSocket'[i], fRTCPSocket'[i]}
        BY <1>4, <1>7, NoPort
      <4> QED
        BY <1>1, <1>5, <3>3, <4>1, <4>2
    <3> QED
      BY <3>2, <3>3
  <2>2. ASSUME NEW j \in Subsessions, j # self', ~hasSource'[j]
        PROVE  fRTPSocket'[j] = Null /\ fRTCPSocket'[j] = Null
    BY <1>1, <1>5, <1>7, <2>2, NoOneAssumption DEF IInv, Accounted
  <2> QED
    BY <1>8, <2>1, <2>2 DEF Accounted
<1>10. Call'
  BY <1>1, <1>5 DEF Call, Searching
<1>11. ASSUME NEW j \in Subsessions, hasSource'[j] \/ (j = self' /\ pc' = "sources")
       PROVE  Right(j)'
  <2>1. CASE j # i
    BY <1>1, <1>2, <1>4, <1>5, <1>7, <1>11, <2>1, RightOfOthers DEF IInv
  <2>2. CASE j = i
    BY <1>2, <1>3, <1>5, <1>6, <1>7, <2>2 DEF Right
  <2> QED
    BY <2>1, <2>2
<1> QED
  BY <1>9, <1>10, <1>11 DEF IInv

\* The beginning of a search: NoReuse, and an empty table.
LEMMA BeginSearchStep ==
  ASSUME IInv, NEW i \in Subsessions, BeginSearch(i)
  PROVE  IInv'
<1>1. /\ TypeOK /\ Call /\ socketHashTable = {} /\ pc = "idle" /\ self = NoOne /\ i # NoOne
      /\ ~hasSource[i] /\ kind[i] # "unspecified"
      /\ fRTPSocket[i] = Null /\ fRTCPSocket[i] = Null
  BY NoOneAssumption DEF IInv, BeginSearch, CanInitiate, Accounted, Call, Searching
<1>2. /\ reuseFlag' = 0 /\ pc' = "rtp" /\ self' = i
      /\ UNCHANGED <<kind, fClientPortNum, sockets, hasSource, socketHashTable, kernel, others>>
  BY DEF BeginSearch
<1>3. Accounted'
  <2>1. TypeOK'
    BY <1>1, <1>2 DEF TypeOK, sockets, kernel
  <2> QED
    BY <1>1, <1>2, <2>1, NoOneAssumption DEF IInv, Accounted, sockets, kernel
<1>4. Call'
  BY <1>1, <1>2 DEF Call, Searching, sockets, kernel
<1> QED
  BY <1>2, <1>3, <1>4 DEF IInv, Right, sockets, kernel

\* A step of the one whose call it is, which opens and closes these sockets: it keeps
\* account of its own, and when it has its sockets they are right.
SelfSteps(opened, closed) ==
  /\ Sockets(self, opened, closed)
  /\ UNCHANGED <<kind, hasSource, others>>
  /\ pc' \in {"idle", "rtp", "rtcp", "sources"} /\ self' \in {self, NoOne}
  /\ self' = NoOne => /\ fRTPSocket'[self] = Null /\ fRTCPSocket'[self] = Null
                      /\ socketHashTable' = {}
  /\ socketHashTable' \subseteq Ports
  /\ fRTPSocket'[self] \in Groupsocks /\ fRTCPSocket'[self] \in Groupsocks
  /\ fClientPortNum'[self] \in {0} \cup Ports
  /\ fRTPSocket' = [fRTPSocket EXCEPT ![self] = fRTPSocket'[self]]
  /\ fRTCPSocket' = [fRTCPSocket EXCEPT ![self] = fRTCPSocket'[self]]
  /\ fClientPortNum' = [fClientPortNum EXCEPT ![self] = fClientPortNum'[self]]
  /\ \A p \in Ports :
       p \notin closed /\ (p \in opened \/ <<self, p>> \in open) <=>
         p \in {fRTPSocket'[self], fRTCPSocket'[self]} \cup socketHashTable'
  /\ Call'
  /\ pc' = "sources" => Right(self)'

\* Such a step keeps the invariant: it does nothing to the others.
LEMMA SelfStep ==
  ASSUME IInv, self \in Subsessions,
         NEW opened \in SUBSET Ports, NEW closed \in SUBSET Ports, SelfSteps(opened, closed)
  PROVE  IInv'
<1> USE DEF SelfSteps
<1>1. TypeOK /\ ~hasSource[self] /\ self # NoOne
  BY NoOneAssumption DEF IInv, Accounted, Call
<1>2. /\ open' \subseteq Subsessions \X Ports /\ reusable' \subseteq open'
      /\ \A j \in Subsessions, p \in Ports :
           <<j, p>> \in open' <=> IF j = self THEN p \notin closed /\ (p \in opened \/ <<self, p>> \in open)
                                  ELSE <<j, p>> \in open
  BY <1>1, SocketsOpen DEF TypeOK
<1>3. \A j \in Subsessions : j # self => /\ fRTPSocket'[j] = fRTPSocket[j]
                                         /\ fRTCPSocket'[j] = fRTCPSocket[j]
                                         /\ fClientPortNum'[j] = fClientPortNum[j]
  BY <1>1 DEF TypeOK
<1>4. TypeOK'
  <2>1. fRTPSocket' \in [Subsessions -> Groupsocks] /\ fRTCPSocket' \in [Subsessions -> Groupsocks]
        /\ fClientPortNum' \in [Subsessions -> {0} \cup Ports]
    BY <1>1 DEF TypeOK
  <2> QED
    BY <1>1, <1>2, <2>1 DEF TypeOK
<1>5. Accounted'
  <2>1. ASSUME NEW j \in Subsessions, NEW p \in Ports
        PROVE  <<j, p>> \in open' <=> \/ p \in {fRTPSocket'[j], fRTCPSocket'[j]}
                                      \/ j = self' /\ p \in socketHashTable'
    <3>1. CASE j # self
      <4>1. <<j, p>> \in open <=> p \in {fRTPSocket[j], fRTCPSocket[j]}
        BY <3>1 DEF IInv, Accounted
      <4> QED
        BY <1>2, <1>3, <3>1, <4>1, NoOneAssumption
    <3>2. CASE j = self
      <4>1. <<self, p>> \in open' <=>
              p \in {fRTPSocket'[self], fRTCPSocket'[self]} \cup socketHashTable'
        BY <1>2
      <4> QED
        BY <1>1, <3>2, <4>1, NoPort
    <3> QED
      BY <3>1, <3>2
  <2>2. ASSUME NEW j \in Subsessions, j # self', ~hasSource'[j]
        PROVE  fRTPSocket'[j] = Null /\ fRTCPSocket'[j] = Null
    <3>1. CASE j = self
      BY <2>2, <3>1
    <3>2. CASE j # self
      BY <1>3, <2>2, <3>2 DEF IInv, Accounted
    <3> QED
      BY <3>1, <3>2
  <2> QED
    BY <1>4, <2>1, <2>2 DEF Accounted
<1>6. ASSUME NEW j \in Subsessions, hasSource'[j] \/ (j = self' /\ pc' = "sources")
      PROVE  Right(j)'
  <2>1. CASE j = self
    BY <1>1, <1>6, <2>1
  <2>2. CASE j # self
    <3>1. hasSource[j] /\ Right(j)
      BY <1>6, <2>2, NoOneAssumption DEF IInv
    <3> QED
      BY <1>1, <1>3, <2>2, <3>1, RightOfOthers
  <2> QED
    BY <2>1, <2>2
<1> QED
  BY <1>5, <1>6 DEF IInv

\* Who searches has no other sockets open than those of the table and the RTP socket.
LEMMA WhileSearching ==
  ASSUME IInv, Searching
  PROVE  /\ TypeOK /\ Call /\ self \in Subsessions /\ self # NoOne /\ reuseFlag = 0
         /\ ~hasSource[self] /\ kind[self] # "unspecified" /\ fRTCPSocket[self] = Null
         /\ socketHashTable \in SUBSET Ports
         /\ \A p \in Ports : <<self, p>> \in open <=> p \in {fRTPSocket[self]} \cup socketHashTable
<1>1. TypeOK /\ Call /\ self # NoOne /\ self \in Subsessions /\ fRTCPSocket[self] = Null
  BY DEF IInv, Accounted, TypeOK, Call, Searching
<1> QED
  BY <1>1, NoPort DEF IInv, Accounted, TypeOK, Call

LEMMA OpenRTPStep ==
  ASSUME IInv, OpenRTP
  PROVE  IInv'
<1>1. Searching /\ pc = "rtp" /\ fRTPSocket[self] \in {Null} \cup socketHashTable
  BY DEF OpenRTP, Searching, IInv, Call
<1>2. PICK p \in Offered :
       /\ fRTPSocket' = [fRTPSocket EXCEPT ![self] = p]
       /\ fClientPortNum' = [fClientPortNum EXCEPT ![self] = p]
       /\ \/ /\ kind[self] = "mux"
             /\ fRTCPSocket' = [fRTCPSocket EXCEPT ![self] = p]
             /\ CleanUp({p})
             /\ pc' = "sources" /\ UNCHANGED self
          \/ /\ kind[self] # "mux" /\ Odd(p)
             /\ Retry(p, {p})
             /\ UNCHANGED fRTCPSocket
          \/ /\ kind[self] # "mux" /\ ~Odd(p)
             /\ Sockets(self, {p}, {})
             /\ pc' = "rtcp" /\ UNCHANGED <<self, fRTCPSocket, socketHashTable, reuseFlag>>
  BY DEF OpenRTP
<1>3. UNCHANGED <<kind, hasSource, others>>
  BY DEF OpenRTP
<1>4. p \in Ports /\ p \notin socketHashTable /\ p \in Groupsocks /\ p # Null /\ p # Dead
  <2>1. p \in Ports
    BY PortsAssumption DEF Offered
  <2>2. <<self, p>> \notin open
    BY <1>1, WhileSearching DEF Offered
  <2> QED
    BY <1>1, <2>1, <2>2, WhileSearching, NoPort DEF Groupsocks
<1>5. /\ fRTPSocket'[self] = p /\ fClientPortNum'[self] = p
      /\ Null \in Groupsocks /\ NoOne \notin Subsessions
  BY <1>1, <1>2, WhileSearching, NoOneAssumption DEF TypeOK, Groupsocks
<1>6. CASE kind[self] = "mux" /\ fRTCPSocket' = [fRTCPSocket EXCEPT ![self] = p]
           /\ CleanUp({p}) /\ pc' = "sources" /\ UNCHANGED self
  <2>1. fRTCPSocket'[self] = p /\ socketHashTable' = {} /\ reuseFlag' = 1
        /\ Sockets(self, {p}, socketHashTable)
    BY <1>1, <1>6, WhileSearching DEF TypeOK, CleanUp
  <2>2. Call'
    BY <1>1, <1>3, <1>6, <2>1, WhileSearching DEF Call, Searching
  <2>3. Right(self)'
    BY <1>1, <1>3, <1>4, <1>5, <1>6, <2>1 DEF Right
  <2>4. \A q \in Ports :
          q \notin socketHashTable /\ (q \in {p} \/ <<self, q>> \in open) <=>
            q \in {fRTPSocket'[self], fRTCPSocket'[self]} \cup socketHashTable'
    BY <1>1, <1>4, <1>5, <2>1, WhileSearching, NoPort
  <2>5. SelfSteps({p}, socketHashTable)
    BY <1>1, <1>2, <1>3, <1>4, <1>5, <1>6, <2>1, <2>2, <2>3, <2>4, WhileSearching DEF SelfSteps
  <2> QED
    BY <1>1, <1>4, <2>5, WhileSearching, SelfStep
<1>7. CASE kind[self] # "mux" /\ Odd(p) /\ Retry(p, {p}) /\ UNCHANGED fRTCPSocket
  <2>1. socketHashTable' = socketHashTable \cup {p} /\ reuseFlag' = 0 /\ self' = self /\ pc' = "rtp"
        /\ Sockets(self, {p}, {}) /\ fRTCPSocket'[self] = Null
    BY <1>1, <1>7, WhileSearching DEF TypeOK, Retry
  <2>2. Call'
    BY <1>1, <1>3, <1>5, <2>1, WhileSearching DEF Call, Searching
  <2>3. \A q \in Ports :
          q \notin {} /\ (q \in {p} \/ <<self, q>> \in open) <=>
            q \in {fRTPSocket'[self], fRTCPSocket'[self]} \cup socketHashTable'
    BY <1>1, <1>4, <1>5, <2>1, WhileSearching, NoPort
  <2>4. fRTCPSocket' = [fRTCPSocket EXCEPT ![self] = fRTCPSocket'[self]]
    BY <1>1, <1>7, WhileSearching DEF TypeOK
  <2>5. SelfSteps({p}, {})
    BY <1>1, <1>2, <1>3, <1>4, <1>5, <2>1, <2>2, <2>3, <2>4, WhileSearching DEF SelfSteps
  <2> QED
    BY <1>1, <1>4, <2>5, WhileSearching, SelfStep
<1>8. CASE kind[self] # "mux" /\ ~Odd(p) /\ Sockets(self, {p}, {}) /\ pc' = "rtcp"
           /\ UNCHANGED <<self, fRTCPSocket, socketHashTable, reuseFlag>>
  <2>1. reuseFlag' = 0 /\ fRTCPSocket'[self] = Null
    BY <1>1, <1>8, WhileSearching
  <2>2. Call'
    BY <1>1, <1>3, <1>4, <1>5, <1>8, <2>1, WhileSearching DEF Call, Searching
  <2>3. \A q \in Ports :
          q \notin {} /\ (q \in {p} \/ <<self, q>> \in open) <=>
            q \in {fRTPSocket'[self], fRTCPSocket'[self]} \cup socketHashTable'
    BY <1>1, <1>4, <1>5, <1>8, <2>1, WhileSearching, NoPort
  <2>4. fRTCPSocket' = [fRTCPSocket EXCEPT ![self] = fRTCPSocket'[self]]
    BY <1>1, <1>8, WhileSearching DEF TypeOK
  <2>5. SelfSteps({p}, {})
    BY <1>1, <1>2, <1>3, <1>4, <1>5, <1>8, <2>1, <2>2, <2>3, <2>4, WhileSearching DEF SelfSteps
  <2> QED
    BY <1>1, <1>4, <2>5, WhileSearching, SelfStep
<1> QED
  BY <1>2, <1>6, <1>7, <1>8

LEMMA OpenRTPFailsStep ==
  ASSUME IInv, OpenRTPFails
  PROVE  IInv'
<1>1. Searching /\ fRTPSocket[self] \in {Null} \cup socketHashTable
  BY DEF OpenRTPFails, Searching, IInv, Call
<1>2. /\ Sockets(self, {}, socketHashTable) /\ socketHashTable' = {} /\ reuseFlag' = 1
      /\ fRTPSocket' = [fRTPSocket EXCEPT ![self] = Null]
      /\ fRTCPSocket' = [fRTCPSocket EXCEPT ![self] = Null]
      /\ fClientPortNum' = [fClientPortNum EXCEPT ![self] = 0]
      /\ pc' = "idle" /\ self' = NoOne
      /\ UNCHANGED <<kind, hasSource, others>>
  BY DEF OpenRTPFails, CleanUp
<1>3. fRTPSocket'[self] = Null /\ fRTCPSocket'[self] = Null /\ fClientPortNum'[self] = 0
      /\ Null \in Groupsocks
  BY <1>1, <1>2, WhileSearching DEF TypeOK, Groupsocks
<1>4. Call'
  BY <1>2 DEF Call, Searching
<1>5. \A q \in Ports :
        q \notin socketHashTable /\ (q \in {} \/ <<self, q>> \in open) <=>
          q \in {fRTPSocket'[self], fRTCPSocket'[self]} \cup socketHashTable'
  BY <1>1, <1>2, <1>3, WhileSearching, NoPort
<1>6. SelfSteps({}, socketHashTable)
  BY <1>1, <1>2, <1>3, <1>4, <1>5, WhileSearching DEF SelfSteps
<1> QED
  BY <1>1, <1>6, WhileSearching, SelfStep

LEMMA OpenRTCPStep ==
  ASSUME IInv, OpenRTCP
  PROVE  IInv'
<1> DEFINE p == fClientPortNum[self]
           q == rtcpPortNum(p)
<1>1. /\ Searching /\ pc = "rtcp" /\ fRTPSocket[self] = p /\ kind[self] # "mux"
      /\ p \in Ports \ socketHashTable /\ ~Odd(p)
  BY DEF OpenRTCP, Searching, IInv, Call
<1>2. q \in Ports /\ q = p + 1 /\ q # p /\ p # Dead /\ q # Dead /\ q # Null
      /\ p \in Groupsocks /\ q \in Groupsocks /\ Null \in Groupsocks
  BY <1>1, Parity, NoPort DEF Groupsocks
<1> HIDE DEF q
<1>3. UNCHANGED <<kind, fClientPortNum, fRTPSocket, hasSource, others>>
      /\ fRTPSocket' = [fRTPSocket EXCEPT ![self] = fRTPSocket'[self]]
      /\ fClientPortNum' = [fClientPortNum EXCEPT ![self] = fClientPortNum'[self]]
  BY <1>1, WhileSearching DEF OpenRTCP, TypeOK
<1>4. CASE /\ Bindable(q)
           /\ fRTCPSocket' = [fRTCPSocket EXCEPT ![self] = q]
           /\ CleanUp({q})
           /\ pc' = "sources" /\ UNCHANGED self
  <2>1. fRTCPSocket'[self] = q /\ socketHashTable' = {} /\ reuseFlag' = 1
        /\ Sockets(self, {q}, socketHashTable)
    BY <1>1, <1>4, WhileSearching DEF TypeOK, CleanUp
  <2>2. <<self, q>> \notin open
    BY <1>1, <1>4, WhileSearching DEF Bindable, Taken
  <2>3. Call'
    BY <1>1, <1>3, <1>4, <2>1, WhileSearching DEF Call, Searching
  <2>4. Right(self)'
    BY <1>1, <1>2, <1>3, <1>4, <2>1 DEF Right
  <2>5. \A r \in Ports :
          r \notin socketHashTable /\ (r \in {q} \/ <<self, r>> \in open) <=>
            r \in {fRTPSocket'[self], fRTCPSocket'[self]} \cup socketHashTable'
    BY <1>1, <1>2, <1>3, <2>1, <2>2, WhileSearching, NoPort
  <2>6. SelfSteps({q}, socketHashTable)
    BY <1>1, <1>2, <1>3, <1>4, <2>1, <2>3, <2>4, <2>5, WhileSearching DEF SelfSteps
  <2> QED
    BY <1>1, <1>2, <2>6, WhileSearching, SelfStep
<1>5. CASE /\ fRTCPSocket' = [fRTCPSocket EXCEPT ![self] = Null]
           /\ Retry(p, {})
  <2>1. fRTCPSocket'[self] = Null /\ socketHashTable' = socketHashTable \cup {p} /\ reuseFlag' = 0
        /\ Sockets(self, {}, {}) /\ pc' = "rtp" /\ self' = self
    BY <1>1, <1>5, WhileSearching DEF TypeOK, Retry
  <2>2. Call'
    BY <1>1, <1>3, <2>1, WhileSearching DEF Call, Searching
  <2>3. \A r \in Ports :
          r \notin {} /\ (r \in {} \/ <<self, r>> \in open) <=>
            r \in {fRTPSocket'[self], fRTCPSocket'[self]} \cup socketHashTable'
    BY <1>1, <1>3, <2>1, WhileSearching, NoPort
  <2>4. SelfSteps({}, {})
    BY <1>1, <1>2, <1>3, <1>5, <2>1, <2>2, <2>3, WhileSearching DEF SelfSteps
  <2> QED
    BY <1>1, <2>4, WhileSearching, SelfStep
<1> QED
  BY <1>4, <1>5 DEF OpenRTCP, q

\* What a subsession has open when nobody searches, and what deInitiate() closes.
LEMMA OwnSockets ==
  ASSUME IInv, ~Searching, NEW i \in Subsessions
  PROVE  /\ Closes(i) \in SUBSET Ports /\ socketHashTable = {}
         /\ \A p \in Ports : <<i, p>> \in open <=> p \in Closes(i)
<1>1. TypeOK /\ socketHashTable = {}
  BY DEF IInv, Accounted, Call
<1>2. Closes(i) \in SUBSET Ports
  BY <1>1 DEF TypeOK, Closes, Groupsocks
<1>3. \A p \in Ports : <<i, p>> \in open <=> p \in {fRTPSocket[i], fRTCPSocket[i]}
  BY <1>1 DEF IInv, Accounted
<1> QED
  BY <1>1, <1>2, <1>3, NoPort DEF Closes

LEMMA CreateSourcesFailsStep ==
  ASSUME IInv, CreateSourcesFails
  PROVE  IInv'
<1>1. ~Searching /\ self \in Subsessions /\ self # NoOne /\ TypeOK
  BY DEF CreateSourcesFails, IInv, Call, Accounted, TypeOK, Searching
<1>2. /\ Sockets(self, {}, Closes(self))
      /\ fRTPSocket' = [fRTPSocket EXCEPT ![self] = Null]
      /\ fRTCPSocket' = [fRTCPSocket EXCEPT ![self] = Null]
      /\ fClientPortNum' = [fClientPortNum EXCEPT ![self] = 0]
      /\ pc' = "idle" /\ self' = NoOne
      /\ UNCHANGED <<kind, hasSource, socketHashTable, reuseFlag, others>>
  BY DEF CreateSourcesFails
<1>3. fRTPSocket'[self] = Null /\ fRTCPSocket'[self] = Null /\ fClientPortNum'[self] = 0
      /\ Null \in Groupsocks /\ Closes(self) \in SUBSET Ports /\ socketHashTable = {}
  BY <1>1, <1>2, OwnSockets DEF TypeOK, Groupsocks
<1>4. Call'
  BY <1>1, <1>2, <1>3 DEF IInv, Call, Searching
<1>5. \A q \in Ports :
        q \notin Closes(self) /\ (q \in {} \/ <<self, q>> \in open) <=>
          q \in {fRTPSocket'[self], fRTCPSocket'[self]} \cup socketHashTable'
  BY <1>1, <1>2, <1>3, OwnSockets, NoPort
<1>6. SelfSteps({}, Closes(self))
  BY <1>1, <1>2, <1>3, <1>4, <1>5 DEF SelfSteps
<1> QED
  BY <1>1, <1>3, <1>6, SelfStep

LEMMA CreateSourcesStep ==
  ASSUME IInv, CreateSources
  PROVE  IInv'
<1>1. /\ TypeOK /\ Call /\ Accounted /\ self \in Subsessions /\ self # NoOne /\ socketHashTable = {}
      /\ Right(self) /\ reuseFlag = 1
  BY DEF CreateSources, IInv, Call, Accounted, TypeOK, Searching
<1>2. /\ hasSource' = [hasSource EXCEPT ![self] = TRUE]
      /\ pc' = "idle" /\ self' = NoOne
      /\ UNCHANGED <<kind, fClientPortNum, sockets, socketHashTable, reuseFlag, kernel, others>>
  BY DEF CreateSources
<1>3. \A j \in Subsessions : hasSource'[j] <=> hasSource[j] \/ j = self
  BY <1>1, <1>2 DEF TypeOK
<1>4. TypeOK'
  BY <1>1, <1>2 DEF TypeOK, sockets, kernel
<1>5. Accounted'
  BY <1>1, <1>2, <1>3, <1>4 DEF Accounted, sockets, kernel
<1>6. Call'
  BY <1>1, <1>2 DEF Call, Searching
<1>7. ASSUME NEW j \in Subsessions, hasSource'[j] \/ (j = self' /\ pc' = "sources")
      PROVE  Right(j)'
  <2>1. Right(j)
    BY <1>1, <1>2, <1>3, <1>7 DEF IInv
  <2> QED
    BY <1>2, <2>1 DEF Right, sockets, kernel
<1> QED
  BY <1>5, <1>6, <1>7 DEF IInv

LEMMA DeInitiateStep ==
  ASSUME IInv, NEW i \in Subsessions, DeInitiate(i)
  PROVE  IInv'
<1>1. /\ TypeOK /\ Call /\ ~Searching /\ self = NoOne /\ pc = "idle" /\ i # NoOne
      /\ socketHashTable = {} /\ Closes(i) \in SUBSET Ports
  BY NoOneAssumption, OwnSockets DEF DeInitiate, IInv, Call, Accounted, Searching
<1>2. /\ Sockets(i, {}, Closes(i))
      /\ fRTPSocket' = [fRTPSocket EXCEPT ![i] = Null]
      /\ fRTCPSocket' = [fRTCPSocket EXCEPT ![i] = Null]
      /\ hasSource' = [hasSource EXCEPT ![i] = FALSE]
      /\ UNCHANGED <<kind, fClientPortNum, pc, self, socketHashTable, reuseFlag, others>>
  BY DEF DeInitiate
<1>3. /\ fRTPSocket'[i] = Null /\ fRTCPSocket'[i] = Null /\ ~hasSource'[i]
      /\ \A j \in Subsessions : j # i => /\ fRTPSocket'[j] = fRTPSocket[j]
                                         /\ fRTCPSocket'[j] = fRTCPSocket[j]
                                         /\ hasSource'[j] = hasSource[j]
  BY <1>1, <1>2 DEF TypeOK
<1>4. /\ open' \subseteq Subsessions \X Ports /\ reusable' \subseteq open'
      /\ \A j \in Subsessions, p \in Ports :
           <<j, p>> \in open' <=> IF j = i THEN p \notin Closes(i) /\ <<i, p>> \in open
                                  ELSE <<j, p>> \in open
  BY <1>1, <1>2 DEF TypeOK, Sockets
<1>5. TypeOK'
  <2>1. fRTPSocket' \in [Subsessions -> Groupsocks] /\ fRTCPSocket' \in [Subsessions -> Groupsocks]
    BY <1>1, <1>2 DEF TypeOK, Groupsocks
  <2> QED
    BY <1>1, <1>2, <1>4, <2>1 DEF TypeOK
<1>6. Accounted'
  <2>1. ASSUME NEW j \in Subsessions, NEW p \in Ports
        PROVE  <<j, p>> \in open' <=> \/ p \in {fRTPSocket'[j], fRTCPSocket'[j]}
                                      \/ j = self' /\ p \in socketHashTable'
    <3>1. CASE j = i
      BY <1>1, <1>2, <1>3, <1>4, <3>1, OwnSockets, NoPort
    <3>2. CASE j # i
      BY <1>1, <1>2, <1>3, <1>4, <3>2 DEF IInv, Accounted
    <3> QED
      BY <3>1, <3>2
  <2>2. ASSUME NEW j \in Subsessions, j # self', ~hasSource'[j]
        PROVE  fRTPSocket'[j] = Null /\ fRTCPSocket'[j] = Null
    BY <1>1, <1>2, <1>3, <2>2, NoOneAssumption DEF IInv, Accounted
  <2> QED
    BY <1>5, <2>1, <2>2 DEF Accounted
<1>7. Call'
  BY <1>1, <1>2 DEF Call, Searching
<1>8. ASSUME NEW j \in Subsessions, hasSource'[j] \/ (j = self' /\ pc' = "sources")
      PROVE  Right(j)'
  <2>1. j # i /\ hasSource[j] /\ Right(j)
    BY <1>1, <1>2, <1>3, <1>8 DEF IInv
  <2> QED
    BY <1>1, <1>2, <1>3, <2>1, RightOfOthers
<1> QED
  BY <1>6, <1>7, <1>8 DEF IInv

\* Every step.
LEMMA NextIInv ==
  ASSUME IInv, [Next]_vars
  PROVE  IInv'
<1>1. ASSUME NEW i \in Subsessions, NoCodec(i) PROVE IInv'
  <2>1. fClientPortNum' \in [Subsessions -> {0} \cup Ports]
        /\ \A j \in Subsessions : hasSource[j] => fClientPortNum'[j] = fClientPortNum[j]
    BY <1>1 DEF NoCodec, CanInitiate, IInv, Accounted, TypeOK
  <2> QED
    BY <1>1, <2>1, OtherStep DEF NoCodec, CanInitiate, IInv, Accounted, TypeOK
<1>2. ASSUME OthersBind \/ OthersClose PROVE IInv'
  BY <1>2, OtherStep DEF OthersBind, OthersClose, IInv, Accounted, TypeOK
<1>3. ASSUME UNCHANGED vars PROVE IInv'
  BY <1>3, OtherStep DEF vars, IInv, Accounted, TypeOK
<1> QED
  BY <1>1, <1>2, <1>3, UseGivenPortStep, BeginSearchStep, DeInitiateStep, OpenRTPStep,
     OpenRTPFailsStep, OpenRTCPStep, CreateSourcesStep, CreateSourcesFailsStep
  DEF Next, Continue

\* The inductive invariant holds.
THEOREM Invariant == Spec => []IInv
<1>1. IInv /\ [Next]_vars => IInv'
  BY NextIInv
<1> QED
  BY InitIInv, <1>1, PTL DEF Spec

\* Accounted: no socket is lost or closed while something refers to it, for any
\* subsessions and ports, whatever other processes bind and whichever bind fails.
THEOREM NoSocketLost == Spec => []Accounted
BY Invariant, PTL DEF IInv

\* ListensAsTold: what SETUP says is where the subsession listens.
THEOREM ToldTruly == Spec => []ListensAsTold
<1>1. IInv => ListensAsTold
  BY DEF IInv, ListensAsTold, Right
<1> QED
  BY <1>1, Invariant, PTL

\* FreshPorts: NoReuse keeps a search from the ports that are in use.
THEOREM NoReuseWorks == Spec => FreshPorts
<1>1. ASSUME IInv, [Next]_vars, Searching, NEW s \in open' \ open
      PROVE  ~Taken(s[2])
  <2>1. reuseFlag = 0 /\ pc \in {"rtp", "rtcp"} /\ self \in Subsessions /\ self # NoOne
    BY <1>1, WhileSearching DEF Searching
  <2>2. CASE OpenRTP
    <3>1. PICK p \in Offered : s = <<self, p>>
      BY <1>1, <2>2 DEF OpenRTP, CleanUp, Retry, Sockets
    <3>2. s[2] = p /\ p \notin others /\ \A i \in Subsessions : <<i, p>> \notin open
      BY <2>1, <3>1 DEF Offered
    <3> QED
      BY <3>2 DEF Taken
  <2>3. CASE OpenRTCP
    <3>1. Bindable(s[2])
      BY <1>1, <2>3 DEF OpenRTCP, CleanUp, Retry, Sockets
    <3> QED
      BY <2>1, <3>1 DEF Bindable
  <2>4. CASE OpenRTPFails
    BY <1>1, <2>4 DEF OpenRTPFails, CleanUp, Sockets
  <2>5. CASE UNCHANGED open
    BY <1>1, <2>5
  <2> QED
    BY <1>1, <2>1, <2>2, <2>3, <2>4, <2>5
    DEF Next, Continue, NoCodec, UseGivenPort, BeginSearch, DeInitiate, CanInitiate, CreateSources,
        CreateSourcesFails, OthersBind, OthersClose, vars, kernel
<1>2. IInv /\ [Next]_vars => [Searching => \A s \in open' \ open : ~Taken(s[2])]_vars
  BY <1>1
<1> QED
  BY <1>2, Invariant, PTL DEF Spec, FreshPorts
=============================================================================
