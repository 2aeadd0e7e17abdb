----------------------------- MODULE PortPairs ------------------------------
(***************************************************************************)
(* The sockets of the subsessions: MediaSubsession::initiate() and         *)
(* deInitiate() (liveMedia/MediaSession.cpp), with what they rely on of    *)
(* NoReuse and setupDatagramSocket() (groupsock/GroupsockHelper.cpp).      *)
(* initiate() is one call, but other processes bind ports between any two  *)
(* binds of its own: these are actions of their own.                       *)
(***************************************************************************)
EXTENDS Integers, FiniteSets

CONSTANTS
  Subsessions, NoOne,
  Ports,      \* the port numbers there are, from 2 on
  Ephemeral,  \* those that the kernel gives by itself
  Offers,     \* how a subsession may be described: [kind, port], with port 0 for none
  MaxOthers   \* how many ports other processes hold at most

\* RTP with a port for RTCP, RTP with RTCP on the same port, raw UDP, no codec.
Kinds == {"rtp", "mux", "udp", "unspecified"}

Odd(p)  == p % 2 = 1

\* Slip: the lowest bit of a given port is not cleared.
AsGiven(p) == p
Even(p) == p - (p % 2)
rtcpPortNum(p) == IF Odd(p) THEN p ELSE p + 1

ASSUME PortsAssumption ==
  /\ Ports \subseteq Nat \ {0} /\ Ephemeral \subseteq Ports
  /\ \A p \in Ports : Even(p) \in Ports /\ rtcpPortNum(p) \in Ports
  /\ \A o \in Offers : o.kind \in Kinds /\ o.port \in {0} \cup Ports
ASSUME NoOneAssumption == NoOne \notin Subsessions
ASSUME OthersAssumption == MaxOthers \in Nat

\* A Groupsock is the port that it is bound to, or one whose socketNum() is -1.
Null == 0
Dead == -1

VARIABLES
  kind, fClientPortNum, fRTPSocket, fRTCPSocket,   \* by subsession
  hasSource,        \* fReadSource is not NULL
  pc, self,         \* where the call of initiate() is, and whose it is
  socketHashTable,  \* its bad sockets, by their ports
  reuseFlag,
  open,             \* the sockets of this process: <<subsession, port>>
  reusable,         \* those of them with SO_REUSEADDR
  others            \* the ports that other processes hold

kernel  == <<open, reusable>>
sockets == <<fRTPSocket, fRTCPSocket>>
vars    == <<kind, fClientPortNum, sockets, hasSource, pc, self, socketHashTable, reuseFlag,
             kernel, others>>

Init ==
  /\ \E offer \in [Subsessions -> Offers] :
       /\ kind = [i \in Subsessions |-> offer[i].kind]
       /\ fClientPortNum = [i \in Subsessions |-> offer[i].port]
  /\ fRTPSocket = [i \in Subsessions |-> Null] /\ fRTCPSocket = [i \in Subsessions |-> Null]
  /\ hasSource = [i \in Subsessions |-> FALSE]
  /\ pc = "idle" /\ self = NoOne
  /\ socketHashTable = {} /\ reuseFlag = 1
  /\ open = {} /\ reusable = {} /\ others = {}

(***************************************************************************)
(* The kernel.  A socket may also fail when its port is free.              *)
(***************************************************************************)
Taken(p) == p \in others \/ \E i \in Subsessions : <<i, p>> \in open

\* Whether it is enough that the second socket has SO_REUSEADDR depends on the system.
Bindable(p) == Taken(p) => reuseFlag = 1

\* The ports that a socket may be given if it asks for none.
Offered == {p \in Ephemeral : /\ p \notin others
                              /\ \A i \in Subsessions :
                                   <<i, p>> \in open => reuseFlag = 1 /\ <<i, p>> \in reusable}

\* i opens sockets at these ports, and closes those at others.
Sockets(i, opened, closed) ==
  /\ open' = (open \cup ({i} \X opened)) \ ({i} \X closed)
  /\ reusable' = (IF reuseFlag = 1 THEN reusable \cup ({i} \X opened) ELSE reusable)
                   \ ({i} \X closed)

OthersBind ==
  /\ Cardinality(others) < MaxOthers
  /\ \E p \in Ports : ~Taken(p) /\ others' = others \cup {p}
  /\ UNCHANGED <<kind, fClientPortNum, sockets, hasSource, pc, self, socketHashTable, reuseFlag,
                 kernel>>

OthersClose ==
  /\ \E p \in others : others' = others \ {p}
  /\ UNCHANGED <<kind, fClientPortNum, sockets, hasSource, pc, self, socketHashTable, reuseFlag,
                 kernel>>

(***************************************************************************)
(* initiate()                                                              *)
(***************************************************************************)
CanInitiate(i) == self = NoOne /\ ~hasSource[i]

NoCodec(i) ==
  /\ CanInitiate(i) /\ kind[i] = "unspecified"
  /\ fClientPortNum' = [fClientPortNum EXCEPT ![i] = 0]
  /\ UNCHANGED <<kind, sockets, hasSource, pc, self, socketHashTable, reuseFlag, kernel, others>>

\* The port is known, from the SDP description or from an earlier call.  Whether the
\* sockets could be bound is not looked at.
UseGivenPort(i) ==
  LET p     == IF kind[i] = "rtp" THEN Even(fClientPortNum[i]) ELSE fClientPortNum[i]
      asked == IF kind[i] = "rtp" THEN {p, rtcpPortNum(p)} ELSE {p}
  IN /\ CanInitiate(i) /\ kind[i] # "unspecified" /\ fClientPortNum[i] # 0
     /\ fClientPortNum' = [fClientPortNum EXCEPT ![i] = p]
     /\ \E bound \in SUBSET {q \in asked : Bindable(q)} :
          LET Bound(q) == IF q \in bound THEN q ELSE Dead
          IN /\ fRTPSocket' = [fRTPSocket EXCEPT ![i] = Bound(p)]
             /\ fRTCPSocket' = [fRTCPSocket EXCEPT ![i] =
                   CASE kind[i] = "rtp" -> Bound(rtcpPortNum(p))
                     [] kind[i] = "mux" -> Bound(p)
                     [] OTHER -> Null]
             /\ Sockets(i, bound, {})
     /\ pc' = "sources" /\ self' = i
     /\ UNCHANGED <<kind, hasSource, socketHashTable, reuseFlag, others>>

\* Slip: NoReuse is left out.
BeginReusing(i) ==
  /\ CanInitiate(i) /\ kind[i] # "unspecified" /\ fClientPortNum[i] = 0
  /\ pc' = "rtp" /\ self' = i
  /\ UNCHANGED <<kind, fClientPortNum, sockets, hasSource, socketHashTable, reuseFlag, kernel,
                 others>>

BeginSearch(i) ==
  /\ CanInitiate(i) /\ kind[i] # "unspecified" /\ fClientPortNum[i] = 0
  /\ reuseFlag' = 0
  /\ pc' = "rtp" /\ self' = i
  /\ UNCHANGED <<kind, fClientPortNum, sockets, hasSource, socketHashTable, kernel, others>>

\* Slip: a socket that cannot be used is closed at once.
RetryClosing(p, opened) ==
  /\ Sockets(self, opened, {p})
  /\ pc' = "rtp"
  /\ UNCHANGED <<self, socketHashTable, reuseFlag>>

\* The RTP socket at p cannot be used; it is kept, so that its port is not offered again.
Retry(p, opened) ==
  /\ Sockets(self, opened, {})
  /\ socketHashTable' = socketHashTable \cup {p}
  /\ pc' = "rtp"
  /\ UNCHANGED <<self, reuseFlag>>

\* The end of the search: the bad sockets are closed, and NoReuse ends.
CleanUp(opened) ==
  /\ Sockets(self, opened, socketHashTable)
  /\ socketHashTable' = {} /\ reuseFlag' = 1

\* The turn of the loop up to the RTCP socket.
OpenRTP ==
  /\ pc = "rtp"
  /\ \E p \in Offered :
       /\ fRTPSocket' = [fRTPSocket EXCEPT ![self] = p]
       /\ fClientPortNum' = [fClientPortNum EXCEPT ![self] = p]
       /\ \/ /\ kind[self] = "mux"
             /\ fRTCPSocket' = [fRTCPSocket EXCEPT ![self] = p]
             /\ CleanUp({p})
             /\ pc' = "sources" /\ UNCHANGED self
          \/ /\ kind[self] # "mux" /\ Odd(p)
             /\ Retry(p, {p})
             /\ UNCHANGED fRTCPSocket
          \/ /\ kind[self] # "mux" /\ ~Odd(p)
             /\ Sockets(self, {p}, {})
             /\ pc' = "rtcp" /\ UNCHANGED <<self, fRTCPSocket, socketHashTable, reuseFlag>>
  /\ UNCHANGED <<kind, hasSource, others>>

\* There is no port left, or no socket.
OpenRTPFails ==
  /\ pc = "rtp"
  /\ CleanUp({})
  /\ fRTPSocket' = [fRTPSocket EXCEPT ![self] = Null]
  /\ fRTCPSocket' = [fRTCPSocket EXCEPT ![self] = Null]
  /\ fClientPortNum' = [fClientPortNum EXCEPT ![self] = 0]
  /\ pc' = "idle" /\ self' = NoOne
  /\ UNCHANGED <<kind, hasSource, others>>

OpenRTCP ==
  LET p == fClientPortNum[self]
  IN /\ pc = "rtcp"
     /\ \/ /\ Bindable(rtcpPortNum(p))
           /\ fRTCPSocket' = [fRTCPSocket EXCEPT ![self] = rtcpPortNum(p)]
           /\ CleanUp({rtcpPortNum(p)})
           /\ pc' = "sources" /\ UNCHANGED self
        \/ /\ fRTCPSocket' = [fRTCPSocket EXCEPT ![self] = Null]
           /\ Retry(p, {})
     /\ UNCHANGED <<kind, fClientPortNum, fRTPSocket, hasSource, others>>

\* Slip: only the RTP socket is closed.
ClosesRTP(i) == {fRTPSocket[i]} \ {Null, Dead}

\* What deInitiate() closes.
Closes(i) == {fRTPSocket[i], fRTCPSocket[i]} \ {Null, Dead}

\* deInitiate(): here only for a subsession that has its sources.
DeInitiate(i) ==
  /\ self = NoOne /\ hasSource[i]
  /\ Sockets(i, {}, Closes(i))
  /\ fRTPSocket' = [fRTPSocket EXCEPT ![i] = Null]
  /\ fRTCPSocket' = [fRTCPSocket EXCEPT ![i] = Null]
  /\ hasSource' = [hasSource EXCEPT ![i] = FALSE]
  /\ UNCHANGED <<kind, fClientPortNum, pc, self, socketHashTable, reuseFlag, others>>

\* The sources and the RTCP instance are made; or one of them cannot be.
CreateSources ==
  /\ pc = "sources"
  /\ hasSource' = [hasSource EXCEPT ![self] = TRUE]
  /\ pc' = "idle" /\ self' = NoOne
  /\ UNCHANGED <<kind, fClientPortNum, sockets, socketHashTable, reuseFlag, kernel, others>>

CreateSourcesFails ==
  /\ pc = "sources"
  /\ Sockets(self, {}, Closes(self))
  /\ fRTPSocket' = [fRTPSocket EXCEPT ![self] = Null]
  /\ fRTCPSocket' = [fRTCPSocket EXCEPT ![self] = Null]
  /\ fClientPortNum' = [fClientPortNum EXCEPT ![self] = 0]
  /\ pc' = "idle" /\ self' = NoOne
  /\ UNCHANGED <<kind, hasSource, socketHashTable, reuseFlag, others>>

Continue == OpenRTP \/ OpenRTPFails \/ OpenRTCP \/ CreateSources \/ CreateSourcesFails

Next ==
  \/ \E i \in Subsessions : NoCodec(i) \/ UseGivenPort(i) \/ BeginSearch(i) \/ DeInitiate(i)
  \/ Continue
  \/ OthersBind \/ OthersClose

Spec == Init /\ [][Next]_vars

\* initiate() is straight-line code with one loop.
FairSpec == Spec /\ WF_vars(Continue)
-----------------------------------------------------------------------------
(***************************************************************************)
(* Properties.                                                             *)
(***************************************************************************)

Searching == pc \in {"rtp", "rtcp"}
Groupsocks == {Null, Dead} \cup Ports

\* The values the variables may have.
TypeOK ==
  /\ kind \in [Subsessions -> Kinds]
  /\ fClientPortNum \in [Subsessions -> {0} \cup Ports]
  /\ fRTPSocket \in [Subsessions -> Groupsocks] /\ fRTCPSocket \in [Subsessions -> Groupsocks]
  /\ hasSource \in [Subsessions -> BOOLEAN]
  /\ pc \in {"idle", "rtp", "rtcp", "sources"} /\ self \in Subsessions \cup {NoOne}
  /\ socketHashTable \subseteq Ports
  /\ open \subseteq Subsessions \X Ports /\ reusable \subseteq open
  /\ others \subseteq Ports

\* No socket is lost, and none is closed while something refers to it (deInitiate(), and
\* the clean-up of the table): those that are open are the ones that the subsessions
\* hold and, during a search, those in its table.
Accounted ==
  /\ TypeOK
  /\ \A i \in Subsessions, p \in Ports :
       <<i, p>> \in open <=> \/ p \in {fRTPSocket[i], fRTCPSocket[i]}
                             \/ i = self /\ p \in socketHashTable
  /\ \A i \in Subsessions :
       i # self /\ ~hasSource[i] => fRTPSocket[i] = Null /\ fRTCPSocket[i] = Null

\* What SETUP tells the server (RTSPClient.cpp:715) is where the subsession listens: RTP
\* on fClientPortNum, an even port if RTCP has one of its own, and RTCP on the next
\* one; a pair that was searched for has both.
ListensAsTold ==
  \A i \in Subsessions :
    hasSource[i] /\ fRTPSocket[i] # Dead =>
      /\ fRTPSocket[i] = fClientPortNum[i]
      /\ kind[i] = "mux" => fRTCPSocket[i] = fRTPSocket[i]
      /\ kind[i] = "rtp" => ~Odd(fRTPSocket[i]) /\ fRTCPSocket[i] \in {fRTPSocket[i] + 1, Dead}
      /\ <<i, fRTPSocket[i]>> \notin reusable => fRTCPSocket[i] # Dead

\* What NoReuse is for (MediaSession.cpp:769): a search opens no port that is in use, by
\* this process or another one.
FreshPorts == [][Searching => \A s \in open' \ open : ~Taken(s[2])]_vars

\* The search comes to an end, with a pair or without: a port that was found bad is not
\* found again, however many ports come free meanwhile.
InitiateEnds == self # NoOne ~> self = NoOne
=============================================================================
