--------------------- MODULE RTSPClientRequests_proofs ---------------------
(***************************************************************************)
(* The ownership of request records, what the queues say of the            *)
(* connection, the order of the queues and of the wire, and the service    *)
(* that they implement, for all callers and all servers.                   *)
(*                                                                         *)
(* The first invariant (IInv) holds whatever the server does: one owner    *)
(* for each record.  The second one (OInv) builds on it: as long as CSeqs  *)
(* tell the requests apart, the requests that await responses have rising  *)
(* CSeqs, as have the messages on the wire, which are those of requests    *)
(* that wait.                                                              *)
(***************************************************************************)
EXTENDS RTSPClientRequests, FiniteSetTheorems, SequenceTheorems, WellFoundedInduction, TLAPS

-----------------------------------------------------------------------------
(***************************************************************************)
(* Sequences without repetition.                                           *)
(***************************************************************************)
Distinct(s) == \A i, j \in DOMAIN s : s[i] = s[j] => i = j

Holds(s) == {s[i] : i \in DOMAIN s}

\* The empty sequence.
LEMMA EmptyHolds == Distinct(<<>>) /\ Holds(<<>>) = {}
BY DEF Distinct, Holds

\* What a sequence holds is of its type, and nothing only if it is empty.
LEMMA HoldsType ==
  ASSUME NEW S, NEW s \in Seq(S)
  PROVE  Holds(s) \subseteq S /\ (Holds(s) = {} => s = <<>>)
<1>1. Len(s) \in Nat /\ DOMAIN s = 1..Len(s) /\ \A i \in 1..Len(s) : s[i] \in S
  BY LenProperties, ElementOfSeq
<1>2. s # <<>> => 1 \in 1..Len(s)
  BY <1>1, EmptySeq
<1> QED
  BY <1>1, <1>2 DEF Holds

\* An element that is new is appended.
LEMMA AppendDistinct ==
  ASSUME NEW S, NEW s \in Seq(S), NEW e \in S, Distinct(s), e \notin Holds(s)
  PROVE  /\ Append(s, e) \in Seq(S) /\ Append(s, e) # <<>>
         /\ Distinct(Append(s, e)) /\ Holds(Append(s, e)) = Holds(s) \cup {e}
<1> DEFINE t == Append(s, e)
<1>1. /\ t \in Seq(S) /\ t # <<>> /\ Len(t) = Len(s) + 1 /\ t[Len(s) + 1] = e
      /\ \A i \in 1..Len(s) : t[i] = s[i]
  BY AppendProperties
<1>2. Len(s) \in Nat /\ DOMAIN s = 1..Len(s) /\ DOMAIN t = 1..Len(s) + 1
  BY <1>1, LenProperties
<1> HIDE DEF t
<1>3. Holds(t) = Holds(s) \cup {e}
  BY <1>1, <1>2 DEF Holds
<1>4. Distinct(t)
  BY <1>1, <1>2 DEF Distinct, Holds
<1> QED
  BY <1>1, <1>3, <1>4 DEF t

\* An element that is new is put in front.
LEMMA PutBackDistinct ==
  ASSUME NEW S, NEW s \in Seq(S), NEW e \in S, Distinct(s), e \notin Holds(s)
  PROVE  /\ <<e>> \o s \in Seq(S)
         /\ Distinct(<<e>> \o s) /\ Holds(<<e>> \o s) = Holds(s) \cup {e}
<1> DEFINE t == <<e>> \o s
<1>1. <<e>> \in Seq(S) /\ Len(<<e>>) = 1 /\ <<e>>[1] = e
  OBVIOUS
<1>2. Len(s) \in Nat /\ DOMAIN s = 1..Len(s)
  BY LenProperties
<1>3. /\ t \in Seq(S) /\ Len(t) = 1 + Len(s)
      /\ \A i \in 1..1 + Len(s) : t[i] = IF i <= 1 THEN <<e>>[i] ELSE s[i - 1]
  BY <1>1, ConcatProperties
<1>4. DOMAIN t = 1..1 + Len(s)
  BY <1>3, LenProperties
<1> HIDE DEF t
<1>5. t[1] = e /\ \A i \in 1..Len(s) : t[i + 1] = s[i]
  BY <1>1, <1>2, <1>3
<1>6. \A i \in DOMAIN t : i = 1 \/ (i - 1 \in DOMAIN s /\ t[i] = s[i - 1])
  BY <1>2, <1>3, <1>4
<1>7. Holds(t) = Holds(s) \cup {e}
  <2>1. Holds(t) \subseteq Holds(s) \cup {e}
    BY <1>5, <1>6 DEF Holds
  <2>2. e \in Holds(t)
    BY <1>2, <1>4, <1>5 DEF Holds
  <2>3. ASSUME NEW i \in DOMAIN s PROVE s[i] \in Holds(t)
    <3>1. i + 1 \in DOMAIN t /\ t[i + 1] = s[i]
      BY <1>2, <1>4, <1>5
    <3> QED
      BY <3>1 DEF Holds
  <2> QED
    BY <2>1, <2>2, <2>3 DEF Holds
<1>8. Distinct(t)
  BY <1>2, <1>4, <1>5, <1>6 DEF Distinct, Holds
<1> QED
  BY <1>3, <1>7, <1>8 DEF t

\* The rest of a sequence from the position `k' + 1 on.
LEMMA SuffixDistinct ==
  ASSUME NEW S, NEW s \in Seq(S), Distinct(s), NEW k \in 0..Len(s)
  PROVE  LET t == SubSeq(s, k + 1, Len(s))
         IN /\ t \in Seq(S) /\ Distinct(t) /\ Holds(t) \subseteq Holds(s)
            /\ Holds(t) \cap {s[i] : i \in 1..k} = {}
<1> DEFINE t == SubSeq(s, k + 1, Len(s))
<1>1. Len(s) \in Nat /\ DOMAIN s = 1..Len(s) /\ \A i \in 1..Len(s) : s[i] \in S
  BY LenProperties, ElementOfSeq
<1>2. /\ t \in Seq(S) /\ Len(t) = Len(s) - k
      /\ \A i \in 1..Len(s) - k : t[i] = s[k + i]
  <2>1. k + 1 \in Int /\ Len(s) \in Int /\ \A i \in k + 1..Len(s) : s[i] \in S
    BY <1>1
  <2>2. /\ t \in Seq(S) /\ Len(t) = IF k + 1 <= Len(s) THEN Len(s) - (k + 1) + 1 ELSE 0
        /\ \A i \in 1..Len(s) - (k + 1) + 1 : t[i] = s[k + 1 + i - 1]
    BY <2>1, SubSeqProperties
  <2> HIDE DEF t
  <2>3. ASSUME NEW n \in Nat, n = Len(s)
        PROVE  n - (k + 1) + 1 = n - k /\ (k + 1 <= n \/ n - k = 0)
    BY <2>3
  <2>4. Len(s) - (k + 1) + 1 = Len(s) - k /\ (k + 1 <= Len(s) \/ Len(s) - k = 0)
    BY <1>1, <2>3
  <2>5. Len(t) = Len(s) - k
    BY <2>2, <2>4
  <2>6. ASSUME NEW i \in 1..Len(s) - k PROVE t[i] = s[k + i]
    <3>1. t[i] = s[k + 1 + i - 1]
      BY <2>2, <2>4
    <3>2. k + 1 + i - 1 = k + i
      BY <1>1
    <3> QED
      BY <3>1, <3>2
  <2> QED
    BY <2>2, <2>5, <2>6
<1>3. DOMAIN t = 1..Len(s) - k
  BY <1>2, LenProperties
<1> HIDE DEF t
<1>4. ASSUME NEW i \in DOMAIN t
      PROVE  k + i \in DOMAIN s /\ t[i] = s[k + i] /\ k + i > k
  BY <1>1, <1>2, <1>3
<1>5. Distinct(t)
  BY <1>3, <1>4 DEF Distinct
<1>6. Holds(t) \subseteq Holds(s)
  BY <1>4 DEF Holds
<1>7. ASSUME NEW i \in DOMAIN t, NEW j \in 1..k PROVE t[i] # s[j]
  <2>1. j \in DOMAIN s /\ j # k + i
    BY <1>1, <1>4
  <2> QED
    BY <1>4, <2>1 DEF Distinct
<1> QED
  BY <1>2, <1>5, <1>6, <1>7 DEF t, Holds

\* The head of a sequence leaves it.
LEMMA TailDistinct ==
  ASSUME NEW S, NEW s \in Seq(S), Distinct(s), s # <<>>
  PROVE  /\ Head(s) \in S /\ Head(s) \in Holds(s)
         /\ Tail(s) \in Seq(S) /\ Distinct(Tail(s))
         /\ Holds(Tail(s)) = Holds(s) \ {Head(s)}
<1> DEFINE t == Tail(s)
<1>1. Len(s) \in Nat \ {0} /\ DOMAIN s = 1..Len(s) /\ Head(s) = s[1]
  BY LenProperties, EmptySeq
<1>2. /\ Head(s) \in S /\ t \in Seq(S) /\ Len(t) = Len(s) - 1
      /\ \A i \in 1..Len(t) : t[i] = s[i + 1]
  BY HeadTailProperties
<1>3. DOMAIN t = 1..Len(s) - 1
  BY <1>2, LenProperties
<1> HIDE DEF t
<1>4. Head(s) \in Holds(s)
  BY <1>1 DEF Holds
<1>5. \A i \in DOMAIN t : i + 1 \in DOMAIN s /\ i + 1 # 1 /\ t[i] = s[i + 1]
  BY <1>1, <1>2, <1>3
<1>6. \A i \in DOMAIN s : i = 1 \/ (i - 1 \in DOMAIN t /\ t[i - 1] = s[i])
  BY <1>1, <1>2, <1>3
<1>7. Distinct(t)
  BY <1>3, <1>5 DEF Distinct
<1>8. 1 \in DOMAIN s
  BY <1>1
<1>9. Holds(t) \subseteq Holds(s) \ {Head(s)}
  BY <1>1, <1>5, <1>8 DEF Holds, Distinct
<1>10. Holds(s) \ {Head(s)} \subseteq Holds(t)
  BY <1>1, <1>6 DEF Holds
<1> QED
  BY <1>2, <1>4, <1>7, <1>9, <1>10 DEF t

-----------------------------------------------------------------------------
(***************************************************************************)
(* The inductive invariant.                                                *)
(***************************************************************************)

\* Four holders of records share none of the records 1..n, and no queue holds one
\* twice.
Owned(q, r, t, d, n) ==
  /\ Distinct(q) /\ Distinct(r) /\ Distinct(t)
  /\ Holds(q) \cap Holds(r) = {} /\ Holds(q) \cap Holds(t) = {} /\ Holds(r) \cap Holds(t) = {}
  /\ Holds(q) \cap d = {} /\ Holds(r) \cap d = {} /\ Holds(t) \cap d = {}
  /\ Holds(q) \cup Holds(r) \cup Holds(t) \cup d \subseteq 1..n

\* The handler of a request has been called at most once, and only if its record
\* was deleted.
Once(c, d) == \A r \in Ids : c[r] <= IF r \in d THEN 1 ELSE 0

IInv ==
  /\ TypeOK
  /\ Owned(awaitingConnection, awaitingResponse, tmp, deleted, issued)
  /\ Once(calls, deleted)
  /\ awaitingConnection # <<>> <=> socket = "connecting"
  /\ loop = "none" <=> tmp = <<>>

Messages == [id : Ids, cseq : Nat]

\* The connection and the response queue, as sendRequest() may find them.
Connections ==
  [socket : {"closed", "connecting", "open"}, queue : Seq(Ids), out : Seq(Messages), in : Seq(Replies)]

\* What sendRequest() and the ends of a request leave behind.
Conclusion(t, n) ==
  /\ socket' \in {"closed", "connecting", "open"}
  /\ awaitingConnection' \in Seq(Ids) /\ awaitingResponse' \in Seq(Ids)
  /\ toServer' \in Seq(Messages) /\ fromServer' \in Seq(Replies)
  /\ calls' \in [Ids -> Nat] /\ deleted' \subseteq Ids
  /\ Owned(awaitingConnection', awaitingResponse', t, deleted', n)
  /\ Once(calls', deleted')
  /\ awaitingConnection' # <<>> <=> socket' = "connecting"

\* A record that nobody has is given to one of the owners.
LEMMA OwnedMore ==
  ASSUME NEW q, NEW r, NEW t, NEW d, NEW n, Owned(q, r, t, d, n),
         NEW x \in 1..n, x \notin Holds(q) \cup Holds(r) \cup Holds(t) \cup d
  PROVE  /\ \A s : Distinct(s) /\ Holds(s) = Holds(q) \cup {x} => Owned(s, r, t, d, n)
         /\ \A s : Distinct(s) /\ Holds(s) = Holds(r) \cup {x} => Owned(q, s, t, d, n)
         /\ Owned(q, r, t, d \cup {x}, n)
BY DEF Owned

\* Handlers are called of requests whose records have not been deleted.
LEMMA ConcludeOnce ==
  ASSUME calls \in [Ids -> Nat], deleted \subseteq Ids, Once(calls, deleted),
         NEW rs \in SUBSET Ids, NEW others \in SUBSET Ids, rs \cap deleted = {},
         Conclude(rs, others)
  PROVE  /\ calls' \in [Ids -> Nat] /\ deleted' \subseteq Ids
         /\ deleted' = (deleted \cup others) \cup rs
         /\ Once(calls', deleted')
BY DEF Conclude, Once

\* Records are deleted without a call of a handler.
LEMMA ConcludeNone ==
  ASSUME calls \in [Ids -> Nat], deleted \subseteq Ids, Once(calls, deleted),
         NEW others \in SUBSET Ids, Conclude({}, others)
  PROVE  /\ calls' \in [Ids -> Nat] /\ deleted' \subseteq Ids
         /\ deleted' = deleted \cup others
         /\ Once(calls', deleted')
<1>1. {} \in SUBSET Ids /\ {} \cap deleted = {}
  OBVIOUS
<1>2. /\ calls' \in [Ids -> Nat] /\ deleted' \subseteq Ids
      /\ deleted' = (deleted \cup others) \cup {}
      /\ Once(calls', deleted')
  BY <1>1, ConcludeOnce
<1> QED
  BY <1>2

\* sendRequest() gives the record of `r', which nobody else has, to one owner, and
\* keeps the queue and the connection in step.
LEMMA SendOwned ==
  ASSUME awaitingConnection \in Seq(Ids), calls \in [Ids -> Nat], deleted \subseteq Ids,
         Once(calls, deleted),
         NEW n \in Nat, NEW r \in Ids, r \in 1..n, NEW c \in Nat, NEW t \in Seq(Ids),
         NEW gone \in SUBSET Ids, NEW st \in Connections,
         Owned(awaitingConnection, st.queue, t, deleted \cup gone, n),
         r \notin Holds(awaitingConnection) \cup Holds(st.queue) \cup Holds(t) \cup deleted \cup gone,
         awaitingConnection # <<>> <=> st.socket = "connecting",
         SendRequest(r, c, st, gone)
  PROVE  Conclusion(t, n)
<1>1. /\ st.socket \in {"closed", "connecting", "open"} /\ st.queue \in Seq(Ids)
      /\ st.out \in Seq(Messages) /\ st.in \in Seq(Replies)
      /\ DOMAIN st = {"socket", "queue", "out", "in"}
  BY DEF Connections
<1>2. /\ Distinct(awaitingConnection) /\ Distinct(st.queue)
      /\ r \notin Holds(awaitingConnection) /\ r \notin Holds(st.queue)
      /\ r \notin Holds(t) /\ r \notin deleted /\ r \notin gone
  BY DEF Owned
<1>3. /\ Append(awaitingConnection, r) \in Seq(Ids) /\ Append(awaitingConnection, r) # <<>>
      /\ Distinct(Append(awaitingConnection, r))
      /\ Holds(Append(awaitingConnection, r)) = Holds(awaitingConnection) \cup {r}
  BY <1>2, AppendDistinct
<1>4. /\ Append(st.queue, r) \in Seq(Ids) /\ Distinct(Append(st.queue, r))
      /\ Holds(Append(st.queue, r)) = Holds(st.queue) \cup {r}
  BY <1>1, <1>2, AppendDistinct
<1>5. /\ Owned(Append(awaitingConnection, r), st.queue, t, deleted \cup gone, n)
      /\ Owned(awaitingConnection, Append(st.queue, r), t, deleted \cup gone, n)
      /\ Owned(awaitingConnection, st.queue, t, (deleted \cup gone) \cup {r}, n)
  BY <1>2, <1>3, <1>4, OwnedMore
<1>6. CASE /\ awaitingConnection # <<>> \/ st.socket = "closed"
           /\ awaitingConnection' = Append(awaitingConnection, r)
           /\ Becomes([st EXCEPT !.socket = IF awaitingConnection = <<>> THEN "connecting" ELSE @])
           /\ Conclude({}, gone)
  <2>1. awaitingConnection' \in Seq(Ids) /\ awaitingConnection' # <<>>
    BY <1>6, <1>3
  <2>2. /\ socket' = "connecting" /\ awaitingResponse' = st.queue
        /\ toServer' = st.out /\ fromServer' = st.in
    BY <1>1, <1>6 DEF Becomes, Connections
  <2>3. /\ calls' \in [Ids -> Nat] /\ deleted' \subseteq Ids
        /\ deleted' = deleted \cup gone /\ Once(calls', deleted')
    BY <1>6, ConcludeNone
  <2>4. Owned(awaitingConnection', awaitingResponse', t, deleted', n)
    BY <1>6, <1>5, <2>2, <2>3
  <2> QED
    BY <1>1, <2>1, <2>2, <2>3, <2>4 DEF Conclusion
<1>7. CASE /\ awaitingConnection = <<>>
           /\ Becomes([st EXCEPT !.socket = "open",
                                 !.queue = Append(@, r),
                                 !.out = Append(@, [id |-> r, cseq |-> c])])
           /\ Conclude({}, gone)
           /\ UNCHANGED awaitingConnection
  <2>2. /\ socket' = "open" /\ awaitingResponse' = Append(st.queue, r)
        /\ toServer' = Append(st.out, [id |-> r, cseq |-> c]) /\ fromServer' = st.in
    BY <1>1, <1>7 DEF Becomes, Connections
  <2>3. /\ calls' \in [Ids -> Nat] /\ deleted' \subseteq Ids
        /\ deleted' = deleted \cup gone /\ Once(calls', deleted')
    BY <1>7, ConcludeNone
  <2>4. Owned(awaitingConnection', awaitingResponse', t, deleted', n)
    BY <1>7, <1>5, <2>2, <2>3
  <2>5. toServer' \in Seq(Messages)
    <3>1. [id |-> r, cseq |-> c] \in Messages
      BY DEF Messages
    <3> QED
      BY <1>1, <2>2, <3>1, AppendProperties
  <2> QED
    BY <1>1, <1>7, <1>4, <2>2, <2>3, <2>4, <2>5 DEF Conclusion
<1>8. CASE /\ awaitingConnection = <<>>
           /\ \E s \in {st.socket, "open"} : Becomes([st EXCEPT !.socket = s])
           /\ Conclude({r}, gone)
           /\ UNCHANGED awaitingConnection
  <2>1. PICK s \in {st.socket, "open"} : Becomes([st EXCEPT !.socket = s])
    BY <1>8
  <2>2. /\ socket' = s /\ awaitingResponse' = st.queue
        /\ toServer' = st.out /\ fromServer' = st.in
    BY <1>1, <2>1 DEF Becomes, Connections
  <2>3. /\ calls' \in [Ids -> Nat] /\ deleted' \subseteq Ids
        /\ deleted' = (deleted \cup gone) \cup {r} /\ Once(calls', deleted')
    BY <1>8, <1>2, ConcludeOnce
  <2>4. Owned(awaitingConnection', awaitingResponse', t, deleted', n)
    BY <1>8, <1>5, <2>2, <2>3
  <2> QED
    BY <1>1, <1>8, <2>1, <2>2, <2>3, <2>4 DEF Conclusion
<1> QED
  BY <1>6, <1>7, <1>8 DEF SendRequest

-----------------------------------------------------------------------------
(***************************************************************************)
(* The matching of a response with its request.                            *)
(***************************************************************************)

\* Overtaken() counts requests: there is a first one whose CSeq is not below `c',
\* if there is any.
LEMMA OvertakenCounts ==
  ASSUME awaitingResponse \in Seq(Ids), cseq \in [Ids -> Nat], NEW c \in Nat
  PROVE  /\ Overtaken(c) \in 0..Len(awaitingResponse)
         /\ \A i \in 1..Overtaken(c) : cseq[awaitingResponse[i]] < c
         /\ \/ Overtaken(c) = Len(awaitingResponse)
            \/ cseq[awaitingResponse[Overtaken(c) + 1]] >= c
<1> DEFINE n == Len(awaitingResponse)
           later == {i \in 1..n : cseq[awaitingResponse[i]] >= c}
           Counts(k) == /\ \A i \in 1..k : cseq[awaitingResponse[i]] < c
                        /\ k = n \/ cseq[awaitingResponse[k + 1]] >= c
<1>1. n \in Nat /\ \A i \in 1..n : awaitingResponse[i] \in Ids /\ cseq[awaitingResponse[i]] \in Nat
  BY LenProperties, ElementOfSeq
<1>2. \E k \in 0..n : Counts(k)
  <2>1. CASE later = {}
    <3>1. n \in 0..n /\ Counts(n)
      BY <1>1, <2>1
    <3> QED
      BY <3>1
  <2>2. CASE later # {}
    <3>1. later \subseteq Nat
      BY <1>1
    <3>2. PICK x \in later : \A y \in later : ~(<<y, x>> \in OpToRel(<, Nat))
      BY <2>2, <3>1, NatLessThanWellFounded, WFMin
    <3>3. \A y \in later : ~(y < x)
      BY <3>1, <3>2 DEF OpToRel
    <3>4. x \in 1..n /\ x - 1 \in 0..n /\ x - 1 + 1 = x
      BY <1>1, <3>1
    <3>5. ASSUME NEW i \in 1..x - 1 PROVE cseq[awaitingResponse[i]] < c
      <4>1. i \in 1..n /\ i < x
        BY <1>1, <3>4
      <4>2. ~(cseq[awaitingResponse[i]] >= c)
        BY <3>3, <4>1
      <4> QED
        BY <1>1, <4>1, <4>2
    <3>6. Counts(x - 1)
      BY <3>4, <3>5
    <3> QED
      BY <3>4, <3>6
  <2> QED
    BY <2>1, <2>2
<1> QED
  BY <1>2 DEF Overtaken

\* What Match() takes from the response queue: the request found, the ones that it
\* skips, and the ones that stay are different requests of the queue.
MatchApart(m) ==
  /\ m.queue \in Seq(Ids) /\ Distinct(m.queue)
  /\ Holds(m.queue) \subseteq Holds(awaitingResponse)
  /\ m.skipped \subseteq Holds(awaitingResponse) /\ m.skipped \cap Holds(m.queue) = {}
  /\ m.found # 0 => /\ m.found \in Holds(awaitingResponse)
                    /\ m.found \notin m.skipped /\ m.found \notin Holds(m.queue)

LEMMA MatchTakesApart ==
  ASSUME awaitingResponse \in Seq(Ids), Distinct(awaitingResponse),
         cseq \in [Ids -> Nat], NEW c \in Nat
  PROVE  MatchApart(Match(c))
<1> DEFINE k == IF c = 0 THEN 0 ELSE Overtaken(c)
           rest == SubSeq(awaitingResponse, k + 1, Len(awaitingResponse))
           hit == rest # <<>> /\ cseq[rest[1]] = c
           behind == IF c = 0 \/ hit \/ rest = <<>> THEN rest ELSE Tail(rest)
           skipped == {awaitingResponse[i] : i \in 1..k}
           m == Match(c)
<1>1. k \in 0..Len(awaitingResponse) /\ Len(awaitingResponse) \in Nat
  <2>1. Len(awaitingResponse) \in Nat
    BY LenProperties
  <2> QED
    BY <2>1, OvertakenCounts
<1>2. /\ m.found = IF behind = <<>> THEN 0 ELSE Head(behind)
      /\ m.queue = IF behind = <<>> THEN <<>> ELSE Tail(behind)
      /\ m.skipped = skipped
  BY DEF Match
<1> HIDE DEF k, m
<1>3. skipped \subseteq Holds(awaitingResponse)
  <2>1. DOMAIN awaitingResponse = 1..Len(awaitingResponse)
    BY LenProperties
  <2>2. \A i \in 1..k : i \in DOMAIN awaitingResponse
    BY <1>1, <2>1
  <2> QED
    BY <2>2 DEF Holds
<1>4. /\ rest \in Seq(Ids) /\ Distinct(rest) /\ Holds(rest) \subseteq Holds(awaitingResponse)
      /\ Holds(rest) \cap skipped = {}
  BY <1>1, SuffixDistinct
<1> HIDE DEF rest, skipped
<1>5. behind \in Seq(Ids) /\ Distinct(behind) /\ Holds(behind) \subseteq Holds(rest)
  <2>1. CASE behind = rest
    BY <1>4, <2>1
  <2>2. CASE rest # <<>> /\ behind = Tail(rest)
    BY <1>4, <2>2, TailDistinct
  <2> QED
    BY <2>1, <2>2
<1> HIDE DEF behind
<1>6. ASSUME behind = <<>> PROVE MatchApart(m)
  <2>1. m.found = 0 /\ m.queue = <<>>
    BY <1>2, <1>6
  <2>2. <<>> \in Seq(Ids)
    BY EmptySeq
  <2> QED
    BY <1>2, <1>3, <2>1, <2>2, EmptyHolds DEF MatchApart
<1>7. ASSUME behind # <<>> PROVE MatchApart(m)
  <2>1. m.found = Head(behind) /\ m.queue = Tail(behind)
    BY <1>2, <1>7
  <2>2. /\ Head(behind) \in Holds(behind) /\ Tail(behind) \in Seq(Ids)
        /\ Distinct(Tail(behind)) /\ Holds(Tail(behind)) = Holds(behind) \ {Head(behind)}
    BY <1>5, <1>7, TailDistinct
  <2> QED
    BY <1>2, <1>3, <1>4, <1>5, <2>1, <2>2 DEF MatchApart
<1> QED
  BY <1>6, <1>7 DEF m

-----------------------------------------------------------------------------
(***************************************************************************)
(* The initial states, and the steps.                                      *)
(***************************************************************************)

\* The initial states.
LEMMA InitIInv == Init => IInv
<1> SUFFICES ASSUME Init PROVE IInv
  OBVIOUS
<1>1. world.requests \in Nat
  BY WorldsAssumption DEF Init
<1>2. <<>> \in Seq(Ids) /\ toServer \in Seq([id : Ids, cseq : Nat]) /\ fromServer \in Seq(Replies)
  BY EmptySeq DEF Init
<1>3. TypeOK
  <2>1. issued \in 0..world.requests /\ fCSeq \in Nat
    BY <1>1 DEF Init
  <2>2. cseq \in [Ids -> Nat] /\ calls \in [Ids -> Nat]
    BY DEF Init
  <2>3. succeeded \subseteq Ids /\ deleted \subseteq Ids /\ accepted \subseteq Ids
    BY DEF Init
  <2>4. /\ world \in Worlds /\ socket \in {"closed", "connecting", "open"}
        /\ loop \in {"none", "resend", "fail"}
        /\ inHandler \in BOOLEAN /\ partial \in Replies \cup {NoReply}
    BY DEF Init
  <2>5. awaitingConnection \in Seq(Ids) /\ awaitingResponse \in Seq(Ids) /\ tmp \in Seq(Ids)
    BY <1>2 DEF Init
  <2> QED
    BY <1>2, <2>1, <2>2, <2>3, <2>4, <2>5 DEF TypeOK
<1>4. Owned(<<>>, <<>>, <<>>, {}, 0)
  BY EmptyHolds DEF Owned
<1> QED
  BY <1>3, <1>4 DEF Init, IInv, Once

\* What a step has to establish.
LEMMA Assemble ==
  ASSUME UNCHANGED world, world \in Worlds,
         fCSeq' \in Nat, issued' \in 0..world.requests, cseq' \in [Ids -> Nat],
         tmp' \in Seq(Ids), loop' \in {"none", "resend", "fail"}, inHandler' \in BOOLEAN,
         partial' \in Replies \cup {NoReply}, succeeded' \subseteq Ids, accepted' \subseteq Ids,
         loop' = "none" <=> tmp' = <<>>,
         Conclusion(tmp', issued')
  PROVE  IInv'
<1>1. Ids' = Ids /\ Replies' = Replies
  BY DEF Ids, Replies
<1>2. TypeOK'
  BY <1>1 DEF TypeOK, Conclusion, Messages, NoReply
<1>3. Once(calls, deleted)'
  BY <1>1 DEF Conclusion, Once
<1>4. Owned(awaitingConnection, awaitingResponse, tmp, deleted, issued)'
  BY DEF Conclusion
<1> QED
  BY <1>2, <1>3, <1>4 DEF IInv, Conclusion

\* The connection as sendRequest() finds it in Submit and ResendOne.
LEMMA CurrentConnection ==
  ASSUME TypeOK
  PROVE  Current \in Connections /\ Current.queue = awaitingResponse /\ Current.socket = socket
BY DEF TypeOK, Current, Connections, Messages

\* A new connection.
LEMMA FreshConnection ==
  ASSUME NEW q \in Seq(Ids)
  PROVE  Fresh(q) \in Connections /\ Fresh(q).queue = q /\ Fresh(q).socket = "closed"
<1>1. <<>> \in Seq(Messages) /\ <<>> \in Seq(Replies)
  BY EmptySeq
<1> QED
  BY <1>1 DEF Fresh, Connections

\* send...Command()
LEMMA SubmitIInv == ASSUME IInv, UNCHANGED world, Submit PROVE IInv'
<1> DEFINE r == issued + 1
<1>1. world.requests \in Nat /\ TypeOK /\ world \in Worlds
  BY WorldsAssumption DEF IInv, TypeOK
<1>2. issued \in Nat /\ r \in Ids /\ r \in Nat /\ r \in 1..r /\ r \notin 1..issued /\ r \in 0..world.requests
  BY <1>1 DEF Submit, Ids, TypeOK
<1>3. 1..issued \subseteq 1..r
  BY <1>2
<1>4. /\ issued' = r /\ fCSeq' = fCSeq + 1 /\ cseq' = [cseq EXCEPT ![r] = fCSeq + 1]
      /\ SendRequest(r, fCSeq + 1, Current, {})
      /\ UNCHANGED <<loop, tmp, inHandler, partial, succeeded, accepted>>
  BY DEF Submit
<1> HIDE DEF r
<1>5. fCSeq + 1 \in Nat /\ cseq' \in [Ids -> Nat]
  BY <1>1, <1>2, <1>4 DEF TypeOK
<1>6. Owned(awaitingConnection, awaitingResponse, tmp, deleted \cup {}, r)
  BY <1>3 DEF IInv, Owned
<1>7. r \notin Holds(awaitingConnection) \cup Holds(awaitingResponse) \cup Holds(tmp) \cup deleted \cup {}
  BY <1>2 DEF IInv, Owned
<1>8. Conclusion(tmp, r)
  <2>1. {} \in SUBSET Ids
    OBVIOUS
  <2>2. /\ awaitingConnection \in Seq(Ids) /\ calls \in [Ids -> Nat] /\ deleted \subseteq Ids
        /\ tmp \in Seq(Ids) /\ Once(calls, deleted)
        /\ awaitingConnection # <<>> <=> socket = "connecting"
    BY DEF IInv, TypeOK
  <2> QED
    BY <1>1, <1>2, <1>4, <1>5, <1>6, <1>7, <2>1, <2>2, CurrentConnection, SendOwned
<1> QED
  BY <1>1, <1>2, <1>4, <1>5, <1>8, Assemble DEF IInv, TypeOK

\* connectionHandler1(): the records move to the temporary queue.
LEMMA ConnectedIInv ==
  ASSUME IInv, UNCHANGED world, ConnectionOpens \/ ConnectionFails
  PROVE  IInv'
<1>1. /\ tmp = <<>> /\ awaitingConnection # <<>> /\ socket' \in {"closed", "open"}
      /\ tmp' = awaitingConnection /\ awaitingConnection' = <<>>
      /\ loop' \in {"resend", "fail"} /\ inHandler' = FALSE
      /\ UNCHANGED <<fCSeq, issued, cseq, awaitingResponse, partial, wire, history>>
  BY DEF ConnectionOpens, ConnectionFails, IInv
<1>2. Owned(<<>>, awaitingResponse, awaitingConnection, deleted, issued)
  BY EmptyHolds DEF IInv, Owned
<1>3. <<>> \in Seq(Ids)
  BY EmptySeq
<1>4. Conclusion(tmp', issued')
  BY <1>1, <1>2, <1>3 DEF Conclusion, IInv, TypeOK, Messages, wire, history
<1> QED
  BY <1>1, <1>4, Assemble DEF IInv, TypeOK, history

\* The connection is open: a waiting request is sent.
LEMMA ResendOneIInv == ASSUME IInv, UNCHANGED world, ResendOne PROVE IInv'
<1> DEFINE r == Head(tmp)
           t == Tail(tmp)
<1>1. TypeOK /\ tmp # <<>> /\ Distinct(tmp)
  BY DEF IInv, Owned, ResendOne
<1>2. /\ SendRequest(r, cseq[r], Current, {})
      /\ tmp' = t /\ loop' \in {"none", "resend"} /\ (loop' = "none" <=> t = <<>>)
      /\ inHandler' \in BOOLEAN
      /\ UNCHANGED <<fCSeq, issued, cseq, partial, succeeded, accepted>>
  BY DEF ResendOne, Advance
<1>3. /\ r \in Ids /\ r \in Holds(tmp) /\ t \in Seq(Ids) /\ Distinct(t)
      /\ Holds(t) = Holds(tmp) \ {r}
  BY <1>1, TailDistinct DEF TypeOK
<1> HIDE DEF r, t
<1>4. r \in 1..issued /\ issued \in Nat
  BY <1>1, <1>3 DEF IInv, Owned, TypeOK
<1>5. Owned(awaitingConnection, awaitingResponse, t, deleted \cup {}, issued)
  BY <1>3 DEF IInv, Owned
<1>6. r \notin Holds(awaitingConnection) \cup Holds(awaitingResponse) \cup Holds(t) \cup deleted \cup {}
  BY <1>3 DEF IInv, Owned
<1>7. Conclusion(t, issued)
  <2>1. {} \in SUBSET Ids
    OBVIOUS
  <2>2. /\ awaitingConnection \in Seq(Ids) /\ calls \in [Ids -> Nat] /\ deleted \subseteq Ids
        /\ cseq[r] \in Nat /\ Once(calls, deleted)
        /\ awaitingConnection # <<>> <=> socket = "connecting"
    BY <1>3 DEF IInv, TypeOK
  <2> QED
    BY <1>1, <1>2, <1>3, <1>4, <1>5, <1>6, <2>1, <2>2, CurrentConnection, SendOwned
<1> QED
  BY <1>1, <1>2, <1>3, <1>7, Assemble DEF TypeOK

\* The connection failed: a request hears of it.
LEMMA FailOneIInv == ASSUME IInv, UNCHANGED world, FailOne PROVE IInv'
<1> DEFINE r == Head(tmp)
           t == Tail(tmp)
<1>1. TypeOK /\ tmp # <<>> /\ Distinct(tmp)
  BY DEF IInv, Owned, FailOne
<1>2. /\ Conclude({r}, {})
      /\ tmp' = t /\ loop' \in {"none", "fail"} /\ (loop' = "none" <=> t = <<>>)
      /\ inHandler' \in BOOLEAN
      /\ UNCHANGED <<socket, fCSeq, issued, cseq, awaitingConnection, awaitingResponse, partial,
                     toServer, fromServer, succeeded, accepted>>
  BY DEF FailOne, Advance, wire
<1>3. /\ r \in Ids /\ r \in Holds(tmp) /\ t \in Seq(Ids) /\ Distinct(t)
      /\ Holds(t) = Holds(tmp) \ {r}
  BY <1>1, TailDistinct DEF TypeOK
<1> HIDE DEF r, t
<1>4. /\ calls' \in [Ids -> Nat] /\ deleted' \subseteq Ids
      /\ deleted' = (deleted \cup {}) \cup {r} /\ Once(calls', deleted')
  <2>1. {r} \in SUBSET Ids /\ {} \in SUBSET Ids /\ {r} \cap deleted = {}
    BY <1>3 DEF IInv, Owned
  <2> QED
    BY <1>2, <2>1, ConcludeOnce DEF IInv, TypeOK
<1>5. Owned(awaitingConnection, awaitingResponse, t, deleted', issued)
  <2>1. deleted' = deleted \cup {r}
    BY <1>4
  <2> QED
    BY <1>3, <2>1 DEF IInv, Owned
<1>6. Conclusion(tmp', issued')
  BY <1>2, <1>3, <1>4, <1>5 DEF Conclusion, IInv, TypeOK, Messages
<1> QED
  BY <1>1, <1>2, <1>3, <1>6, Assemble DEF TypeOK

\* handleResponseBytes() after a read error: the records move to the temporary queue.
LEMMA BreaksIInv == ASSUME IInv, UNCHANGED world, ConnectionBreaks PROVE IInv'
<1>1. /\ tmp = <<>> /\ awaitingConnection = <<>>
      /\ Becomes(Fresh(<<>>)) /\ partial' = NoReply /\ tmp' = awaitingResponse
      /\ loop' \in {"none", "fail"} /\ (loop' = "none" <=> tmp' = <<>>) /\ inHandler' = FALSE
      /\ UNCHANGED <<fCSeq, issued, cseq, awaitingConnection, calls, succeeded, deleted, accepted>>
  BY DEF ConnectionBreaks, IInv, history
<1>2. socket' = "closed" /\ awaitingResponse' = <<>> /\ toServer' = <<>> /\ fromServer' = <<>>
  BY <1>1 DEF Becomes, Fresh
<1>3. Owned(<<>>, <<>>, awaitingResponse, deleted, issued)
  BY EmptyHolds DEF IInv, Owned
<1>4. <<>> \in Seq(Ids) /\ <<>> \in Seq(Messages) /\ <<>> \in Seq(Replies)
  BY EmptySeq
<1>5. Conclusion(tmp', issued')
  BY <1>1, <1>2, <1>3, <1>4 DEF Conclusion, IInv, TypeOK
<1> QED
  BY <1>1, <1>5, Assemble DEF IInv, TypeOK

\* The end of a sequence is of its type.
LEMMA SuffixType ==
  ASSUME NEW S, NEW s \in Seq(S), NEW k \in 0..Len(s)
  PROVE  SubSeq(s, k + 1, Len(s)) \in Seq(S)
<1>1. Len(s) \in Nat /\ \A i \in 1..Len(s) : s[i] \in S
  BY LenProperties, ElementOfSeq
<1>2. k + 1 \in Int /\ Len(s) \in Int /\ \A i \in k + 1..Len(s) : s[i] \in S
  BY <1>1
<1> QED
  BY <1>2, SubSeqProperties

\* What a match takes from the response queue leaves the records owned as before.
LEMMA MatchOwned ==
  ASSUME IInv, NEW m, MatchApart(m)
  PROVE  /\ m.skipped \in SUBSET Ids
         /\ Owned(awaitingConnection, m.queue, tmp, deleted \cup m.skipped, issued)
         /\ m.found # 0 =>
              /\ m.found \in Ids /\ m.found \in 1..issued
              /\ m.found \notin Holds(awaitingConnection) \cup Holds(m.queue) \cup Holds(tmp)
                                \cup deleted \cup m.skipped
<1>1. Holds(awaitingResponse) \subseteq Ids
  BY HoldsType DEF IInv, TypeOK
<1>2. m.skipped \in SUBSET Ids
  BY <1>1 DEF MatchApart
<1>3. Owned(awaitingConnection, m.queue, tmp, deleted \cup m.skipped, issued)
  BY DEF MatchApart, IInv, Owned
<1>4. ASSUME m.found # 0
      PROVE  /\ m.found \in Ids /\ m.found \in 1..issued
             /\ m.found \notin Holds(awaitingConnection) \cup Holds(m.queue) \cup Holds(tmp)
                               \cup deleted \cup m.skipped
  BY <1>1, <1>4 DEF MatchApart, IInv, Owned
<1> QED
  BY <1>2, <1>3, <1>4

\* The record found is given back to nobody but its handler: Unclaimed, Complete.
LEMMA ConcludedOwned ==
  ASSUME IInv, NEW m, MatchApart(m), NEW st \in Connections, st.queue = m.queue,
         awaitingConnection = <<>>, st.socket # "connecting",
         Unclaimed(m, st) \/ \E code \in AllCodes : Complete(m, st, code)
  PROVE  Conclusion(tmp, issued) /\ UNCHANGED <<fCSeq, cseq>> /\ succeeded' \subseteq Ids
<1>1. /\ socket' = st.socket /\ awaitingResponse' = m.queue
      /\ toServer' = st.out /\ fromServer' = st.in /\ UNCHANGED <<fCSeq, cseq, awaitingConnection>>
  BY DEF Unclaimed, Complete, Becomes
<1>2. /\ socket' \in {"closed", "open"} /\ awaitingResponse' \in Seq(Ids)
      /\ toServer' \in Seq(Messages) /\ fromServer' \in Seq(Replies)
  BY <1>1 DEF Connections
<1>3. CASE Unclaimed(m, st)
  <2>1. /\ calls' \in [Ids -> Nat] /\ deleted' \subseteq Ids
        /\ deleted' = deleted \cup m.skipped /\ Once(calls', deleted')
    BY <1>3, MatchOwned, ConcludeNone DEF Unclaimed, IInv, TypeOK
  <2>2. Owned(awaitingConnection', awaitingResponse', tmp, deleted', issued)
    BY <1>1, <2>1, MatchOwned
  <2>3. succeeded' \subseteq Ids
    BY <1>3 DEF Unclaimed, IInv, TypeOK
  <2> QED
    BY <1>1, <1>2, <2>1, <2>2, <2>3 DEF Conclusion, IInv, TypeOK
<1>4. CASE \E code \in AllCodes : Complete(m, st, code)
  <2>1. /\ m.found # 0 /\ Conclude({m.found}, m.skipped)
        /\ succeeded' \subseteq succeeded \cup {m.found}
    BY <1>4 DEF Complete
  <2>2. /\ m.found \in Ids /\ m.found \in 1..issued /\ m.skipped \in SUBSET Ids
        /\ m.found \notin Holds(awaitingConnection) \cup Holds(m.queue) \cup Holds(tmp)
                          \cup (deleted \cup m.skipped)
    BY <2>1, MatchOwned
  <2>3. {m.found} \in SUBSET Ids /\ {m.found} \cap deleted = {}
    BY <2>2
  <2>4. /\ calls' \in [Ids -> Nat] /\ deleted' \subseteq Ids
        /\ deleted' = (deleted \cup m.skipped) \cup {m.found} /\ Once(calls', deleted')
    BY <2>1, <2>2, <2>3, ConcludeOnce DEF IInv, TypeOK
  <2>5. Owned(awaitingConnection, m.queue, tmp, (deleted \cup m.skipped) \cup {m.found}, issued)
    BY <2>2, MatchOwned, OwnedMore
  <2>6. Owned(awaitingConnection', awaitingResponse', tmp, deleted', issued)
    BY <1>1, <2>4, <2>5
  <2>7. succeeded' \subseteq Ids
    BY <2>1, <2>2 DEF IInv, TypeOK
  <2> QED
    BY <1>1, <1>2, <2>4, <2>6, <2>7 DEF Conclusion, IInv, TypeOK
<1> QED
  BY <1>3, <1>4

\* The record found is resent.
LEMMA ResentOwned ==
  ASSUME IInv, NEW m, MatchApart(m), NEW st \in Connections, st.queue = m.queue,
         awaitingConnection = <<>>, st.socket # "connecting",
         NEW code, Resend(m, st, code)
  PROVE  Conclusion(tmp, issued) /\ fCSeq' \in Nat /\ cseq' \in [Ids -> Nat] /\ succeeded' \subseteq Ids
<1>1. /\ m.found \in Ids /\ m.found \in 1..issued /\ m.skipped \in SUBSET Ids
      /\ m.found \notin Holds(awaitingConnection) \cup Holds(m.queue) \cup Holds(tmp)
                        \cup deleted \cup m.skipped
      /\ Owned(awaitingConnection, m.queue, tmp, deleted \cup m.skipped, issued)
  BY MatchOwned DEF Resend
<1>2. fCSeq + 1 \in Nat /\ fCSeq' = fCSeq + 1
      /\ cseq' \in [Ids -> Nat] /\ UNCHANGED succeeded
  <2>1. fCSeq \in Nat /\ cseq \in [Ids -> Nat]
    BY DEF IInv, TypeOK
  <2>2. /\ fCSeq' = fCSeq + 1 /\ cseq' = [cseq EXCEPT ![m.found] = fCSeq + 1]
        /\ UNCHANGED succeeded
    BY DEF Resend
  <2> QED
    BY <1>1, <2>1, <2>2
<1>3. PICK k \in 0..Len(st.in) :
        SendRequest(m.found, fCSeq + 1,
                    IF code = "moved" THEN Fresh(m.queue)
                    ELSE [st EXCEPT !.in = SubSeq(@, k + 1, Len(@))], m.skipped)
  BY DEF Resend
<1> DEFINE to == IF code = "moved" THEN Fresh(m.queue)
                 ELSE [st EXCEPT !.in = SubSeq(@, k + 1, Len(@))]
<1>4. to \in Connections /\ to.queue = m.queue /\ to.socket # "connecting"
  <2>1. st.in \in Seq(Replies)
    BY DEF Connections
  <2>2. SubSeq(st.in, k + 1, Len(st.in)) \in Seq(Replies)
    BY <2>1, SuffixType
  <2>3. m.queue \in Seq(Ids)
    BY DEF MatchApart
  <2>4. CASE code = "moved"
    BY <2>3, <2>4, FreshConnection
  <2>5. CASE code # "moved"
    BY <2>2, <2>5 DEF Connections
  <2> QED
    BY <2>4, <2>5
<1>5. SendRequest(m.found, fCSeq + 1, to, m.skipped)
  BY <1>3
<1> HIDE DEF to
<1>6. /\ issued \in Nat /\ awaitingConnection \in Seq(Ids) /\ calls \in [Ids -> Nat]
      /\ deleted \subseteq Ids /\ tmp \in Seq(Ids) /\ Once(calls, deleted)
      /\ succeeded \subseteq Ids
  BY DEF IInv, TypeOK
<1>7. Conclusion(tmp, issued)
  BY <1>1, <1>2, <1>4, <1>5, <1>6, SendOwned
<1> QED
  BY <1>2, <1>6, <1>7

\* handleResponseBytes() with a complete response.
LEMMA HandledOwned ==
  ASSUME IInv, socket = "open", NEW rep \in Replies, NEW rest \in Seq(Replies),
         HandleResponse(rep, rest)
  PROVE  Conclusion(tmp, issued) /\ fCSeq' \in Nat /\ cseq' \in [Ids -> Nat] /\ succeeded' \subseteq Ids
<1> DEFINE m == Match(rep.cseq)
           st == IF rep.close THEN Fresh(m.queue)
                 ELSE [Current EXCEPT !.queue = m.queue, !.in = rest]
<1>1. rep.cseq \in Nat /\ rep.code \in AllCodes
  BY WorldsAssumption DEF IInv, TypeOK, Replies
<1>2. MatchApart(m)
  BY <1>1, MatchTakesApart DEF IInv, TypeOK, Owned
<1>3. awaitingConnection = <<>>
  BY DEF IInv
<1> HIDE DEF m
<1>4. st \in Connections /\ st.queue = m.queue /\ st.socket # "connecting"
  <2>1. m.queue \in Seq(Ids)
    BY <1>2 DEF MatchApart
  <2>2. Current \in Connections /\ Current.socket = "open"
    BY CurrentConnection DEF IInv
  <2>3. CASE rep.close
    BY <2>1, <2>3, FreshConnection
  <2>4. CASE ~rep.close
    BY <2>1, <2>2, <2>4 DEF Connections
  <2> QED
    BY <2>3, <2>4
<1>5. Unclaimed(m, st) \/ Complete(m, st, rep.code) \/ Resend(m, st, rep.code)
  BY DEF HandleResponse, m
<1> HIDE DEF st
<1>6. CASE Unclaimed(m, st) \/ \E code \in AllCodes : Complete(m, st, code)
  <2>1. Conclusion(tmp, issued) /\ UNCHANGED <<fCSeq, cseq>> /\ succeeded' \subseteq Ids
    BY <1>2, <1>3, <1>4, <1>6, ConcludedOwned
  <2> QED
    BY <2>1 DEF IInv, TypeOK
<1>7. CASE Resend(m, st, rep.code)
  BY <1>2, <1>3, <1>4, <1>7, ResentOwned
<1> QED
  BY <1>1, <1>5, <1>6, <1>7

\* A response arrives in one piece.
LEMMA ReceiveWholeIInv == ASSUME IInv, UNCHANGED world, ReceiveWhole PROVE IInv'
<1>1. Head(fromServer) \in Replies /\ Tail(fromServer) \in Seq(Replies)
  BY HeadTailProperties DEF ReceiveWhole, IInv, TypeOK
<1>2. /\ Conclusion(tmp, issued) /\ fCSeq' \in Nat /\ cseq' \in [Ids -> Nat]
      /\ succeeded' \subseteq Ids
  BY <1>1, HandledOwned DEF ReceiveWhole
<1>3. UNCHANGED <<issued, loop, tmp, inHandler, partial, accepted>>
  BY DEF ReceiveWhole
<1> QED
  BY <1>2, <1>3, Assemble DEF IInv, TypeOK

\* The rest of a response arrives.
LEMMA ReceiveRestIInv == ASSUME IInv, UNCHANGED world, ReceiveRest PROVE IInv'
<1>1. partial \in Replies /\ fromServer \in Seq(Replies)
  BY DEF ReceiveRest, IInv, TypeOK
<1>2. /\ Conclusion(tmp, issued) /\ fCSeq' \in Nat /\ cseq' \in [Ids -> Nat]
      /\ succeeded' \subseteq Ids
  BY <1>1, HandledOwned DEF ReceiveRest
<1>3. partial' = NoReply /\ UNCHANGED <<issued, loop, tmp, inHandler, accepted>>
  BY DEF ReceiveRest
<1> QED
  BY <1>2, <1>3, Assemble DEF IInv, TypeOK

\* The body of a response is incomplete: the request found goes back.
LEMMA ReceivePartIInv == ASSUME IInv, UNCHANGED world, ReceivePart PROVE IInv'
<1> DEFINE rep == Head(fromServer)
           m == Match(rep.cseq)
           back == IF m.found = 0 THEN m.queue ELSE <<m.found>> \o m.queue
<1>1. rep \in Replies /\ Tail(fromServer) \in Seq(Replies) /\ rep.cseq \in Nat
  <2>1. fromServer # <<>> /\ fromServer \in Seq(Replies)
    BY DEF ReceivePart, IInv, TypeOK
  <2>2. rep \in Replies /\ Tail(fromServer) \in Seq(Replies)
    BY <2>1, HeadTailProperties
  <2> QED
    BY <2>2 DEF Replies
<1>2. MatchApart(m)
  BY <1>1, MatchTakesApart DEF IInv, TypeOK, Owned
<1>3. /\ Becomes([Current EXCEPT !.queue = back, !.in = Tail(fromServer)])
      /\ Conclude({}, m.skipped) /\ partial' = rep
      /\ UNCHANGED <<fCSeq, issued, cseq, awaitingConnection, loop, tmp, inHandler,
                     succeeded, accepted>>
  BY DEF ReceivePart
<1> HIDE DEF rep, m
<1>4. /\ m.queue \in Seq(Ids) /\ m.skipped \in SUBSET Ids
      /\ Owned(awaitingConnection, m.queue, tmp, deleted \cup m.skipped, issued)
  BY <1>2, MatchOwned DEF MatchApart
<1>5. back \in Seq(Ids) /\ Owned(awaitingConnection, back, tmp, deleted \cup m.skipped, issued)
  <2>1. CASE m.found = 0
    BY <1>4, <2>1
  <2>2. CASE m.found # 0
    <3>1. /\ m.found \in Ids /\ m.found \in 1..issued
          /\ m.found \notin Holds(awaitingConnection) \cup Holds(m.queue) \cup Holds(tmp)
                            \cup (deleted \cup m.skipped)
      BY <1>2, <2>2, MatchOwned
    <3>2. /\ back \in Seq(Ids) /\ Distinct(back) /\ Holds(back) = Holds(m.queue) \cup {m.found}
      BY <1>4, <2>2, <3>1, PutBackDistinct DEF Owned
    <3> QED
      BY <1>4, <3>1, <3>2, OwnedMore
  <2> QED
    BY <2>1, <2>2
<1> HIDE DEF back
<1>6. /\ socket' = socket /\ awaitingResponse' = back /\ toServer' = toServer
      /\ fromServer' = Tail(fromServer)
  BY <1>3 DEF Becomes, Current
<1>7. /\ calls' \in [Ids -> Nat] /\ deleted' \subseteq Ids
      /\ deleted' = deleted \cup m.skipped /\ Once(calls', deleted')
  BY <1>3, <1>4, ConcludeNone DEF IInv, TypeOK
<1>8. Conclusion(tmp', issued')
  <2>1. Owned(awaitingConnection', awaitingResponse', tmp', deleted', issued')
    BY <1>3, <1>5, <1>6, <1>7
  <2> QED
    BY <1>1, <1>3, <1>5, <1>6, <1>7, <2>1 DEF Conclusion, IInv, TypeOK, Messages
<1> QED
  BY <1>1, <1>3, <1>8, Assemble DEF IInv, TypeOK

\* The server answers a request, or skips it.
LEMMA ServerIInv == ASSUME IInv, UNCHANGED world, Serve \/ ServerSkips PROVE IInv'
<1>1. /\ toServer # <<>> /\ toServer' = Tail(toServer)
      /\ UNCHANGED <<socket, fCSeq, issued, cseq, queues, loop, inHandler, partial,
                     calls, succeeded, deleted>>
  BY DEF Serve, ServerSkips, history
<1>2. Head(toServer) \in Messages /\ toServer' \in Seq(Messages)
  BY <1>1, HeadTailProperties DEF IInv, TypeOK, Messages
<1>3. fromServer' \in Seq(Replies) /\ accepted' \subseteq Ids
  <2>1. CASE ServerSkips
    BY <2>1 DEF ServerSkips, history, IInv, TypeOK
  <2>2. CASE Serve
    <3>1. PICK code \in world.codes, split \in BOOLEAN, close \in world.closes,
               withCSeq \in {TRUE} \cup (IF "nocseq" \in world.faults THEN {FALSE} ELSE {}),
               copies \in {1} \cup (IF "duplicate" \in world.faults THEN {2} ELSE {}) :
            LET rep == Reply(Head(toServer), code, split, close, withCSeq)
            IN /\ code \in {"auth", "moved"} => fCSeq < world.maxCSeq
               /\ split => ~close
               /\ fromServer' = fromServer \o [i \in 1..copies |-> rep]
               /\ accepted' = IF code = "ok" THEN accepted \cup {rep.id} ELSE accepted
      BY <2>2, Zenon DEF Serve
    <3> DEFINE rep == Reply(Head(toServer), code, split, close, withCSeq)
               added == [i \in 1..copies |-> rep]
    <3>2. world.closes \subseteq BOOLEAN
      BY WorldsAssumption DEF IInv, TypeOK
    <3>3. rep \in Replies /\ rep.id \in Ids
      BY <1>2, <3>2 DEF Messages, Reply, Replies
    <3> HIDE DEF rep
    <3>4. copies \in {1, 2} /\ added \in [1..copies -> Replies]
      BY <3>3
    <3>5. added \in Seq(Replies)
      BY <3>4, SeqDef
    <3>6. fromServer' = fromServer \o added /\ accepted' \subseteq accepted \cup {rep.id}
      BY <3>1 DEF rep
    <3> HIDE DEF added
    <3>7. fromServer \in Seq(Replies) /\ accepted \subseteq Ids
      BY DEF IInv, TypeOK
    <3> QED
      BY <3>3, <3>5, <3>6, <3>7, ConcatProperties
  <2> QED
    BY <2>1, <2>2
<1>4. Conclusion(tmp', issued')
  BY <1>1, <1>2, <1>3 DEF Conclusion, IInv, TypeOK, queues
<1> QED
  BY <1>1, <1>3, <1>4, Assemble DEF IInv, TypeOK, queues

\* The invariant is kept by every step.
LEMMA NextIInv == IInv /\ [Next]_vars => IInv'
<1> SUFFICES ASSUME IInv, [Next]_vars PROVE IInv'
  OBVIOUS
<1>1. CASE UNCHANGED vars
  <2>1. Ids' = Ids /\ Replies' = Replies
    BY <1>1 DEF vars, Ids, Replies
  <2>2. TypeOK'
    BY <1>1, <2>1 DEF IInv, TypeOK, vars, machine, queues, wire, history
  <2>3. Once(calls, deleted)'
    BY <1>1, <2>1 DEF IInv, Once, vars, machine, history
  <2> QED
    BY <1>1, <2>2, <2>3 DEF IInv, vars, machine, queues, history
<1>2. ASSUME Next PROVE IInv'
  <2>1. UNCHANGED world
    BY <1>2 DEF Next
  <2>2. CASE Submit
    BY <2>1, <2>2, SubmitIInv
  <2>3. CASE ConnectionOpens \/ ConnectionFails
    BY <2>1, <2>3, ConnectedIInv
  <2>4. CASE ResendOne
    BY <2>1, <2>4, ResendOneIInv
  <2>5. CASE FailOne
    BY <2>1, <2>5, FailOneIInv
  <2>6. CASE ReceiveWhole
    BY <2>1, <2>6, ReceiveWholeIInv
  <2>7. CASE ReceivePart
    BY <2>1, <2>7, ReceivePartIInv
  <2>8. CASE ReceiveRest
    BY <2>1, <2>8, ReceiveRestIInv
  <2>9. CASE ConnectionBreaks
    BY <2>1, <2>9, BreaksIInv
  <2>10. CASE Serve \/ ServerSkips
    BY <2>1, <2>10, ServerIInv
  <2> QED
    BY <1>2, <2>2, <2>3, <2>4, <2>5, <2>6, <2>7, <2>8, <2>9, <2>10 DEF Next, Callback
<1> QED
  BY <1>1, <1>2

-----------------------------------------------------------------------------
(***************************************************************************)
(* The results.                                                            *)
(***************************************************************************)

\* A sequence without repetition has at most one position for an element.
LEMMA OnePlace ==
  ASSUME NEW s, Distinct(s), NEW r
  PROVE  Cardinality({i \in DOMAIN s : s[i] = r}) = IF r \in Holds(s) THEN 1 ELSE 0
<1> DEFINE places == {i \in DOMAIN s : s[i] = r}
<1>1. CASE r \in Holds(s)
  <2>1. PICK i \in DOMAIN s : s[i] = r
    BY <1>1 DEF Holds
  <2>2. places = {i}
    BY <2>1 DEF Distinct
  <2> QED
    BY <1>1, <2>2, FS_Singleton
<1>2. CASE r \notin Holds(s)
  <2>1. places = {}
    BY <1>2 DEF Holds
  <2> QED
    BY <1>2, <2>1, FS_EmptySet
<1> QED
  BY <1>1, <1>2

\* What the invariant says of the places of a record and of its handler.
LEMMA IInvSound == IInv => QueuesSound
<1> SUFFICES ASSUME IInv PROVE QueuesSound
  OBVIOUS
<1>1. ASSUME NEW r \in 1..issued
      PROVE  Places(r) <= 1 /\ calls[r] <= (IF r \in deleted THEN 1 ELSE 0)
  <2>1. /\ Cardinality({i \in DOMAIN awaitingConnection : awaitingConnection[i] = r})
             = IF r \in Holds(awaitingConnection) THEN 1 ELSE 0
        /\ Cardinality({i \in DOMAIN awaitingResponse : awaitingResponse[i] = r})
             = IF r \in Holds(awaitingResponse) THEN 1 ELSE 0
        /\ Cardinality({i \in DOMAIN tmp : tmp[i] = r}) = IF r \in Holds(tmp) THEN 1 ELSE 0
    BY OnePlace DEF IInv, Owned
  <2>2. Places(r) <= 1
    BY <2>1 DEF Places, IInv, Owned
  <2>3. r \in Ids
    BY WorldsAssumption DEF IInv, TypeOK, Ids
  <2> QED
    BY <2>2, <2>3 DEF IInv, Once
<1> QED
  BY <1>1 DEF QueuesSound, IInv

\* The invariant holds for all callers and servers.
THEOREM Invariant == Spec => []IInv
BY InitIInv, NextIInv, PTL DEF Spec

\* The values of the variables.
THEOREM TypeCorrect == Spec => []TypeOK
<1>1. IInv => TypeOK
  BY DEF IInv
<1> QED
  BY <1>1, Invariant, PTL

\* Whatever the server does, a request record has at most one owner, its handler is
\* called at most once, and requests wait for a connection if and only if one is
\* pending (sendRequest(), handleResponseBytes(), connectionHandler1()).
THEOREM QueuesKept == Spec => []QueuesSound
BY Invariant, IInvSound, PTL

-----------------------------------------------------------------------------
(***************************************************************************)
(* Sequences whose elements have rising numbers.                           *)
(***************************************************************************)
Ascends(s, f) == \A i, j \in DOMAIN s : i < j => f[s[i]] < f[s[j]]

\* A sequence of messages by their CSeqs.
Rising(s) == \A i, j \in DOMAIN s : i < j => s[i].cseq < s[j].cseq

\* The empty sequence.
LEMMA EmptyAscends == Rising(<<>>) /\ \A f : Ascends(<<>>, f)
BY DEF Rising, Ascends

\* An element with a larger number is appended.
LEMMA AppendAscends ==
  ASSUME NEW S, NEW s \in Seq(S), NEW e \in S, NEW f, Ascends(s, f),
         \A x \in Holds(s) : f[x] < f[e]
  PROVE  Ascends(Append(s, e), f) /\ Holds(Append(s, e)) = Holds(s) \cup {e}
<1> DEFINE t == Append(s, e)
<1>1. /\ Len(t) = Len(s) + 1 /\ t[Len(s) + 1] = e /\ t \in Seq(S)
      /\ \A i \in 1..Len(s) : t[i] = s[i]
  BY AppendProperties
<1>2. Len(s) \in Nat /\ DOMAIN s = 1..Len(s) /\ DOMAIN t = 1..Len(s) + 1
  BY <1>1, LenProperties
<1> HIDE DEF t
<1>3. Holds(t) = Holds(s) \cup {e}
  BY <1>1, <1>2 DEF Holds
<1>4. ASSUME NEW i \in DOMAIN t, NEW j \in DOMAIN t, i < j
      PROVE  f[t[i]] < f[t[j]]
  <2>1. i \in DOMAIN s /\ t[i] = s[i]
    BY <1>1, <1>2, <1>4
  <2>2. CASE j \in DOMAIN s
    BY <1>1, <1>2, <1>4, <2>1, <2>2 DEF Ascends
  <2>3. CASE j = Len(s) + 1
    BY <1>1, <2>1, <2>3 DEF Holds
  <2> QED
    BY <1>2, <2>2, <2>3
<1> QED
  BY <1>3, <1>4 DEF t, Ascends

\* The head of a sequence has the least number.
LEMMA TailAscends ==
  ASSUME NEW S, NEW s \in Seq(S), NEW f, Ascends(s, f), s # <<>>
  PROVE  /\ Head(s) \in S /\ Tail(s) \in Seq(S) /\ Ascends(Tail(s), f)
         /\ Holds(s) = {Head(s)} \cup Holds(Tail(s))
         /\ \A x \in Holds(Tail(s)) : f[Head(s)] < f[x]
<1> DEFINE t == Tail(s)
<1>1. Len(s) \in Nat \ {0} /\ DOMAIN s = 1..Len(s) /\ Head(s) = s[1]
  BY LenProperties, EmptySeq
<1>2. /\ Head(s) \in S /\ t \in Seq(S) /\ Len(t) = Len(s) - 1
      /\ \A i \in 1..Len(t) : t[i] = s[i + 1]
  BY HeadTailProperties
<1>3. DOMAIN t = 1..Len(s) - 1
  BY <1>2, LenProperties
<1> HIDE DEF t
<1>4. \A i \in DOMAIN t : i \in Nat /\ i + 1 \in DOMAIN s /\ 1 < i + 1 /\ t[i] = s[i + 1]
  BY <1>1, <1>2, <1>3
<1>5. \A i \in DOMAIN s : i = 1 \/ (i - 1 \in DOMAIN t /\ t[i - 1] = s[i])
  BY <1>1, <1>2, <1>3
<1>6. 1 \in DOMAIN s
  BY <1>1
<1>7. Ascends(t, f)
  <2> SUFFICES ASSUME NEW i \in DOMAIN t, NEW j \in DOMAIN t, i < j
               PROVE  f[t[i]] < f[t[j]]
    BY DEF Ascends
  <2>1. i + 1 < j + 1
    BY <1>4
  <2> QED
    BY <1>4, <2>1 DEF Ascends
<1>8. Holds(s) = {Head(s)} \cup Holds(t)
  <2>1. Holds(s) \subseteq {Head(s)} \cup Holds(t)
    BY <1>1, <1>5 DEF Holds
  <2>2. {Head(s)} \cup Holds(t) \subseteq Holds(s)
    BY <1>1, <1>4, <1>6 DEF Holds
  <2> QED
    BY <2>1, <2>2
<1>9. \A x \in Holds(t) : f[Head(s)] < f[x]
  BY <1>1, <1>4, <1>6 DEF Holds, Ascends
<1> QED
  BY <1>2, <1>7, <1>8, <1>9 DEF t

\* The rest of a sequence from the position `k' + 1 on.
LEMMA SuffixAscends ==
  ASSUME NEW S, NEW s \in Seq(S), NEW f, Ascends(s, f), NEW k \in 0..Len(s)
  PROVE  LET t == SubSeq(s, k + 1, Len(s))
         IN /\ t \in Seq(S) /\ Ascends(t, f) /\ Len(t) = Len(s) - k
            /\ \A i \in DOMAIN t : k + i \in DOMAIN s /\ t[i] = s[k + i]
            /\ Holds(t) \subseteq Holds(s)
<1> DEFINE t == SubSeq(s, k + 1, Len(s))
<1>1. Len(s) \in Nat /\ DOMAIN s = 1..Len(s) /\ \A i \in 1..Len(s) : s[i] \in S
  BY LenProperties, ElementOfSeq
<1>2. k + 1 \in Int /\ Len(s) \in Int /\ \A i \in k + 1..Len(s) : s[i] \in S
  BY <1>1
<1>3. /\ t \in Seq(S) /\ Len(t) = IF k + 1 <= Len(s) THEN Len(s) - (k + 1) + 1 ELSE 0
      /\ \A i \in 1..Len(s) - (k + 1) + 1 : t[i] = s[k + 1 + i - 1]
  BY <1>2, SubSeqProperties
<1> HIDE DEF t
<1>4. ASSUME NEW n \in Nat, n = Len(s)
      PROVE  n - (k + 1) + 1 = n - k /\ (k + 1 <= n \/ n - k = 0)
  BY <1>4
<1>5. Len(t) = Len(s) - k /\ Len(s) - (k + 1) + 1 = Len(s) - k
  BY <1>1, <1>3, <1>4
<1>6. DOMAIN t = 1..Len(s) - k
  BY <1>3, <1>5, LenProperties
<1>7. ASSUME NEW i \in DOMAIN t
      PROVE  i \in Nat /\ k + i \in DOMAIN s /\ t[i] = s[k + i]
  <2>1. i \in 1..Len(s) - k /\ k + 1 + i - 1 = k + i
    BY <1>1, <1>6
  <2>2. t[i] = s[k + 1 + i - 1]
    BY <1>3, <1>5, <2>1
  <2> QED
    BY <1>1, <2>1, <2>2
<1>8. Ascends(t, f)
  <2> SUFFICES ASSUME NEW i \in DOMAIN t, NEW j \in DOMAIN t, i < j
               PROVE  f[t[i]] < f[t[j]]
    BY DEF Ascends
  <2>1. k + i < k + j
    BY <1>7
  <2> QED
    BY <1>7, <2>1 DEF Ascends
<1>9. Holds(t) \subseteq Holds(s)
  BY <1>7 DEF Holds
<1> QED
  BY <1>3, <1>5, <1>7, <1>8, <1>9 DEF t

\* An element with a smaller number is put in front.
LEMMA PutBackAscends ==
  ASSUME NEW S, NEW s \in Seq(S), NEW e \in S, NEW f, Ascends(s, f),
         \A x \in Holds(s) : f[e] < f[x]
  PROVE  Ascends(<<e>> \o s, f)
<1> DEFINE t == <<e>> \o s
<1>1. <<e>> \in Seq(S) /\ Len(<<e>>) = 1 /\ <<e>>[1] = e
  OBVIOUS
<1>2. Len(s) \in Nat /\ DOMAIN s = 1..Len(s)
  BY LenProperties
<1>3. /\ t \in Seq(S) /\ Len(t) = 1 + Len(s)
      /\ \A i \in 1..1 + Len(s) : t[i] = IF i <= 1 THEN <<e>>[i] ELSE s[i - 1]
  BY <1>1, ConcatProperties
<1>4. DOMAIN t = 1..1 + Len(s)
  BY <1>3, LenProperties
<1> HIDE DEF t
<1>5. \A i \in DOMAIN t : (i = 1 /\ t[i] = e) \/ (i - 1 \in DOMAIN s /\ t[i] = s[i - 1])
  BY <1>1, <1>2, <1>3, <1>4
<1>6. ASSUME NEW i \in DOMAIN t, NEW j \in DOMAIN t, i < j
      PROVE  f[t[i]] < f[t[j]]
  <2>1. i \in Nat /\ j \in Nat /\ j - 1 \in DOMAIN s /\ t[j] = s[j - 1]
    BY <1>2, <1>4, <1>5, <1>6
  <2>2. CASE i = 1 /\ t[i] = e
    BY <2>1, <2>2 DEF Holds
  <2>3. CASE i - 1 \in DOMAIN s /\ t[i] = s[i - 1]
    <3>1. i - 1 < j - 1
      BY <1>6, <2>1
    <3> QED
      BY <2>1, <2>3, <3>1 DEF Ascends
  <2> QED
    BY <1>5, <2>2, <2>3
<1> QED
  BY <1>6 DEF t, Ascends

\* Messages rise if their CSeqs do.
LEMMA RisingIsAscending ==
  ASSUME NEW S, NEW s \in Seq(S)
  PROVE  Rising(s) <=> Ascends(s, [x \in S |-> x.cseq])
<1>1. DOMAIN s = 1..Len(s) /\ \A i \in 1..Len(s) : s[i] \in S
  BY LenProperties, ElementOfSeq
<1> QED
  BY <1>1 DEF Rising, Ascends

-----------------------------------------------------------------------------
(***************************************************************************)
(* A response to a waiting request, when the CSeqs in the queue rise.      *)
(***************************************************************************)

\* Match() finds the request with the CSeq `c', skips the ones with smaller CSeqs and
\* leaves the ones with larger CSeqs in the queue.
Hit(m, x) ==
  /\ m.found = x
  /\ m.queue \in Seq(Ids) /\ Ascends(m.queue, cseq)
  /\ Holds(awaitingResponse) = {x} \cup Holds(m.queue) \cup m.skipped
  /\ \A y \in Holds(m.queue) : cseq[x] < cseq[y]
  /\ \A y \in m.skipped : cseq[y] < cseq[x]

LEMMA MatchHits ==
  ASSUME awaitingResponse \in Seq(Ids), cseq \in [Ids -> Nat], NEW c \in Nat \ {0},
         Ascends(awaitingResponse, cseq),
         NEW x \in Holds(awaitingResponse), cseq[x] = c
  PROVE  Hit(Match(c), x)
<1> DEFINE n == Len(awaitingResponse)
           k == Overtaken(c)
           rest == SubSeq(awaitingResponse, k + 1, Len(awaitingResponse))
           m == Match(c)
<1>1. /\ n \in Nat /\ DOMAIN awaitingResponse = 1..n
      /\ \A i \in 1..n : awaitingResponse[i] \in Ids /\ cseq[awaitingResponse[i]] \in Nat
  BY LenProperties, ElementOfSeq
<1>2. PICK p \in 1..n : awaitingResponse[p] = x
  BY <1>1 DEF Holds
<1>3. /\ k \in 0..n
      /\ \A i \in 1..k : cseq[awaitingResponse[i]] < c
      /\ k = n \/ cseq[awaitingResponse[k + 1]] >= c
  BY OvertakenCounts
<1>5. /\ rest \in Seq(Ids) /\ Ascends(rest, cseq) /\ Len(rest) = n - k
      /\ \A i \in DOMAIN rest : k + i \in DOMAIN awaitingResponse /\ rest[i] = awaitingResponse[k + i]
      /\ Holds(rest) \subseteq Holds(awaitingResponse)
  BY <1>3, SuffixAscends
<1>6. DOMAIN rest = 1..n - k /\ (rest = <<>> => n - k = 0)
  BY <1>5, LenProperties, EmptySeq
<1>10. /\ rest # <<>> /\ cseq[rest[1]] = c =>
            m.found = Head(rest) /\ m.queue = Tail(rest)
       /\ m.skipped = {awaitingResponse[i] : i \in 1..k}
  BY DEF Match
<1> HIDE DEF n, k, rest, m
<1>4. k + 1 = p /\ k \in Nat /\ p \in Nat
  <2>1. k \in Nat /\ p \in Nat /\ k <= n /\ p <= n /\ 1 <= p
    BY <1>1, <1>2, <1>3
  <2>2. ~(p <= k)
    <3> SUFFICES ASSUME p <= k PROVE FALSE
      OBVIOUS
    <3>1. p \in 1..k
      BY <2>1
    <3> QED
      BY <1>1, <1>2, <1>3, <3>1
  <2>3. ~(k + 1 < p)
    <3> SUFFICES ASSUME k + 1 < p PROVE FALSE
      OBVIOUS
    <3>1. k + 1 \in 1..n /\ k # n
      BY <1>1, <2>1
    <3>2. cseq[awaitingResponse[k + 1]] < cseq[awaitingResponse[p]]
      BY <1>1, <1>2, <3>1 DEF Ascends
    <3> QED
      BY <1>1, <1>2, <1>3, <3>1, <3>2
  <2> QED
    BY <2>1, <2>2, <2>3
<1>7. rest # <<>> /\ rest[1] = x /\ Head(rest) = x
  <2>1. n - k # 0 /\ 1 \in 1..n - k
    BY <1>1, <1>2, <1>4
  <2>2. rest # <<>> /\ 1 \in DOMAIN rest
    BY <1>6, <2>1
  <2>3. rest[1] = x
    BY <1>2, <1>4, <1>5, <2>2
  <2> QED
    BY <1>5, <2>2, <2>3
<1>8. /\ m.found = x /\ m.queue = Tail(rest)
      /\ m.skipped = {awaitingResponse[i] : i \in 1..k}
  BY <1>7, <1>10
<1>9. /\ Tail(rest) \in Seq(Ids) /\ Ascends(Tail(rest), cseq)
      /\ Holds(rest) = {x} \cup Holds(Tail(rest))
      /\ \A y \in Holds(Tail(rest)) : cseq[x] < cseq[y]
  BY <1>5, <1>7, TailAscends
<1>12. Holds(awaitingResponse) = Holds(rest) \cup m.skipped
  <2>1. ASSUME NEW i \in 1..n PROVE awaitingResponse[i] \in Holds(rest) \cup m.skipped
    <3>1. CASE i \in 1..k
      BY <1>8, <3>1
    <3>2. CASE i \notin 1..k
      <4>1. i - k \in 1..n - k /\ k + (i - k) = i
        BY <1>1, <1>4, <3>2
      <4>2. rest[i - k] = awaitingResponse[i]
        BY <1>5, <1>6, <4>1
      <4> QED
        BY <1>6, <4>1, <4>2 DEF Holds
    <3> QED
      BY <3>1, <3>2
  <2>2. 1..k \subseteq 1..n
    BY <1>1, <1>2, <1>4
  <2>3. m.skipped \subseteq Holds(awaitingResponse)
    BY <1>1, <1>8, <2>2 DEF Holds
  <2>4. Holds(awaitingResponse) \subseteq Holds(rest) \cup m.skipped
    BY <1>1, <2>1 DEF Holds
  <2> QED
    BY <1>5, <2>3, <2>4
<1>11. \A y \in m.skipped : cseq[y] < cseq[x]
  BY <1>3, <1>8
<1> QED
  BY <1>7, <1>8, <1>9, <1>11, <1>12 DEF Hit, m

-----------------------------------------------------------------------------
(***************************************************************************)
(* The order of the wire and the order of the queues.                      *)
(***************************************************************************)

\* Every message under way (`ps' is the response that has arrived in part) belongs to
\* a record of the response queue `q' and has the CSeq of that record, and the CSeqs
\* rise from the client's end of the connection on: `ps', `in', `out'.
Wire(q, f, ps, in, out) ==
  /\ \A x \in ps \cup Holds(in) \cup Holds(out) : x.id \in Holds(q) /\ f[x.id] = x.cseq
  /\ Rising(in) /\ Rising(out)
  /\ \A x \in Holds(in), y \in Holds(out) : x.cseq < y.cseq
  /\ \A x \in ps, y \in Holds(in) \cup Holds(out) : x.cseq < y.cseq

\* The CSeqs rise along the response queue `q' and on along the queue `w' of the
\* requests that are to be sent.
Queued(q, w, f) ==
  /\ Ascends(q, f) /\ Ascends(w, f)
  /\ \A x \in Holds(q), y \in Holds(w) : f[x] < f[y]

\* The requests submitted have CSeqs, up to the last one used.
Numbered(f, n, top) == \A r \in 1..n : f[r] \in 1..top

\* The requests that will be written to the connection.
Waiting == IF loop = "resend" THEN tmp ELSE awaitingConnection

\* The response that has arrived in part.
Parts == IF partial = NoReply THEN {} ELSE {partial}

\* No record has been dropped.
Covered ==
  1..issued \subseteq Holds(awaitingConnection) \cup Holds(awaitingResponse) \cup Holds(tmp) \cup deleted

\* Success is what the server said.
Truthful ==
  /\ succeeded \subseteq accepted
  /\ \A x \in Parts \cup Holds(fromServer) : x.code = "ok" => x.id \in accepted

\* A patient caller has at most one request that is not answered, and its record is
\* not deleted before it is.
OneAtATime ==
  /\ \A r, s \in 1..issued : calls[r] = 0 /\ calls[s] = 0 => r = s
  /\ \A r \in deleted : calls[r] > 0

\* What holds whatever callers and server do.
Steady ==
  /\ loop = "resend" => socket = "open"
  /\ \A r \in succeeded : calls[r] > 0

InWireOrder ==
  /\ Wire(awaitingResponse, cseq, Parts, fromServer, toServer)
  /\ Queued(awaitingResponse, Waiting, cseq)
  /\ Numbered(cseq, issued, fCSeq)

Orders == InWireOrder /\ Covered /\ Truthful

OInv ==
  /\ ~Confusing => Orders
  /\ Patient => OneAtATime
  /\ Steady

\* sendRequest() lets the request wait for the connection, writes it, or concludes it.
LEMMA SendOutcomes ==
  ASSUME NEW r, NEW c, NEW st \in Connections, NEW gone, SendRequest(r, c, st, gone)
  PROVE  /\ fromServer' = st.in /\ deleted \cup gone \subseteq deleted'
         /\ \/ /\ awaitingConnection # <<>> \/ st.socket = "closed"
               /\ awaitingConnection' = Append(awaitingConnection, r)
               /\ awaitingResponse' = st.queue /\ toServer' = st.out
               /\ Conclude({}, gone)
            \/ /\ awaitingConnection = <<>> /\ awaitingConnection' = <<>> /\ socket' = "open"
               /\ awaitingResponse' = Append(st.queue, r)
               /\ toServer' = Append(st.out, [id |-> r, cseq |-> c])
               /\ Conclude({}, gone)
            \/ /\ awaitingConnection = <<>> /\ awaitingConnection' = <<>>
               /\ socket' \in {st.socket, "open"}
               /\ awaitingResponse' = st.queue /\ toServer' = st.out
               /\ Conclude({r}, gone)
<1>1. DOMAIN st = {"socket", "queue", "out", "in"}
  BY DEF Connections
<1>2. CASE /\ awaitingConnection # <<>> \/ st.socket = "closed"
           /\ awaitingConnection' = Append(awaitingConnection, r)
           /\ Becomes([st EXCEPT !.socket = IF awaitingConnection = <<>> THEN "connecting" ELSE @])
           /\ Conclude({}, gone)
  BY <1>1, <1>2 DEF Becomes, Conclude, Connections
<1>3. CASE /\ awaitingConnection = <<>>
           /\ Becomes([st EXCEPT !.socket = "open",
                                 !.queue = Append(@, r),
                                 !.out = Append(@, [id |-> r, cseq |-> c])])
           /\ Conclude({}, gone)
           /\ UNCHANGED awaitingConnection
  BY <1>1, <1>3 DEF Becomes, Conclude, Connections
<1>4. CASE /\ awaitingConnection = <<>>
           /\ \E s \in {st.socket, "open"} : Becomes([st EXCEPT !.socket = s])
           /\ Conclude({r}, gone)
           /\ UNCHANGED awaitingConnection
  BY <1>1, <1>4 DEF Becomes, Conclude, Connections
<1> QED
  BY <1>2, <1>3, <1>4 DEF SendRequest

\* A request with a CSeq above all others keeps the orders.
LEMMA SendKeepsOrder ==
  ASSUME awaitingConnection \in Seq(Ids), NEW st \in Connections,
         NEW r \in Ids, NEW c \in Nat, NEW gone, NEW f, NEW ps, f[r] = c,
         Wire(st.queue, f, ps, st.in, st.out),
         Queued(st.queue, awaitingConnection, f),
         \A x \in Holds(st.queue) \cup Holds(awaitingConnection) : f[x] < c,
         SendRequest(r, c, st, gone)
  PROVE  /\ Wire(awaitingResponse', f, ps, fromServer', toServer')
         /\ Queued(awaitingResponse', awaitingConnection', f)
         /\ Holds(awaitingResponse') \subseteq Holds(st.queue) \cup {r}
         /\ Holds(st.queue) \cup Holds(awaitingConnection) \cup {r}
              \subseteq Holds(awaitingConnection') \cup Holds(awaitingResponse') \cup deleted'
<1>1. st.queue \in Seq(Ids) /\ st.out \in Seq(Messages) /\ st.in \in Seq(Replies)
  BY DEF Connections
<1>2. Ascends(st.queue, f) /\ Ascends(awaitingConnection, f)
  BY DEF Queued
<1>3. /\ fromServer' = st.in
      /\ \/ /\ awaitingConnection' = Append(awaitingConnection, r)
            /\ awaitingResponse' = st.queue /\ toServer' = st.out
         \/ /\ awaitingConnection = <<>> /\ awaitingConnection' = <<>>
            /\ awaitingResponse' = Append(st.queue, r)
            /\ toServer' = Append(st.out, [id |-> r, cseq |-> c])
         \/ /\ awaitingConnection = <<>> /\ awaitingConnection' = <<>>
            /\ awaitingResponse' = st.queue /\ toServer' = st.out
            /\ Conclude({r}, gone)
  BY SendOutcomes
<1>4. CASE /\ awaitingConnection' = Append(awaitingConnection, r)
           /\ awaitingResponse' = st.queue /\ toServer' = st.out
  <2>1. /\ Ascends(awaitingConnection', f)
        /\ Holds(awaitingConnection') = Holds(awaitingConnection) \cup {r}
    BY <1>2, <1>4, AppendAscends
  <2> QED
    BY <1>2, <1>3, <1>4, <2>1 DEF Queued
<1>5. CASE /\ awaitingConnection = <<>> /\ awaitingConnection' = <<>>
           /\ awaitingResponse' = Append(st.queue, r)
           /\ toServer' = Append(st.out, [id |-> r, cseq |-> c])
  <2> DEFINE e == [id |-> r, cseq |-> c]
             g == [x \in Messages |-> x.cseq]
  <2>1. /\ Ascends(awaitingResponse', f)
        /\ Holds(awaitingResponse') = Holds(st.queue) \cup {r}
    BY <1>1, <1>2, <1>5, AppendAscends, ZenonT(60)
  <2>2. e \in Messages /\ e.id = r /\ e.cseq = c
    BY DEF Messages
  <2>3. \A x \in Holds(st.in) \cup Holds(st.out) \cup ps : x.cseq < c
    BY DEF Wire
  <2> HIDE DEF e
  <2>4. Holds(st.out) \subseteq Messages
    BY <1>1, HoldsType
  <2>5. \A x \in Holds(st.out) : g[x] < g[e]
    BY <2>2, <2>3, <2>4
  <2>6. Ascends(st.out, g)
    BY <1>1, RisingIsAscending DEF Wire
  <2> HIDE DEF g
  <2>7. Ascends(Append(st.out, e), g) /\ Holds(Append(st.out, e)) = Holds(st.out) \cup {e}
    BY <1>1, <2>2, <2>5, <2>6, AppendAscends
  <2>8. toServer' = Append(st.out, e) /\ toServer' \in Seq(Messages)
    BY <1>1, <1>5, <2>2, AppendProperties DEF e
  <2>9. Rising(toServer')
    BY <2>7, <2>8, RisingIsAscending DEF g
  <2>10. \A x \in ps \cup Holds(fromServer') \cup Holds(toServer') :
           x.id \in Holds(awaitingResponse') /\ f[x.id] = x.cseq
    BY <1>3, <2>1, <2>2, <2>7, <2>8 DEF Wire
  <2>11. \A x \in Holds(fromServer'), y \in Holds(toServer') : x.cseq < y.cseq
    BY <1>3, <2>2, <2>3, <2>7, <2>8 DEF Wire
  <2>12. \A x \in ps, y \in Holds(fromServer') \cup Holds(toServer') : x.cseq < y.cseq
    BY <1>3, <2>2, <2>3, <2>7, <2>8 DEF Wire
  <2>13. Wire(awaitingResponse', f, ps, fromServer', toServer')
    BY <1>3, <2>9, <2>10, <2>11, <2>12 DEF Wire
  <2>14. Queued(awaitingResponse', awaitingConnection', f)
    BY <1>5, <2>1, EmptyAscends, EmptyHolds DEF Queued
  <2> QED
    BY <1>5, <2>1, <2>13, <2>14
<1>6. CASE /\ awaitingConnection = <<>> /\ awaitingConnection' = <<>>
           /\ awaitingResponse' = st.queue /\ toServer' = st.out
           /\ Conclude({r}, gone)
  <2>1. r \in deleted'
    BY <1>6 DEF Conclude
  <2> QED
    BY <1>2, <1>3, <1>6, <2>1
<1> QED
  BY <1>3, <1>4, <1>5, <1>6

\* No messages are under way on a new connection.
LEMMA EmptyWire == ASSUME NEW q, NEW f PROVE Wire(q, f, {}, <<>>, <<>>)
BY EmptyHolds, EmptyAscends DEF Wire

\* The messages behind a response belong to the records that stay in the queue.
LEMMA HitKeepsWire ==
  ASSUME IInv, NEW x \in Holds(awaitingResponse), NEW m, Hit(m, x), NEW in, NEW out,
         Wire(awaitingResponse, cseq, {}, in, out),
         \A y \in Holds(in) \cup Holds(out) : cseq[x] < y.cseq
  PROVE  /\ Wire(m.queue, cseq, {}, in, out)
         /\ \A y \in Holds(in) \cup Holds(out) : y.id # x
<1>1. Holds(awaitingResponse) \subseteq Ids /\ cseq \in [Ids -> Nat]
  BY HoldsType DEF IInv, TypeOK
<1>2. ASSUME NEW y \in Holds(in) \cup Holds(out)
      PROVE  y.id \in Holds(m.queue) /\ cseq[y.id] = y.cseq /\ y.id # x
  <2>1. y.id \in Holds(awaitingResponse) /\ cseq[y.id] = y.cseq /\ cseq[x] < cseq[y.id]
    BY DEF Wire
  <2>2. cseq[x] \in Nat /\ cseq[y.id] \in Nat
    BY <1>1, <2>1
  <2>3. y.id # x /\ y.id \notin m.skipped
    BY <2>1, <2>2 DEF Hit
  <2> QED
    BY <2>1, <2>3 DEF Hit
<1> QED
  BY <1>2 DEF Wire

\* The end of a sequence of messages.
LEMMA SuffixRising ==
  ASSUME NEW S, NEW s \in Seq(S), Rising(s), NEW k \in 0..Len(s)
  PROVE  LET t == SubSeq(s, k + 1, Len(s))
         IN t \in Seq(S) /\ Rising(t) /\ Holds(t) \subseteq Holds(s)
<1> DEFINE g == [x \in S |-> x.cseq]
           t == SubSeq(s, k + 1, Len(s))
<1>1. Ascends(s, g)
  BY RisingIsAscending
<1> HIDE DEF g
<1>2. t \in Seq(S) /\ Ascends(t, g) /\ Holds(t) \subseteq Holds(s)
  BY <1>1, SuffixAscends
<1> HIDE DEF t
<1>3. Rising(t)
  BY <1>2, RisingIsAscending DEF g
<1> QED
  BY <1>2, <1>3 DEF t

\* handleResponseBytes() with a response to a waiting request: the request is found,
\* the orders are kept, no record is dropped, and success is truly told.
LEMMA HandleKeepsOrder ==
  ASSUME IInv, socket = "open", succeeded \subseteq accepted,
         Queued(awaitingResponse, awaitingConnection, cseq), Numbered(cseq, issued, fCSeq),
         NEW rep \in Replies, NEW rest \in Seq(Replies),
         Wire(awaitingResponse, cseq, {rep}, rest, toServer),
         rep.code = "ok" => rep.id \in accepted,
         HandleResponse(rep, rest)
  PROVE  /\ Wire(awaitingResponse', cseq', {}, fromServer', toServer')
         /\ Queued(awaitingResponse', awaitingConnection', cseq')
         /\ Numbered(cseq', issued, fCSeq')
         /\ Holds(awaitingResponse) \cup deleted
              \subseteq Holds(awaitingConnection') \cup Holds(awaitingResponse') \cup deleted'
         /\ Holds(fromServer') \subseteq Holds(rest)
         /\ succeeded' \subseteq accepted
<1> DEFINE x == rep.id
           c == rep.cseq
           m == Match(c)
           st == IF rep.close THEN Fresh(m.queue)
                 ELSE [Current EXCEPT !.queue = m.queue, !.in = rest]
<1>1. /\ awaitingConnection = <<>> /\ awaitingResponse \in Seq(Ids) /\ cseq \in [Ids -> Nat]
      /\ toServer \in Seq(Messages) /\ fCSeq \in Nat
      /\ Holds(awaitingResponse) \subseteq 1..issued /\ Holds(awaitingResponse) \subseteq Ids
  BY HoldsType DEF IInv, TypeOK, Owned, Messages
<1>2. /\ x \in Holds(awaitingResponse) /\ cseq[x] = c /\ c \in Nat \ {0} /\ x # 0 /\ x \in Ids
      /\ Ascends(awaitingResponse, cseq)
  <2>1. x \in Holds(awaitingResponse) /\ cseq[x] = c /\ Ascends(awaitingResponse, cseq)
    BY DEF Wire, Queued
  <2>2. x \in 1..issued /\ x \in Ids /\ cseq[x] \in 1..fCSeq
    BY <1>1, <2>1 DEF Numbered
  <2> QED
    BY <1>1, <2>1, <2>2 DEF Ids
<1>3. Hit(m, x)
  BY <1>1, <1>2, MatchHits
<1>4. Unclaimed(m, st) \/ Complete(m, st, rep.code) \/ Resend(m, st, rep.code)
  BY DEF HandleResponse
<1> HIDE DEF x, c, m
<1>5. m.found = x /\ m.queue \in Seq(Ids) /\ Ascends(m.queue, cseq) /\ x \notin Holds(m.queue)
  <2>1. cseq[x] \in Nat
    BY <1>1, <1>2
  <2> QED
    BY <1>3, <2>1 DEF Hit
<1>6. /\ Wire(m.queue, cseq, {}, rest, toServer)
      /\ \A y \in Holds(rest) \cup Holds(toServer) : y.id # x
  <2>1. /\ Wire(awaitingResponse, cseq, {}, rest, toServer)
        /\ \A y \in Holds(rest) \cup Holds(toServer) : cseq[x] < y.cseq
    BY <1>2 DEF Wire, c
  <2> QED
    BY <1>2, <1>3, <2>1, HitKeepsWire
<1>7. /\ st \in Connections /\ st.queue = m.queue /\ st.in \in Seq(Replies)
      /\ Wire(m.queue, cseq, {}, st.in, st.out)
      /\ Holds(st.in) \subseteq Holds(rest) /\ Holds(st.out) \subseteq Holds(toServer)
  <2>1. CASE rep.close
    <3>1. st = Fresh(m.queue)
      BY <2>1
    <3>2. Fresh(m.queue) \in Connections /\ Fresh(m.queue).queue = m.queue
      BY <1>5, FreshConnection
    <3>3. Fresh(m.queue).in = <<>> /\ Fresh(m.queue).out = <<>>
      BY DEF Fresh
    <3>4. <<>> \in Seq(Replies)
      BY EmptySeq
    <3> QED
      BY <3>1, <3>2, <3>3, <3>4, EmptyWire, EmptyHolds
  <2>2. CASE ~rep.close
    <3>1. st = [Current EXCEPT !.queue = m.queue, !.in = rest]
      BY <2>2
    <3>2. Current \in Connections /\ Current.out = toServer
      BY CurrentConnection DEF IInv, Current
    <3>3. st \in Connections /\ st.queue = m.queue /\ st.in = rest /\ st.out = toServer
      BY <1>5, <3>1, <3>2 DEF Connections
    <3> QED
      BY <1>6, <3>3
  <2> QED
    BY <2>1, <2>2
<1>8. /\ \A y \in Holds(m.queue) : y \in 1..issued /\ cseq[y] \in 1..fCSeq
      /\ Holds(awaitingResponse) \subseteq {x} \cup Holds(m.queue) \cup m.skipped
      /\ x \in 1..issued
  BY <1>1, <1>2, <1>3 DEF Hit, Numbered
<1> HIDE DEF st
<1>9. CASE Unclaimed(m, st)
  BY <1>2, <1>5, <1>9 DEF Unclaimed
<1>10. CASE Complete(m, st, rep.code)
  <2>1. /\ awaitingResponse' = m.queue /\ fromServer' = st.in /\ toServer' = st.out
        /\ cseq' = cseq /\ fCSeq' = fCSeq /\ awaitingConnection' = <<>>
        /\ deleted' = deleted \cup {x} \cup m.skipped
        /\ succeeded' = IF rep.code = "ok" THEN succeeded \cup {x} ELSE succeeded
    BY <1>1, <1>5, <1>7, <1>10 DEF Complete, Becomes, Conclude
  <2>2. Queued(m.queue, <<>>, cseq)
    BY <1>5, EmptyAscends, EmptyHolds DEF Queued
  <2>3. succeeded' \subseteq accepted
    BY <2>1 DEF x
  <2> QED
    BY <1>7, <1>8, <2>1, <2>2, <2>3
<1>11. CASE Resend(m, st, rep.code)
  <2> DEFINE top == fCSeq + 1
             f == [cseq EXCEPT ![x] = top]
  <2>1. /\ fCSeq' = top /\ cseq' = f /\ succeeded' = succeeded
    BY <1>5, <1>11 DEF Resend
  <2>2. PICK k \in 0..Len(st.in) :
          SendRequest(x, top,
                      IF rep.code = "moved" THEN Fresh(m.queue)
                      ELSE [st EXCEPT !.in = SubSeq(@, k + 1, Len(@))], m.skipped)
    BY <1>5, <1>11 DEF Resend
  <2> DEFINE to == IF rep.code = "moved" THEN Fresh(m.queue)
                   ELSE [st EXCEPT !.in = SubSeq(@, k + 1, Len(@))]
  <2>3. top \in Nat /\ f[x] = top /\ (\A y \in Ids : y # x => f[y] = cseq[y]) /\ \A n \in 1..fCSeq : n < top /\ n \in 1..top
    BY <1>1, <1>2
  <2> HIDE DEF f, top
  <2>4. Wire(m.queue, f, {}, st.in, st.out)
    <3>1. ASSUME NEW y \in Holds(st.in) \cup Holds(st.out)
          PROVE  y.id \in Holds(m.queue) /\ f[y.id] = y.cseq
      <4>1. y.id \in Holds(m.queue) /\ cseq[y.id] = y.cseq /\ y.id # x
        BY <1>6, <1>7 DEF Wire
      <4>2. y.id \in Ids
        BY <1>5, <4>1, HoldsType
      <4> QED
        BY <2>3, <4>1, <4>2
    <3> QED
      BY <1>7, <3>1 DEF Wire
  <2>5. /\ to \in Connections /\ to.queue = m.queue /\ Wire(m.queue, f, {}, to.in, to.out)
        /\ Holds(to.in) \subseteq Holds(rest)
    <3>1. CASE rep.code = "moved"
      <4>1. to = Fresh(m.queue)
        BY <3>1
      <4>2. Fresh(m.queue) \in Connections /\ Fresh(m.queue).queue = m.queue
        BY <1>5, FreshConnection
      <4>3. Fresh(m.queue).in = <<>> /\ Fresh(m.queue).out = <<>>
        BY DEF Fresh
      <4> QED
        BY <4>1, <4>2, <4>3, EmptyWire, EmptyHolds
    <3>2. CASE rep.code # "moved"
      <4> DEFINE in == SubSeq(st.in, k + 1, Len(st.in))
      <4>1. in \in Seq(Replies) /\ Rising(in) /\ Holds(in) \subseteq Holds(st.in)
        BY <1>7, SuffixRising DEF Wire
      <4>2. to = [st EXCEPT !.in = in]
        BY <3>2
      <4> HIDE DEF in, to
      <4>3. to \in Connections /\ to.queue = m.queue /\ to.in = in /\ to.out = st.out
        BY <1>7, <4>1, <4>2 DEF Connections
      <4>4. Wire(m.queue, f, {}, in, st.out)
        BY <2>4, <4>1 DEF Wire
      <4> QED
        BY <1>7, <4>1, <4>3, <4>4
    <3> QED
      BY <3>1, <3>2
  <2>6. SendRequest(x, top, to, m.skipped)
    BY <2>2
  <2> HIDE DEF to
  <2>7. \A y \in Holds(m.queue) : y \in Ids /\ y # x /\ f[y] = cseq[y] /\ f[y] < top
    BY <1>5, <1>8, <2>3, HoldsType
  <2>8. Queued(m.queue, awaitingConnection, f)
    <3>1. Ascends(m.queue, f)
      <4>1. \A i \in DOMAIN m.queue : m.queue[i] \in Holds(m.queue)
        BY DEF Holds
      <4> QED
        BY <1>5, <2>7, <4>1 DEF Ascends
    <3> QED
      BY <1>1, <3>1, EmptyAscends, EmptyHolds DEF Queued
  <2>9. \A y \in Holds(to.queue) \cup Holds(awaitingConnection) : f[y] < top
    BY <1>1, <2>5, <2>7, EmptyHolds
  <2>10. awaitingConnection \in Seq(Ids)
    BY DEF IInv, TypeOK
  <2>11. /\ Wire(awaitingResponse', f, {}, fromServer', toServer')
         /\ Queued(awaitingResponse', awaitingConnection', f)
         /\ Holds(to.queue) \cup Holds(awaitingConnection) \cup {x}
              \subseteq Holds(awaitingConnection') \cup Holds(awaitingResponse') \cup deleted'
    <3>1. Wire(to.queue, f, {}, to.in, to.out) /\ Queued(to.queue, awaitingConnection, f)
      BY <2>5, <2>8
    <3>2. to \in Connections /\ x \in Ids /\ top \in Nat /\ f[x] = top
      BY <1>2, <2>3, <2>5
    <3> QED
      BY <2>6, <2>9, <2>10, <3>1, <3>2, SendKeepsOrder
  <2>12. fromServer' = to.in /\ deleted \cup m.skipped \subseteq deleted'
    BY <2>5, <2>6, SendOutcomes
  <2>13. Numbered(f, issued, top)
    <3>1. 1..issued \subseteq Ids
      BY WorldsAssumption DEF IInv, TypeOK, Ids
    <3>2. top \in 1..top
      BY <1>1 DEF top
    <3> QED
      BY <2>3, <3>1, <3>2 DEF Numbered
  <2> QED
    BY <1>8, <2>1, <2>5, <2>11, <2>12, <2>13
<1> QED
  BY <1>4, <1>9, <1>10, <1>11

-----------------------------------------------------------------------------
(***************************************************************************)
(* The steps keep the orders, as long as nobody is confusing.              *)
(***************************************************************************)

\* The record of a request that waits to be resent has not been deleted, and its
\* handler has not been called.
LEMMA HeldUnanswered ==
  ASSUME IInv
  PROVE  \A r \in Holds(awaitingConnection) \cup Holds(awaitingResponse) \cup Holds(tmp) :
           r \in 1..issued /\ r \in Ids /\ r \notin deleted /\ calls[r] = 0
<1>1. 1..issued \subseteq Ids
  BY WorldsAssumption DEF IInv, TypeOK, Ids
<1> SUFFICES ASSUME NEW r \in Holds(awaitingConnection) \cup Holds(awaitingResponse) \cup Holds(tmp)
             PROVE  r \in 1..issued /\ r \in Ids /\ r \notin deleted /\ calls[r] = 0
  OBVIOUS
<1>2. r \in 1..issued /\ r \in Ids /\ r \notin deleted
  BY <1>1 DEF IInv, Owned
<1>3. calls[r] \in Nat /\ calls[r] <= 0
  BY <1>2 DEF IInv, Once, TypeOK
<1> QED
  BY <1>2, <1>3

\* The requests whose handlers have not been called are finitely many.
LEMMA UnansweredFinite ==
  ASSUME IInv
  PROVE  /\ Cardinality({r \in 1..issued : calls[r] = 0}) \in Nat
         /\ Cardinality({r \in 1..issued : calls[r] = 0}) = 0
              <=> {r \in 1..issued : calls[r] = 0} = {}
<1> DEFINE waiting == {r \in 1..issued : calls[r] = 0}
<1>1. issued \in Nat
  BY WorldsAssumption DEF IInv, TypeOK
<1>2. IsFiniteSet(1..issued)
  BY <1>1, FS_Interval
<1>3. IsFiniteSet(waiting)
  BY <1>2, FS_Subset
<1> HIDE DEF waiting
<1>4. Cardinality(waiting) \in Nat /\ (Cardinality(waiting) = 0 <=> waiting = {})
  BY <1>3, FS_CardinalityType, FS_EmptySet
<1> QED
  BY <1>4 DEF waiting

\* Nobody submits a request while others are being resent, unless he is confusing.
LEMMA NoneNested ==
  ASSUME IInv, ~Confusing, Submit
  PROVE  loop # "resend"
<1> SUFFICES ASSUME loop = "resend" PROVE FALSE
  OBVIOUS
<1>1. inHandler /\ world.nested
  BY DEF Submit
<1>2. world.pipeline = 1
  <2>1. world.pipeline \in Nat \ {0}
    BY WorldsAssumption DEF IInv, TypeOK
  <2> QED
    BY <1>1, <2>1 DEF Confusing
<1>3. PICK r : r \in Holds(tmp)
  BY HoldsType DEF IInv, TypeOK
<1>4. r \in {x \in 1..issued : calls[x] = 0}
  BY <1>3, HeldUnanswered
<1>5. Cardinality({x \in 1..issued : calls[x] = 0}) < 1
  BY <1>2 DEF Submit
<1> QED
  BY <1>4, <1>5, UnansweredFinite

\* What the invariant says of the CSeqs.
LEMMA NumbersKnown ==
  ASSUME IInv, Numbered(cseq, issued, fCSeq)
  PROVE  /\ \A r \in Holds(awaitingConnection) \cup Holds(awaitingResponse) \cup Holds(tmp) :
              cseq[r] \in 1..fCSeq /\ cseq[r] < fCSeq + 1
         /\ fCSeq \in Nat
<1>1. fCSeq \in Nat
  BY DEF IInv, TypeOK
<1> QED
  BY <1>1, HeldUnanswered DEF Numbered

\* send...Command()
LEMMA SubmitOrders ==
  ASSUME IInv, ~Confusing, Orders, Submit
  PROVE  Orders'
<1> DEFINE r == issued + 1
           c == fCSeq + 1
           f == [cseq EXCEPT ![r] = c]
<1>1. loop # "resend"
  BY NoneNested
<1>2. /\ issued' = r /\ fCSeq' = c /\ cseq' = f
      /\ SendRequest(r, c, Current, {})
      /\ UNCHANGED <<loop, tmp, inHandler, partial, succeeded, accepted>>
  BY DEF Submit
<1>3. /\ issued \in Nat /\ r \in Ids /\ fCSeq \in Nat /\ c \in Nat /\ cseq \in [Ids -> Nat]
      /\ 1..issued \subseteq Ids /\ r \notin 1..issued /\ 1..r = 1..issued \cup {r}
  <2>1. issued \in Nat /\ world.requests \in Nat /\ issued < world.requests
    <3>1. world \in Worlds /\ issued \in 0..world.requests
      BY DEF IInv, TypeOK
    <3>2. world.requests \in Nat
      BY <3>1, WorldsAssumption
    <3>3. issued < world.requests
      BY DEF Submit
    <3> QED
      BY <3>1, <3>2, <3>3
  <2>2. fCSeq \in Nat /\ cseq \in [Ids -> Nat]
    BY DEF IInv, TypeOK
  <2>3. /\ r \in Ids /\ c \in Nat /\ r \notin 1..issued
        /\ \A x \in 1..issued : x \in Ids
    BY <2>1, <2>2 DEF Ids
  <2>4. \A x \in Nat : x \in 1..r <=> x \in 1..issued \/ x = r
    BY <2>1
  <2>5. 1..r \subseteq Nat /\ 1..issued \subseteq Nat /\ r \in Nat
    BY <2>1
  <2> HIDE DEF r, c, f
  <2>6. 1..r = 1..issued \cup {r}
    BY <2>4, <2>5
  <2> QED
    BY <2>1, <2>2, <2>3, <2>6
<1>4. f[r] = c /\ \A x \in 1..issued : f[x] = cseq[x]
  BY <1>3
<1>5. \A x \in Holds(awaitingConnection) \cup Holds(awaitingResponse) :
        x \in 1..issued /\ f[x] = cseq[x] /\ f[x] < c
  BY <1>4, HeldUnanswered, NumbersKnown DEF Orders, InWireOrder
<1> HIDE DEF f
<1>6. Wire(awaitingResponse, f, Parts, fromServer, toServer)
  BY <1>5 DEF Orders, InWireOrder, Wire
<1>7. Queued(awaitingResponse, awaitingConnection, f)
  <2>1. Queued(awaitingResponse, awaitingConnection, cseq)
    BY <1>1 DEF Orders, InWireOrder, Waiting
  <2>2. /\ \A i \in DOMAIN awaitingResponse : awaitingResponse[i] \in Holds(awaitingResponse)
        /\ \A i \in DOMAIN awaitingConnection : awaitingConnection[i] \in Holds(awaitingConnection)
    BY DEF Holds
  <2>3. Ascends(awaitingResponse, f) /\ Ascends(awaitingConnection, f)
    BY <1>5, <2>1, <2>2 DEF Queued, Ascends
  <2> QED
    BY <1>5, <2>1, <2>3 DEF Queued
<1>8. /\ Current \in Connections /\ Current.queue = awaitingResponse
      /\ Current.in = fromServer /\ Current.out = toServer
  BY CurrentConnection DEF IInv, Current
<1> HIDE DEF r, c
<1>9. /\ Wire(awaitingResponse', f, Parts, fromServer', toServer')
      /\ Queued(awaitingResponse', awaitingConnection', f)
      /\ Holds(awaitingResponse) \cup Holds(awaitingConnection) \cup {r}
           \subseteq Holds(awaitingConnection') \cup Holds(awaitingResponse') \cup deleted'
  <2>1. awaitingConnection \in Seq(Ids)
    BY DEF IInv, TypeOK
  <2> QED
    BY <1>2, <1>3, <1>4, <1>5, <1>6, <1>7, <1>8, <2>1, SendKeepsOrder
<1>10. Parts' = Parts /\ Waiting' = awaitingConnection'
  BY <1>1, <1>2 DEF Parts, Waiting
<1>11. Numbered(f, r, c)
  <2>1. c \in 1..c /\ 1..fCSeq \subseteq 1..c
    BY <1>3 DEF c
  <2> QED
    BY <1>3, <1>4, <2>1 DEF Numbered, Orders, InWireOrder
<1>12. fromServer' = fromServer /\ deleted \subseteq deleted'
  BY <1>2, <1>8, SendOutcomes
<1>13. Covered'
  BY <1>2, <1>3, <1>9, <1>12 DEF Covered, Orders
<1>14. Truthful'
  BY <1>2, <1>10, <1>12 DEF Truthful, Orders
<1> QED
  BY <1>2, <1>9, <1>10, <1>11, <1>13, <1>14 DEF Orders, InWireOrder

\* connectionHandler1(): the requests move to the temporary queue.
LEMMA ConnectedOrders ==
  ASSUME IInv, Orders, ConnectionOpens \/ ConnectionFails
  PROVE  Orders'
<1>1. /\ tmp = <<>> /\ tmp' = awaitingConnection /\ awaitingConnection' = <<>>
      /\ loop = "none" /\ loop' \in {"resend", "fail"}
      /\ UNCHANGED <<fCSeq, issued, cseq, awaitingResponse, partial, toServer, fromServer,
                     succeeded, deleted, accepted>>
  BY DEF ConnectionOpens, ConnectionFails, IInv, wire, history
<1>2. Waiting = awaitingConnection /\ Waiting' \in {awaitingConnection, <<>>} /\ Parts' = Parts
  BY <1>1 DEF Waiting, Parts
<1>3. Queued(awaitingResponse, Waiting', cseq)
  BY <1>2, EmptyAscends, EmptyHolds DEF Orders, InWireOrder, Queued
<1>4. InWireOrder'
  BY <1>1, <1>2, <1>3 DEF Orders, InWireOrder
<1>5. Covered' /\ Truthful'
  BY <1>1, <1>2, EmptyHolds DEF Orders, Covered, Truthful
<1> QED
  BY <1>4, <1>5 DEF Orders

\* The connection is open: the oldest of the waiting requests is sent.
LEMMA ResendOneOrders ==
  ASSUME IInv, Steady, Orders, ResendOne
  PROVE  Orders'
<1> DEFINE r == Head(tmp)
           t == Tail(tmp)
<1>1. /\ loop = "resend" /\ tmp # <<>> /\ tmp \in Seq(Ids) /\ socket = "open"
      /\ awaitingConnection = <<>> /\ awaitingConnection \in Seq(Ids) /\ cseq \in [Ids -> Nat]
  BY DEF IInv, TypeOK, ResendOne, Steady
<1>2. /\ SendRequest(r, cseq[r], Current, {}) /\ tmp' = t
      /\ loop' \in {"none", "resend"} /\ (loop' = "none" => t = <<>>)
      /\ UNCHANGED <<fCSeq, issued, cseq, partial, succeeded, accepted>>
  BY <1>1 DEF ResendOne, Advance
<1>3. Queued(awaitingResponse, tmp, cseq) /\ Ascends(tmp, cseq)
  BY <1>1 DEF Orders, InWireOrder, Waiting, Queued
<1>4. /\ r \in Ids /\ t \in Seq(Ids) /\ Ascends(t, cseq) /\ Holds(tmp) = {r} \cup Holds(t)
      /\ \A x \in Holds(t) : cseq[r] < cseq[x]
  BY <1>1, <1>3, TailAscends
<1> HIDE DEF r, t
<1>5. /\ Current \in Connections /\ Current.queue = awaitingResponse /\ Current.socket = "open"
      /\ Current.in = fromServer /\ Current.out = toServer
  BY <1>1, CurrentConnection DEF IInv, Current
<1>6. Wire(awaitingResponse, cseq, Parts, fromServer, toServer)
  BY DEF Orders, InWireOrder
<1>7. /\ Queued(awaitingResponse, awaitingConnection, cseq)
      /\ \A x \in Holds(awaitingResponse) \cup Holds(awaitingConnection) : cseq[x] < cseq[r]
  BY <1>1, <1>3, <1>4, EmptyAscends, EmptyHolds DEF Queued
<1>8. /\ Wire(awaitingResponse', cseq, Parts, fromServer', toServer')
      /\ Queued(awaitingResponse', awaitingConnection', cseq)
      /\ Holds(awaitingResponse') \subseteq Holds(awaitingResponse) \cup {r}
      /\ Holds(awaitingResponse) \cup Holds(awaitingConnection) \cup {r}
           \subseteq Holds(awaitingConnection') \cup Holds(awaitingResponse') \cup deleted'
  <2>1. cseq[r] \in Nat
    BY <1>1, <1>4
  <2> QED
    BY <1>1, <1>2, <1>4, <1>5, <1>6, <1>7, <2>1, SendKeepsOrder
<1>9. fromServer' = fromServer /\ deleted \subseteq deleted' /\ awaitingConnection' = <<>>
  <2>1. Current.socket # "closed" /\ ~(awaitingConnection # <<>>)
    BY <1>1, <1>5
  <2> QED
    BY <1>2, <1>5, <2>1, SendOutcomes
<1>10. Parts' = Parts /\ (Waiting' = t \/ Waiting' = awaitingConnection')
  BY <1>2 DEF Parts, Waiting
<1>11. Queued(awaitingResponse', t, cseq)
  BY <1>3, <1>4, <1>8 DEF Queued
<1>12. InWireOrder'
  BY <1>2, <1>8, <1>10, <1>11 DEF Orders, InWireOrder
<1>13. Covered'
  BY <1>2, <1>4, <1>8, <1>9 DEF Orders, Covered
<1>14. Truthful'
  BY <1>2, <1>9, <1>10 DEF Orders, Truthful
<1> QED
  BY <1>12, <1>13, <1>14 DEF Orders

\* A request hears that the connection failed.
LEMMA FailOneOrders ==
  ASSUME IInv, Orders, FailOne
  PROVE  Orders'
<1>1. tmp # <<>> /\ tmp \in Seq(Ids) /\ Distinct(tmp) /\ loop = "fail"
  BY DEF IInv, TypeOK, Owned, FailOne
<1>2. Holds(Tail(tmp)) = Holds(tmp) \ {Head(tmp)}
  BY <1>1, TailDistinct
<1>3. /\ deleted' = deleted \cup {Head(tmp)} /\ tmp' = Tail(tmp) /\ loop' \in {"none", "fail"}
      /\ UNCHANGED <<fCSeq, issued, cseq, awaitingConnection, awaitingResponse, partial,
                     toServer, fromServer, succeeded, accepted>>
  BY <1>1 DEF FailOne, Advance, Conclude, wire
<1>4. Parts' = Parts /\ Waiting' = Waiting
  BY <1>1, <1>3 DEF Parts, Waiting
<1> QED
  BY <1>2, <1>3, <1>4 DEF Orders, InWireOrder, Covered, Truthful

\* handleResponseBytes() after a read error: the requests move to the temporary queue.
LEMMA BreaksOrders ==
  ASSUME IInv, Orders, ConnectionBreaks
  PROVE  Orders'
<1>1. /\ tmp = <<>> /\ tmp' = awaitingResponse /\ awaitingConnection = <<>>
      /\ awaitingResponse' = <<>> /\ fromServer' = <<>> /\ toServer' = <<>>
      /\ partial' = NoReply /\ loop' # "resend"
      /\ UNCHANGED <<fCSeq, issued, cseq, awaitingConnection, succeeded, deleted, accepted>>
  BY DEF ConnectionBreaks, IInv, Becomes, Fresh, history
<1>2. Parts' = {} /\ Waiting' = <<>>
  BY <1>1 DEF Parts, Waiting
<1>3. Queued(<<>>, <<>>, cseq)
  BY EmptyAscends, EmptyHolds DEF Queued
<1>4. InWireOrder'
  BY <1>1, <1>2, <1>3, EmptyWire DEF Orders, InWireOrder
<1>5. Covered' /\ Truthful'
  BY <1>1, <1>2, EmptyHolds DEF Orders, Covered, Truthful
<1> QED
  BY <1>4, <1>5 DEF Orders

\* The oldest response and the ones behind it.
LEMMA OldestResponse ==
  ASSUME IInv, Orders, fromServer # <<>>, partial = NoReply
  PROVE  /\ Head(fromServer) \in Replies /\ Tail(fromServer) \in Seq(Replies)
         /\ Holds(fromServer) = {Head(fromServer)} \cup Holds(Tail(fromServer))
         /\ Wire(awaitingResponse, cseq, {Head(fromServer)}, Tail(fromServer), toServer)
         /\ Head(fromServer).code = "ok" => Head(fromServer).id \in accepted
<1> DEFINE g == [x \in Replies |-> x.cseq]
           h == Head(fromServer)
           t == Tail(fromServer)
<1>1. fromServer \in Seq(Replies)
  BY DEF IInv, TypeOK
<1>2. Ascends(fromServer, g)
  BY <1>1, RisingIsAscending DEF Orders, InWireOrder, Wire
<1> HIDE DEF g
<1>3. /\ h \in Replies /\ t \in Seq(Replies) /\ Ascends(t, g)
      /\ Holds(fromServer) = {h} \cup Holds(t)
      /\ \A x \in Holds(t) : g[h] < g[x]
  BY <1>1, <1>2, TailAscends
<1> HIDE DEF h, t
<1>4. Holds(t) \subseteq Replies
  BY <1>3, HoldsType
<1>5. Rising(t) /\ \A x \in Holds(t) : h.cseq < x.cseq
  BY <1>3, <1>4, RisingIsAscending DEF g
<1>6. Wire(awaitingResponse, cseq, {h}, t, toServer)
  BY <1>3, <1>5 DEF Orders, InWireOrder, Wire
<1>7. h.code = "ok" => h.id \in accepted
  BY <1>3 DEF Orders, Truthful
<1> QED
  BY <1>3, <1>6, <1>7 DEF h, t

\* A complete response, whose predecessors have been handled.
LEMMA ReceiveOrders ==
  ASSUME IInv, Orders, socket = "open", loop = "none",
         NEW rep \in Replies, NEW rest \in Seq(Replies), Holds(rest) \subseteq Holds(fromServer),
         Wire(awaitingResponse, cseq, {rep}, rest, toServer),
         rep.code = "ok" => rep.id \in accepted,
         HandleResponse(rep, rest), partial' = NoReply,
         UNCHANGED <<issued, loop, tmp, inHandler, accepted>>
  PROVE  Orders'
<1>1. Queued(awaitingResponse, awaitingConnection, cseq)
  BY DEF Orders, InWireOrder, Waiting
<1>2. /\ Wire(awaitingResponse', cseq', {}, fromServer', toServer')
      /\ Queued(awaitingResponse', awaitingConnection', cseq')
      /\ Numbered(cseq', issued, fCSeq')
      /\ Holds(awaitingResponse) \cup deleted
           \subseteq Holds(awaitingConnection') \cup Holds(awaitingResponse') \cup deleted'
      /\ Holds(fromServer') \subseteq Holds(rest)
      /\ succeeded' \subseteq accepted
  BY <1>1, HandleKeepsOrder DEF Orders, InWireOrder, Truthful
<1>3. awaitingConnection = <<>>
  BY DEF IInv
<1>4. Parts' = {} /\ Waiting' = awaitingConnection'
  BY DEF Parts, Waiting
<1>5. InWireOrder'
  BY <1>2, <1>4 DEF InWireOrder
<1>6. Covered'
  BY <1>2, <1>3, EmptyHolds DEF Orders, Covered
<1>7. Truthful'
  BY <1>2, <1>4 DEF Orders, Truthful
<1> QED
  BY <1>5, <1>6, <1>7 DEF Orders

\* A response arrives in one piece, or the rest of one.
LEMMA ReceiveWholeOrders == ASSUME IInv, Orders, ReceiveWhole PROVE Orders'
<1>1. /\ Head(fromServer) \in Replies /\ Tail(fromServer) \in Seq(Replies)
      /\ Holds(fromServer) = {Head(fromServer)} \cup Holds(Tail(fromServer))
      /\ Wire(awaitingResponse, cseq, {Head(fromServer)}, Tail(fromServer), toServer)
      /\ Head(fromServer).code = "ok" => Head(fromServer).id \in accepted
  BY OldestResponse DEF ReceiveWhole
<1>2. /\ socket = "open" /\ loop = "none" /\ HandleResponse(Head(fromServer), Tail(fromServer))
      /\ partial' = NoReply /\ UNCHANGED <<issued, loop, tmp, inHandler, accepted>>
  BY DEF ReceiveWhole
<1>3. Holds(Tail(fromServer)) \subseteq Holds(fromServer)
  BY <1>1
<1> QED
  BY <1>1, <1>2, <1>3, ReceiveOrders

LEMMA ReceiveRestOrders == ASSUME IInv, Orders, ReceiveRest PROVE Orders'
<1>1. partial \in Replies /\ fromServer \in Seq(Replies) /\ Parts = {partial}
  BY DEF IInv, TypeOK, ReceiveRest, Parts
<1>2. /\ Wire(awaitingResponse, cseq, {partial}, fromServer, toServer)
      /\ partial.code = "ok" => partial.id \in accepted
  BY <1>1 DEF Orders, InWireOrder, Truthful
<1>3. /\ socket = "open" /\ loop = "none" /\ HandleResponse(partial, fromServer)
      /\ partial' = NoReply /\ UNCHANGED <<issued, loop, tmp, inHandler, accepted>>
  BY DEF ReceiveRest
<1> QED
  BY <1>1, <1>2, <1>3, ReceiveOrders

\* The response found is put back until its body has arrived.
LEMMA ReceivePartOrders == ASSUME IInv, Orders, ReceivePart PROVE Orders'
<1> DEFINE rep == Head(fromServer)
           m == Match(rep.cseq)
           back == IF m.found = 0 THEN m.queue ELSE <<m.found>> \o m.queue
           x == rep.id
<1>1. /\ rep \in Replies
      /\ Holds(fromServer) = {rep} \cup Holds(Tail(fromServer))
      /\ Wire(awaitingResponse, cseq, {rep}, Tail(fromServer), toServer)
      /\ rep.code = "ok" => rep.id \in accepted
  BY OldestResponse DEF ReceivePart
<1>2. /\ Becomes([Current EXCEPT !.queue = back, !.in = Tail(fromServer)])
      /\ Conclude({}, m.skipped) /\ partial' = rep
      /\ UNCHANGED <<fCSeq, issued, cseq, awaitingConnection, loop, tmp, inHandler,
                     succeeded, accepted>>
      /\ loop = "none" /\ socket = "open"
  BY DEF ReceivePart
<1>3. /\ awaitingConnection = <<>> /\ awaitingResponse \in Seq(Ids) /\ cseq \in [Ids -> Nat]
      /\ Ascends(awaitingResponse, cseq)
  BY <1>2 DEF IInv, TypeOK, Orders, InWireOrder, Queued
<1>4. /\ x \in Holds(awaitingResponse) /\ cseq[x] = rep.cseq /\ rep.cseq \in Nat \ {0}
      /\ x \in Ids /\ x # 0
  <2>1. x \in Holds(awaitingResponse) /\ cseq[x] = rep.cseq
    BY <1>1 DEF Wire
  <2>2. x \in Ids /\ cseq[x] \in 1..fCSeq /\ fCSeq \in Nat
    BY <2>1, HeldUnanswered, NumbersKnown DEF Orders, InWireOrder
  <2> QED
    BY <2>1, <2>2 DEF Ids
<1>5. Hit(m, x)
  BY <1>3, <1>4, MatchHits
<1> HIDE DEF m, rep
<1>6. back = <<x>> \o m.queue
  BY <1>4, <1>5 DEF Hit
<1> HIDE DEF back
<1>7. x \notin Holds(m.queue)
  BY <1>3, <1>4, <1>5 DEF Hit
<1>8. Ascends(back, cseq) /\ Holds(back) = {x} \cup Holds(m.queue)
  <2>1. Ascends(back, cseq)
    BY <1>4, <1>5, <1>6, PutBackAscends DEF Hit
  <2>2. Distinct(m.queue)
    <3>1. /\ DOMAIN m.queue = 1..Len(m.queue) /\ Len(m.queue) \in Nat
          /\ \A i \in DOMAIN m.queue : m.queue[i] \in Ids
      BY <1>5, LenProperties, ElementOfSeq DEF Hit
    <3> SUFFICES ASSUME NEW i \in DOMAIN m.queue, NEW j \in DOMAIN m.queue, m.queue[i] = m.queue[j]
                 PROVE  i = j
      BY DEF Distinct
    <3>2. cseq[m.queue[i]] \in Nat
      BY <1>3, <3>1
    <3>3. ~(i < j) /\ ~(j < i)
      BY <1>5, <3>2 DEF Hit, Ascends
    <3> QED
      BY <3>1, <3>3
  <2> QED
    BY <1>4, <1>5, <1>6, <1>7, <2>1, <2>2, PutBackDistinct DEF Hit
<1>9. /\ awaitingResponse' = back /\ toServer' = toServer /\ fromServer' = Tail(fromServer)
      /\ deleted' = deleted \cup m.skipped
  BY <1>2 DEF Becomes, Current, Conclude
<1>10. Parts' = {rep} /\ Waiting' = <<>>
  <2>1. rep # NoReply
    BY <1>1, <1>4 DEF NoReply
  <2> QED
    BY <1>2, <1>3, <2>1 DEF Parts, Waiting
<1>11. /\ Wire(m.queue, cseq, {}, Tail(fromServer), toServer)
  <2>1. /\ Wire(awaitingResponse, cseq, {}, Tail(fromServer), toServer)
        /\ \A y \in Holds(Tail(fromServer)) \cup Holds(toServer) : cseq[x] < y.cseq
    BY <1>1, <1>4 DEF Wire
  <2> QED
    BY <1>4, <1>5, <2>1, HitKeepsWire
<1>12. Wire(back, cseq, {rep}, Tail(fromServer), toServer)
  <2>1. \A y \in Holds(Tail(fromServer)) \cup Holds(toServer) :
          y.id \in Holds(back) /\ cseq[y.id] = y.cseq
    BY <1>8, <1>11 DEF Wire
  <2>2. rep.id \in Holds(back) /\ cseq[rep.id] = rep.cseq
    BY <1>4, <1>8
  <2> QED
    BY <1>1, <2>1, <2>2 DEF Wire
<1>13. Queued(back, <<>>, cseq)
  BY <1>8, EmptyAscends, EmptyHolds DEF Queued
<1>14. InWireOrder'
  BY <1>2, <1>9, <1>10, <1>12, <1>13 DEF Orders, InWireOrder
<1>15. Covered'
  BY <1>2, <1>5, <1>8, <1>9 DEF Orders, Covered, Hit
<1>16. Truthful'
  BY <1>1, <1>2, <1>9, <1>10 DEF Orders, Truthful
<1> QED
  BY <1>14, <1>15, <1>16 DEF Orders

\* The server answers the oldest request, or skips it.
LEMMA ServerOrders == ASSUME IInv, ~Confusing, Orders, Serve \/ ServerSkips PROVE Orders'
<1> DEFINE req == Head(toServer)
           g == [x \in Messages |-> x.cseq]
<1>1. /\ toServer # <<>> /\ toServer \in Seq(Messages) /\ toServer' = Tail(toServer)
      /\ fromServer \in Seq(Replies)
      /\ UNCHANGED <<fCSeq, issued, cseq, awaitingConnection, awaitingResponse, tmp, loop,
                     partial, succeeded, deleted>>
  BY DEF Serve, ServerSkips, queues, history, IInv, TypeOK, Messages
<1>2. Ascends(toServer, g)
  BY <1>1, RisingIsAscending DEF Orders, InWireOrder, Wire
<1> HIDE DEF g
<1>3. /\ req \in Messages /\ toServer' \in Seq(Messages) /\ Ascends(toServer', g)
      /\ Holds(toServer) = {req} \cup Holds(toServer')
      /\ \A x \in Holds(toServer') : g[req] < g[x]
  BY <1>1, <1>2, TailAscends
<1> HIDE DEF req
<1>4. Rising(toServer') /\ \A x \in Holds(toServer') : req.cseq < x.cseq
  <2>1. Holds(toServer') \subseteq Messages
    BY <1>3, HoldsType
  <2> QED
    BY <1>3, <2>1, RisingIsAscending DEF g
<1>5. Parts' = Parts /\ Waiting' = Waiting
  BY <1>1 DEF Parts, Waiting
<1>6. Covered'
  BY <1>1 DEF Orders, Covered
<1>7. Wire(awaitingResponse, cseq, Parts, fromServer, toServer)
  BY DEF Orders, InWireOrder
<1>8. CASE fromServer' = fromServer /\ accepted' = accepted
  <2>1. Wire(awaitingResponse, cseq, Parts, fromServer, toServer')
    BY <1>3, <1>4, <1>7 DEF Wire
  <2> QED
    BY <1>1, <1>5, <1>6, <1>8, <2>1 DEF Orders, InWireOrder, Truthful
<1>9. CASE Serve
  <2>1. PICK code \in world.codes, split \in BOOLEAN, close \in world.closes,
             withCSeq \in {TRUE} \cup (IF "nocseq" \in world.faults THEN {FALSE} ELSE {}),
             copies \in {1} \cup (IF "duplicate" \in world.faults THEN {2} ELSE {}) :
          LET rep == Reply(Head(toServer), code, split, close, withCSeq)
          IN /\ code \in {"auth", "moved"} => fCSeq < world.maxCSeq
             /\ split => ~close
             /\ fromServer' = fromServer \o [i \in 1..copies |-> rep]
             /\ accepted' = IF code = "ok" THEN accepted \cup {rep.id} ELSE accepted
    BY <1>9, Zenon DEF Serve
  <2> DEFINE rep == Reply(Head(toServer), code, split, close, withCSeq)
             h == [x \in Replies |-> x.cseq]
  <2>2. withCSeq = TRUE /\ copies = 1
    BY DEF Confusing
  <2>3. rep \in Replies /\ rep.id = req.id /\ rep.cseq = req.cseq /\ rep.code = code
    <3>1. world.closes \subseteq BOOLEAN
      BY WorldsAssumption DEF IInv, TypeOK
    <3> QED
      BY <1>3, <2>2, <3>1 DEF Messages, Reply, Replies, req
  <2>4. /\ fromServer' = fromServer \o [i \in 1..1 |-> rep]
        /\ accepted' = IF code = "ok" THEN accepted \cup {rep.id} ELSE accepted
    BY <2>1, <2>2
  <2> HIDE DEF rep
  <2>5. fromServer' = Append(fromServer, rep)
    <3>1. [i \in 1..1 |-> rep] = <<rep>>
      OBVIOUS
    <3> QED
      BY <1>1, <2>3, <2>4, <3>1, AppendIsConcat
  <2>6. Ascends(fromServer, h) /\ \A x \in Holds(fromServer) : h[x] < h[rep]
    <3>1. Ascends(fromServer, h)
      BY <1>1, <1>7, RisingIsAscending DEF Wire
    <3>2. Holds(fromServer) \subseteq Replies
      BY <1>1, HoldsType
    <3>3. \A x \in Holds(fromServer) : x.cseq < rep.cseq
      BY <1>3, <1>7, <2>3 DEF Wire
    <3> QED
      BY <2>3, <3>1, <3>2, <3>3
  <2> HIDE DEF h
  <2>7. Ascends(fromServer', h) /\ Holds(fromServer') = Holds(fromServer) \cup {rep}
    BY <1>1, <2>3, <2>5, <2>6, AppendAscends
  <2>8. Rising(fromServer')
    <3>1. fromServer' \in Seq(Replies)
      BY <1>1, <2>3, <2>5, AppendProperties
    <3> QED
      BY <2>7, <3>1, RisingIsAscending DEF h
  <2>9. Wire(awaitingResponse, cseq, Parts, fromServer', toServer')
    <3>1. /\ rep.id \in Holds(awaitingResponse) /\ cseq[rep.id] = rep.cseq
          /\ \A x \in Holds(toServer') : rep.cseq < x.cseq
          /\ \A x \in Parts : x.cseq < rep.cseq
      BY <1>3, <1>4, <1>7, <2>3 DEF Wire
    <3>2. \A x \in Parts \cup Holds(fromServer') \cup Holds(toServer') :
            x.id \in Holds(awaitingResponse) /\ cseq[x.id] = x.cseq
      BY <1>3, <1>7, <2>7, <3>1 DEF Wire
    <3>3. \A x \in Holds(fromServer'), y \in Holds(toServer') : x.cseq < y.cseq
      BY <1>3, <1>7, <2>7, <3>1 DEF Wire
    <3>4. \A x \in Parts, y \in Holds(fromServer') \cup Holds(toServer') : x.cseq < y.cseq
      BY <1>3, <1>7, <2>7, <3>1 DEF Wire
    <3> QED
      BY <1>4, <2>8, <3>2, <3>3, <3>4 DEF Wire
  <2>10. Truthful'
    BY <1>1, <1>5, <2>3, <2>4, <2>7 DEF Orders, Truthful
  <2> QED
    BY <1>1, <1>5, <1>6, <2>9, <2>10 DEF Orders, InWireOrder
<1> QED
  BY <1>8, <1>9 DEF ServerSkips, history

-----------------------------------------------------------------------------
(***************************************************************************)
(* What becomes of requests in a step.                                     *)
(***************************************************************************)

\* Requests that were not settled before end: the handlers of `rs' are called, and of
\* these some with success, and the records in `others' are deleted without a word.
Settle ==
  /\ issued' = issued /\ accepted' = accepted
  /\ \E rs, others \in SUBSET ((1..issued) \ deleted) :
       /\ Conclude(rs, others)
       /\ succeeded \subseteq succeeded' /\ succeeded' \subseteq succeeded \cup rs
       /\ Confusing \/ succeeded' \ succeeded \subseteq accepted
       /\ Patient => others = {}

\* A step that calls no handler and deletes no record.
LEMMA NothingSettles ==
  ASSUME IInv, UNCHANGED <<issued, calls, succeeded, deleted, accepted>>
  PROVE  Settle
<1>1. calls \in [Ids -> Nat]
  BY DEF IInv, TypeOK
<1>2. Conclude({}, {})
  BY <1>1 DEF Conclude
<1> QED
  BY <1>2 DEF Settle

\* sendRequest() calls at most the handler of its own request.
LEMMA SendConcludes ==
  ASSUME NEW r, NEW c, NEW st, NEW gone, SendRequest(r, c, st, gone)
  PROVE  Conclude({}, gone) \/ Conclude({r}, gone)
BY DEF SendRequest

LEMMA ResendOneSettles == ASSUME IInv, ResendOne PROVE Settle
<1>1. tmp # <<>> /\ tmp \in Seq(Ids) /\ Distinct(tmp)
  BY DEF IInv, TypeOK, Owned, ResendOne
<1>2. Head(tmp) \in (1..issued) \ deleted
  BY <1>1, TailDistinct, HeldUnanswered
<1>3. /\ SendRequest(Head(tmp), cseq[Head(tmp)], Current, {})
      /\ UNCHANGED <<issued, succeeded, accepted>>
  BY DEF ResendOne
<1>4. Conclude({}, {}) \/ Conclude({Head(tmp)}, {})
  BY <1>3, SendConcludes
<1> QED
  BY <1>2, <1>3, <1>4 DEF Settle

LEMMA FailOneSettles == ASSUME IInv, FailOne PROVE Settle
<1>1. tmp # <<>> /\ tmp \in Seq(Ids) /\ Distinct(tmp)
  BY DEF IInv, TypeOK, Owned, FailOne
<1>2. Head(tmp) \in (1..issued) \ deleted
  BY <1>1, TailDistinct, HeldUnanswered
<1>3. Conclude({Head(tmp)}, {}) /\ UNCHANGED <<issued, succeeded, accepted>>
  BY DEF FailOne
<1> QED
  BY <1>2, <1>3 DEF Settle

\* An answer to a patient caller overtakes no request.
LEMMA PatientSkipsNone ==
  ASSUME IInv, OneAtATime, NEW x \in Holds(awaitingResponse), NEW m, Hit(m, x)
  PROVE  m.skipped = {}
<1> SUFFICES ASSUME NEW y \in m.skipped PROVE FALSE
  OBVIOUS
<1>1. y \in Holds(awaitingResponse) /\ cseq[y] < cseq[x]
  BY DEF Hit
<1>2. x = y
  BY <1>1, HeldUnanswered DEF OneAtATime
<1>3. cseq[x] \in Nat
  BY HeldUnanswered DEF IInv, TypeOK
<1> QED
  BY <1>1, <1>2, <1>3

\* A response to a waiting request finds it.
LEMMA WireHits ==
  ASSUME IInv, Ascends(awaitingResponse, cseq), Numbered(cseq, issued, fCSeq), NEW rep,
         rep.id \in Holds(awaitingResponse), cseq[rep.id] = rep.cseq
  PROVE  Hit(Match(rep.cseq), rep.id)
<1>1. cseq[rep.id] \in 1..fCSeq /\ fCSeq \in Nat
  BY NumbersKnown
<1>2. awaitingResponse \in Seq(Ids) /\ cseq \in [Ids -> Nat]
  BY DEF IInv, TypeOK
<1>3. rep.cseq \in Nat \ {0}
  BY <1>1
<1> QED
  BY <1>2, <1>3, MatchHits

\* A response settles its request, and maybe ones that were skipped.
LEMMA ReceiveSettles ==
  ASSUME IInv, OInv, socket = "open", loop = "none",
         NEW rep \in Replies, NEW rest \in Seq(Replies),
         ~Confusing => /\ Wire(awaitingResponse, cseq, {rep}, rest, toServer)
                       /\ rep.code = "ok" => rep.id \in accepted,
         HandleResponse(rep, rest), UNCHANGED <<issued, accepted>>
  PROVE  Settle
<1> DEFINE m == Match(rep.cseq)
           st == IF rep.close THEN Fresh(m.queue)
                 ELSE [Current EXCEPT !.queue = m.queue, !.in = rest]
<1>1. rep.cseq \in Nat
  BY DEF Replies
<1>2. MatchApart(m)
  BY <1>1, MatchTakesApart DEF IInv, TypeOK, Owned
<1>3. Unclaimed(m, st) \/ Complete(m, st, rep.code) \/ Resend(m, st, rep.code)
  BY DEF HandleResponse
<1>4. ASSUME Patient PROVE m.skipped = {}
  <2>1. ~Confusing
    BY <1>4 DEF Patient, Confusing
  <2>2. Hit(m, rep.id) /\ rep.id \in Holds(awaitingResponse)
    BY <2>1, WireHits DEF OInv, Orders, InWireOrder, Wire, Queued
  <2> HIDE DEF m
  <2> QED
    BY <1>4, <2>2, PatientSkipsNone DEF OInv
<1>5. Confusing \/ succeeded' \ succeeded \subseteq accepted
  <2>1. CASE Confusing
    BY <2>1
  <2>2. CASE ~Confusing
    <3>1. Queued(awaitingResponse, awaitingConnection, cseq)
      BY <2>2 DEF OInv, Orders, InWireOrder, Waiting
    <3>2. succeeded' \subseteq accepted
      BY <2>2, <3>1, HandleKeepsOrder DEF OInv, Orders, InWireOrder, Truthful
    <3> QED
      BY <3>2
  <2> QED
    BY <2>1, <2>2
<1> HIDE DEF m, st
<1>6. /\ m.skipped \in SUBSET ((1..issued) \ deleted)
      /\ m.found # 0 => {m.found} \in SUBSET ((1..issued) \ deleted)
  BY <1>2, HeldUnanswered DEF MatchApart
<1>7. CASE Unclaimed(m, st)
  <2>1. Conclude({}, m.skipped) /\ succeeded' = succeeded
    BY <1>7 DEF Unclaimed
  <2> QED
    BY <1>4, <1>6, <2>1 DEF Settle
<1>8. CASE Complete(m, st, rep.code)
  <2>1. /\ m.found # 0 /\ Conclude({m.found}, m.skipped)
        /\ succeeded \subseteq succeeded' /\ succeeded' \subseteq succeeded \cup {m.found}
    BY <1>8 DEF Complete
  <2> QED
    BY <1>4, <1>5, <1>6, <2>1 DEF Settle
<1>9. CASE Resend(m, st, rep.code)
  <2>1. m.found # 0 /\ succeeded' = succeeded
    BY <1>9 DEF Resend
  <2>2. Conclude({}, m.skipped) \/ Conclude({m.found}, m.skipped)
    BY <1>9, SendConcludes DEF Resend
  <2> QED
    BY <1>4, <1>6, <2>1, <2>2 DEF Settle
<1> QED
  BY <1>3, <1>7, <1>8, <1>9

LEMMA ReceiveWholeSettles == ASSUME IInv, OInv, ReceiveWhole PROVE Settle
<1>1. Head(fromServer) \in Replies /\ Tail(fromServer) \in Seq(Replies)
  BY HeadTailProperties DEF ReceiveWhole, IInv, TypeOK
<1>2. ~Confusing => /\ Wire(awaitingResponse, cseq, {Head(fromServer)}, Tail(fromServer), toServer)
                    /\ Head(fromServer).code = "ok" => Head(fromServer).id \in accepted
  BY OldestResponse DEF ReceiveWhole, OInv
<1> QED
  BY <1>1, <1>2, ReceiveSettles DEF ReceiveWhole

LEMMA ReceiveRestSettles == ASSUME IInv, OInv, ReceiveRest PROVE Settle
<1>1. partial \in Replies /\ fromServer \in Seq(Replies) /\ Parts = {partial}
  BY DEF IInv, TypeOK, ReceiveRest, Parts
<1>2. ~Confusing => /\ Wire(awaitingResponse, cseq, {partial}, fromServer, toServer)
                    /\ partial.code = "ok" => partial.id \in accepted
  BY <1>1 DEF OInv, Orders, InWireOrder, Truthful
<1> QED
  BY <1>1, <1>2, ReceiveSettles DEF ReceiveRest

LEMMA ReceivePartSettles == ASSUME IInv, OInv, ReceivePart PROVE Settle
<1> DEFINE rep == Head(fromServer)
           m == Match(rep.cseq)
<1>1. rep \in Replies /\ rep.cseq \in Nat
  <2>1. fromServer # <<>> /\ fromServer \in Seq(Replies)
    BY DEF ReceivePart, IInv, TypeOK
  <2>2. rep \in Replies
    BY <2>1, HeadTailProperties
  <2> QED
    BY <2>2 DEF Replies
<1>2. MatchApart(m)
  BY <1>1, MatchTakesApart DEF IInv, TypeOK, Owned
<1>3. ASSUME Patient PROVE m.skipped = {}
  <2>1. ~Confusing
    BY <1>3 DEF Patient, Confusing
  <2>2. Wire(awaitingResponse, cseq, {rep}, Tail(fromServer), toServer)
    BY <2>1, OldestResponse DEF ReceivePart, OInv
  <2>3. Hit(m, rep.id) /\ rep.id \in Holds(awaitingResponse)
    BY <2>1, <2>2, WireHits DEF OInv, Orders, InWireOrder, Wire, Queued
  <2> HIDE DEF m
  <2> QED
    BY <1>3, <2>3, PatientSkipsNone DEF OInv
<1>4. Conclude({}, m.skipped) /\ UNCHANGED <<issued, succeeded, accepted>>
  BY DEF ReceivePart
<1> HIDE DEF m
<1>5. m.skipped \in SUBSET ((1..issued) \ deleted)
  BY <1>2, HeldUnanswered DEF MatchApart
<1> QED
  BY <1>3, <1>4, <1>5 DEF Settle

\* Every callback of the event loop.
LEMMA CallbackSettles == ASSUME IInv, OInv, Callback \/ ConnectionBreaks PROVE Settle
<1>1. CASE ConnectionOpens \/ ConnectionFails \/ ConnectionBreaks
  <2>1. UNCHANGED <<issued, calls, succeeded, deleted, accepted>>
    BY <1>1 DEF ConnectionOpens, ConnectionFails, ConnectionBreaks, history
  <2> QED
    BY <2>1, NothingSettles
<1> QED
  BY <1>1, ResendOneSettles, FailOneSettles, ReceiveWholeSettles, ReceivePartSettles,
     ReceiveRestSettles DEF Callback

\* What is settled stays settled.
LEMMA SettleKeeps ==
  ASSUME IInv, Settle
  PROVE  /\ Patient /\ OneAtATime => OneAtATime'
         /\ (\A r \in succeeded : calls[r] > 0) => (\A r \in succeeded' : calls'[r] > 0)
<1>1. PICK rs, others \in SUBSET ((1..issued) \ deleted) :
        /\ Conclude(rs, others)
        /\ succeeded \subseteq succeeded' /\ succeeded' \subseteq succeeded \cup rs
        /\ Confusing \/ succeeded' \ succeeded \subseteq accepted
        /\ Patient => others = {}
  BY DEF Settle
<1>2. 1..issued \subseteq Ids /\ calls \in [Ids -> Nat] /\ deleted \subseteq Ids /\ succeeded \subseteq Ids
  BY WorldsAssumption DEF IInv, TypeOK, Ids
<1>3. /\ \A r \in Ids : calls[r] \in Nat /\ calls'[r] = IF r \in rs THEN calls[r] + 1 ELSE calls[r]
      /\ deleted' = deleted \cup rs \cup others /\ issued' = issued
  BY <1>1, <1>2 DEF Conclude, Settle
<1>6. \A r \in Ids : (calls[r] > 0 \/ r \in rs => calls'[r] > 0)
  BY <1>3
<1>4. ASSUME Patient, OneAtATime PROVE OneAtATime'
  <2>1. \A r \in Ids : calls'[r] = 0 => calls[r] = 0
    BY <1>3
  <2>2. \A r \in deleted' : calls'[r] > 0
    <3> SUFFICES ASSUME NEW r \in deleted' PROVE calls'[r] > 0
      OBVIOUS
    <3>1. r \in deleted \/ r \in rs
      BY <1>1, <1>3, <1>4
    <3>2. r \in Ids
      BY <1>2, <3>1
    <3> QED
      BY <1>4, <1>6, <3>1, <3>2 DEF OneAtATime
  <2> QED
    BY <1>2, <1>3, <1>4, <2>1, <2>2 DEF OneAtATime
<1>5. ASSUME \A r \in succeeded : calls[r] > 0 PROVE \A r \in succeeded' : calls'[r] > 0
  <2> SUFFICES ASSUME NEW r \in succeeded' PROVE calls'[r] > 0
    OBVIOUS
  <2>1. r \in succeeded \/ r \in rs
    BY <1>1
  <2>2. r \in Ids
    BY <1>2, <2>1
  <2> QED
    BY <1>5, <1>6, <2>1, <2>2
<1> QED
  BY <1>4, <1>5

-----------------------------------------------------------------------------
(***************************************************************************)
(* The order invariant.                                                    *)
(***************************************************************************)
LEMMA InitOInv == Init => OInv
<1> SUFFICES ASSUME Init PROVE OInv
  OBVIOUS
<1>1. /\ awaitingResponse = <<>> /\ awaitingConnection = <<>> /\ tmp = <<>> /\ loop = "none"
      /\ fromServer = <<>> /\ toServer = <<>> /\ partial = NoReply
      /\ issued = 0 /\ deleted = {} /\ succeeded = {}
  BY DEF Init
<1>2. Parts = {} /\ Waiting = <<>> /\ 1..issued = {}
  BY <1>1 DEF Parts, Waiting
<1>3. Queued(<<>>, <<>>, cseq)
  BY EmptyAscends, EmptyHolds DEF Queued
<1>4. InWireOrder
  BY <1>1, <1>2, <1>3, EmptyWire DEF InWireOrder, Numbered
<1> QED
  BY <1>1, <1>2, <1>4, EmptyHolds DEF OInv, Orders, Covered, Truthful, OneAtATime, Steady

\* A request is submitted: only it may be without an answer, if the caller is patient.
LEMMA SubmitKeeps ==
  ASSUME IInv, OInv, Submit
  PROVE  /\ Patient => OneAtATime'
         /\ Steady'
         /\ \E rs \in SUBSET {issued + 1} : Conclude(rs, {})
<1> DEFINE n == issued + 1
<1>1. /\ issued' = n /\ SendRequest(n, fCSeq + 1, Current, {})
      /\ UNCHANGED <<loop, succeeded, accepted>>
      /\ Cardinality({r \in 1..issued : calls[r] = 0}) < world.pipeline
  BY DEF Submit
<1>2. PICK rs \in SUBSET {n} : Conclude(rs, {})
  BY <1>1, SendConcludes
<1>3. /\ issued \in Nat /\ n \in Ids /\ calls \in [Ids -> Nat] /\ succeeded \subseteq Ids
      /\ 1..issued \subseteq Ids /\ 1..n = 1..issued \cup {n}
  <2>1. issued \in Nat /\ world.requests \in Nat /\ issued < world.requests
    <3>1. world \in Worlds /\ issued \in 0..world.requests
      BY DEF IInv, TypeOK
    <3>2. world.requests \in Nat
      BY <3>1, WorldsAssumption
    <3>3. issued < world.requests
      BY DEF Submit
    <3> QED
      BY <3>1, <3>2, <3>3
  <2>2. n \in Ids /\ 1..issued \subseteq Ids /\ 1..n = 1..issued \cup {n}
    BY <2>1 DEF Ids
  <2>3. calls \in [Ids -> Nat] /\ succeeded \subseteq Ids
    BY DEF IInv, TypeOK
  <2> QED
    BY <2>1, <2>2, <2>3
<1> HIDE DEF n
<1>4. /\ \A r \in Ids : calls[r] \in Nat /\ calls'[r] = IF r \in rs THEN calls[r] + 1 ELSE calls[r]
      /\ deleted' = deleted \cup rs
  BY <1>2, <1>3 DEF Conclude
<1>5. ASSUME Patient PROVE OneAtATime'
  <2>1. \A r \in 1..issued : calls[r] # 0
    <3>1. world.pipeline = 1
      BY <1>5 DEF Patient
    <3>2. {r \in 1..issued : calls[r] = 0} = {}
      BY <1>1, <3>1, UnansweredFinite
    <3> QED
      BY <3>2
  <2>2. \A r \in 1..issued : calls'[r] # 0
    BY <1>3, <1>4, <2>1
  <2>3. \A r \in deleted' : calls'[r] > 0
    <3> SUFFICES ASSUME NEW r \in deleted' PROVE calls'[r] > 0
      OBVIOUS
    <3>1. CASE r \in rs
      BY <1>2, <1>3, <1>4, <3>1
    <3>2. CASE r \in deleted
      <4>1. r \in Ids /\ calls[r] > 0
        BY <1>5, <3>2 DEF OInv, OneAtATime, IInv, TypeOK
      <4> QED
        BY <1>4, <4>1
    <3> QED
      BY <1>4, <3>1, <3>2
  <2> QED
    BY <1>1, <1>3, <2>2, <2>3 DEF OneAtATime
<1>6. Steady'
  <2>1. ASSUME loop' = "resend" PROVE socket' = "open"
    <3>1. loop = "resend" /\ socket = "open" /\ awaitingConnection = <<>>
      BY <1>1, <2>1 DEF OInv, Steady, IInv
    <3>2. Current \in Connections /\ Current.socket = "open"
      BY <3>1, CurrentConnection DEF IInv
    <3>3. Current.socket # "closed" /\ ~(awaitingConnection # <<>>)
      BY <3>1, <3>2
    <3>4. socket' = "open" \/ socket' \in {Current.socket, "open"}
      BY <1>1, <3>2, <3>3, SendOutcomes
    <3> QED
      BY <3>2, <3>4
  <2>2. \A r \in succeeded : calls'[r] > 0
    <3> SUFFICES ASSUME NEW r \in succeeded PROVE calls'[r] > 0
      OBVIOUS
    <3>1. r \in Ids /\ calls[r] > 0
      BY <1>3 DEF OInv, Steady
    <3> QED
      BY <1>4, <3>1
  <2> QED
    BY <1>1, <2>1, <2>2 DEF Steady
<1> QED
  BY <1>2, <1>5, <1>6 DEF n

\* A connection stays open while requests are resent on it.
LEMMA ResendsWhenOpen ==
  ASSUME IInv, Steady, Callback \/ ConnectionBreaks, loop' = "resend"
  PROVE  socket' = "open"
<1>1. CASE ConnectionOpens
  BY <1>1 DEF ConnectionOpens
<1>2. CASE ResendOne
  <2>1. /\ loop = "resend" /\ socket = "open" /\ awaitingConnection = <<>>
        /\ SendRequest(Head(tmp), cseq[Head(tmp)], Current, {})
    BY <1>2 DEF ResendOne, Steady, IInv
  <2>2. Current \in Connections /\ Current.socket = "open"
    BY <2>1, CurrentConnection DEF IInv
  <2>3. Current.socket # "closed" /\ ~(awaitingConnection # <<>>)
    BY <2>1, <2>2
  <2>4. socket' = "open" \/ socket' \in {Current.socket, "open"}
    BY <2>1, <2>2, <2>3, SendOutcomes
  <2> QED
    BY <2>2, <2>4
<1>3. CASE ConnectionFails \/ FailOne \/ ConnectionBreaks
  BY <1>3 DEF ConnectionFails, FailOne, Advance, ConnectionBreaks
<1>4. CASE ReceiveWhole \/ ReceivePart \/ ReceiveRest
  BY <1>4 DEF ReceiveWhole, ReceivePart, ReceiveRest
<1> QED
  BY <1>1, <1>2, <1>3, <1>4 DEF Callback

\* The invariant is kept by every step.
LEMMA NextOInv == IInv /\ OInv /\ [Next]_vars => OInv'
<1> SUFFICES ASSUME IInv, OInv, [Next]_vars PROVE OInv'
  OBVIOUS
<1>1. CASE UNCHANGED vars
  <2>1. /\ UNCHANGED <<world, socket, fCSeq, issued, cseq, awaitingConnection, awaitingResponse, tmp,
                       loop, inHandler, partial, toServer, fromServer, calls, succeeded, deleted, accepted>>
    BY <1>1 DEF vars, machine, queues, wire, history
  <2>2. Confusing' = Confusing /\ Patient' = Patient /\ Parts' = Parts /\ Waiting' = Waiting
    BY <2>1 DEF Confusing, Patient, Parts, Waiting
  <2>3. Orders => Orders'
    BY <2>1, <2>2 DEF Orders, InWireOrder, Covered, Truthful
  <2>4. (OneAtATime => OneAtATime') /\ (Steady => Steady')
    BY <2>1 DEF OneAtATime, Steady
  <2> QED
    BY <2>2, <2>3, <2>4 DEF OInv
<1>2. CASE Next
  <2>1. Confusing' = Confusing /\ Patient' = Patient
    BY <1>2 DEF Next, Confusing, Patient
  <2>2. ASSUME ~Confusing PROVE Orders'
    <3>1. Orders /\ Steady
      BY <2>2 DEF OInv
    <3>2. CASE Submit
      BY <2>2, <3>1, <3>2, SubmitOrders
    <3>3. CASE ConnectionOpens \/ ConnectionFails
      BY <3>1, <3>3, ConnectedOrders
    <3>4. CASE ResendOne
      BY <3>1, <3>4, ResendOneOrders
    <3>5. CASE FailOne
      BY <3>1, <3>5, FailOneOrders
    <3>6. CASE ReceiveWhole
      BY <3>1, <3>6, ReceiveWholeOrders
    <3>7. CASE ReceivePart
      BY <3>1, <3>7, ReceivePartOrders
    <3>8. CASE ReceiveRest
      BY <3>1, <3>8, ReceiveRestOrders
    <3>9. CASE ConnectionBreaks
      BY <3>1, <3>9, BreaksOrders
    <3>10. CASE Serve \/ ServerSkips
      BY <2>2, <3>1, <3>10, ServerOrders
    <3> QED
      BY <1>2, <3>2, <3>3, <3>4, <3>5, <3>6, <3>7, <3>8, <3>9, <3>10 DEF Next, Callback
  <2>3. (Patient => OneAtATime') /\ Steady'
    <3>1. CASE Submit
      BY <3>1, SubmitKeeps
    <3>2. CASE Callback \/ ConnectionBreaks
      BY <3>2, CallbackSettles, SettleKeeps, ResendsWhenOpen DEF OInv, Steady
    <3>3. CASE Serve \/ ServerSkips
      <4>1. UNCHANGED <<issued, calls, succeeded, deleted, loop, socket>>
        BY <3>3 DEF Serve, ServerSkips, history
      <4> QED
        BY <4>1 DEF OInv, OneAtATime, Steady
    <3> QED
      BY <1>2, <3>1, <3>2, <3>3 DEF Next
  <2> QED
    BY <2>1, <2>2, <2>3 DEF OInv
<1> QED
  BY <1>1, <1>2

\* What the orders say of the records and of the requests under way.
LEMMA OrdersLoseNothing == IInv /\ OInv => NothingLost
<1> SUFFICES ASSUME IInv, OInv, ~Confusing PROVE NothingLost
  BY DEF NothingLost
<1>1. Orders
  BY DEF OInv
<1>2. ASSUME NEW r \in 1..issued PROVE Places(r) = 1
  <2>1. /\ Cardinality({i \in DOMAIN awaitingConnection : awaitingConnection[i] = r})
             = IF r \in Holds(awaitingConnection) THEN 1 ELSE 0
        /\ Cardinality({i \in DOMAIN awaitingResponse : awaitingResponse[i] = r})
             = IF r \in Holds(awaitingResponse) THEN 1 ELSE 0
        /\ Cardinality({i \in DOMAIN tmp : tmp[i] = r}) = IF r \in Holds(tmp) THEN 1 ELSE 0
    BY OnePlace DEF IInv, Owned
  <2>2. r \in Holds(awaitingConnection) \cup Holds(awaitingResponse) \cup Holds(tmp) \cup deleted
    BY <1>1 DEF Orders, Covered
  <2> QED
    BY <2>1, <2>2 DEF Places, IInv, Owned
<1>3. /\ awaitingResponse \in Seq(Ids) /\ toServer \in Seq(Messages) /\ cseq \in [Ids -> Nat]
      /\ DOMAIN awaitingResponse \subseteq Nat /\ DOMAIN toServer \subseteq Nat
  <2>1. awaitingResponse \in Seq(Ids) /\ toServer \in Seq(Messages) /\ cseq \in [Ids -> Nat]
    BY DEF IInv, TypeOK, Messages
  <2>2. /\ DOMAIN awaitingResponse = 1..Len(awaitingResponse)
        /\ DOMAIN toServer = 1..Len(toServer)
    BY <2>1, LenProperties
  <2> QED
    BY <2>1, <2>2
<1>4. ASSUME NEW i \in DOMAIN toServer
      PROVE  /\ toServer[i].id \in Ids /\ cseq[toServer[i].id] = toServer[i].cseq
             /\ \E k \in DOMAIN awaitingResponse : awaitingResponse[k] = toServer[i].id
  <2>1. toServer[i] \in Holds(toServer)
    BY DEF Holds
  <2>2. toServer[i].id \in Holds(awaitingResponse) /\ cseq[toServer[i].id] = toServer[i].cseq
    BY <1>1, <2>1 DEF Orders, InWireOrder, Wire
  <2> QED
    BY <2>2, HeldUnanswered DEF Holds
<1>5. ASSUME NEW i \in DOMAIN toServer, NEW j \in DOMAIN toServer,
             NEW k \in DOMAIN awaitingResponse, NEW l \in DOMAIN awaitingResponse,
             awaitingResponse[k] = toServer[i].id, awaitingResponse[l] = toServer[j].id,
             i < j
      PROVE  k < l
  <2>1. cseq[awaitingResponse[k]] < cseq[awaitingResponse[l]]
    BY <1>1, <1>4, <1>5 DEF Orders, InWireOrder, Wire, Rising
  <2>2. cseq[awaitingResponse[k]] \in Nat /\ cseq[awaitingResponse[l]] \in Nat
    BY <1>3, <1>4, <1>5
  <2>3. ~(l < k) /\ l # k
    BY <1>1, <2>1, <2>2 DEF Orders, InWireOrder, Queued, Ascends
  <2> QED
    BY <1>3, <2>3
<1>6. ASSUME NEW i \in DOMAIN toServer, NEW j \in DOMAIN toServer
      PROVE  \E k, l \in DOMAIN awaitingResponse :
               /\ awaitingResponse[k] = toServer[i].id /\ awaitingResponse[l] = toServer[j].id
               /\ cseq[toServer[i].id] = toServer[i].cseq
               /\ i < j <=> k < l
  <2>1. PICK k \in DOMAIN awaitingResponse : awaitingResponse[k] = toServer[i].id
    BY <1>4
  <2>2. PICK l \in DOMAIN awaitingResponse : awaitingResponse[l] = toServer[j].id
    BY <1>4
  <2>3. i = j => k = l
    BY <2>1, <2>2 DEF IInv, Owned, Distinct
  <2>4. (i < j => k < l) /\ (j < i => l < k)
    BY <1>5, <2>1, <2>2
  <2>5. i < j <=> k < l
    BY <1>3, <2>3, <2>4
  <2> QED
    BY <1>4, <2>1, <2>2, <2>5
<1> QED
  BY <1>2, <1>6 DEF NothingLost

\* The orders hold for all callers and servers that are not confusing.
THEOREM OrderInvariant == Spec => []OInv
BY Invariant, InitOInv, NextOInv, PTL DEF Spec

\* As long as nobody is confusing, every response to a request under way finds its
\* record in the response queue, and no record is dropped (handleResponseBytes(),
\* sendRequest(), resendCommand(), connectionHandler1()).
THEOREM NothingIsLost == Spec => []NothingLost
BY Invariant, OrderInvariant, OrdersLoseNothing, PTL

-----------------------------------------------------------------------------
(***************************************************************************)
(* The request service.                                                    *)
(***************************************************************************)
LEMMA InitServes == Init => Service!Init
<1> SUFFICES ASSUME Init PROVE Service!Init
  OBVIOUS
<1>1. issued = 0 /\ accepted = {} /\ \A r \in Ids : r > issued
  BY DEF Init, Ids
<1>2. Status = [r \in Ids |-> "idle"]
  BY <1>1 DEF Status
<1>3. (~Patient) \in BOOLEAN /\ Confusing \in BOOLEAN
  BY DEF Patient, Confusing
<1> QED
  BY <1>1, <1>2, <1>3 DEF Service!Init, Service!Ids

\* Requests that are settled are resolved.
LEMMA SettleResolves ==
  ASSUME IInv, Steady, UNCHANGED world, Settle
  PROVE  Service!Resolve
<1>1. PICK rs, others \in SUBSET ((1..issued) \ deleted) :
        /\ Conclude(rs, others)
        /\ succeeded \subseteq succeeded' /\ succeeded' \subseteq succeeded \cup rs
        /\ Confusing \/ succeeded' \ succeeded \subseteq accepted
        /\ Patient => others = {}
  BY DEF Settle
<1>2. 1..issued \subseteq Ids /\ calls \in [Ids -> Nat] /\ issued \in Nat /\ Ids \subseteq Nat
  BY WorldsAssumption DEF IInv, TypeOK, Ids
<1>3. /\ \A r \in Ids : calls[r] \in Nat /\ calls'[r] = IF r \in rs THEN calls[r] + 1 ELSE calls[r]
      /\ deleted' = deleted \cup rs \cup others /\ issued' = issued /\ accepted' = accepted
  BY <1>1, <1>2 DEF Conclude, Settle
<1>4. Ids' = Ids /\ DOMAIN Status = Ids
  BY DEF Ids, Status
<1>5. ASSUME NEW r \in Ids
      PROVE  /\ Status[r] = IF r > issued THEN "idle"
                            ELSE IF r \in succeeded THEN "ok"
                            ELSE IF calls[r] > 0 THEN "error"
                            ELSE IF r \in deleted THEN "forgotten" ELSE "pending"
             /\ Status'[r] = IF r > issued THEN "idle"
                             ELSE IF r \in succeeded' THEN "ok"
                             ELSE IF calls'[r] > 0 THEN "error"
                             ELSE IF r \in deleted' THEN "forgotten" ELSE "pending"
  BY <1>3, <1>4 DEF Status
<1>6. Status' \in [Ids -> {"idle", "pending", "ok", "error", "forgotten"}]
  BY <1>4 DEF Status
<1>7. ASSUME NEW r \in Ids, Status'[r] # Status[r]
      PROVE  Status[r] = "pending" /\ Status'[r] \in Service!Ends(r)
  <2>1. r \in rs \/ r \in others
    BY <1>1, <1>3, <1>5, <1>7
  <2>2. r \in 1..issued /\ r \notin deleted /\ ~(r > issued)
    BY <1>1, <1>2, <2>1
  <2>3. calls[r] = 0 /\ r \notin succeeded
    <3>1. calls[r] \in Nat /\ calls[r] <= 0
      BY <1>3, <2>2 DEF IInv, Once
    <3> QED
      BY <3>1 DEF Steady
  <2>4. Status[r] = "pending"
    BY <1>5, <2>2, <2>3
  <2>5. CASE r \in rs
    <3>1. calls'[r] > 0
      BY <1>3, <2>5
    <3>2. CASE r \in succeeded'
      <4>1. Status'[r] = "ok" /\ (r \in accepted \/ Confusing)
        BY <1>1, <1>5, <2>2, <2>3, <3>2
      <4> QED
        BY <2>4, <4>1 DEF Service!Ends
    <3>3. CASE r \notin succeeded'
      <4>1. Status'[r] = "error"
        BY <1>5, <2>2, <3>1, <3>3
      <4> QED
        BY <2>4, <4>1 DEF Service!Ends
    <3> QED
      BY <3>2, <3>3
  <2>6. CASE r \notin rs
    <3>1. r \in others /\ ~Patient
      BY <1>1, <2>1, <2>6
    <3>2. Status'[r] = "forgotten"
      BY <1>1, <1>3, <1>5, <2>2, <2>3, <2>6, <3>1
    <3> QED
      BY <2>4, <3>1, <3>2 DEF Service!Ends
  <2> QED
    BY <2>5, <2>6
<1> QED
  BY <1>3, <1>4, <1>6, <1>7 DEF Service!Resolve, Service!Ids

\* A request that is submitted becomes pending, or fails at once.
LEMMA SubmitServes ==
  ASSUME IInv, OInv, UNCHANGED world, Submit
  PROVE  \E r \in Service!Ids : Service!Submit(r)
<1> DEFINE n == issued + 1
<1>1. issued' = n /\ UNCHANGED <<succeeded, accepted>>
  BY DEF Submit
<1>2. PICK rs \in SUBSET {n} : Conclude(rs, {})
  BY SubmitKeeps
<1>3. /\ issued \in Nat /\ n \in Ids /\ calls \in [Ids -> Nat] /\ n \notin 1..issued /\ Ids \subseteq Nat
      /\ \A r \in Ids : r # n => (r > n <=> r > issued)
      /\ n > issued /\ ~(n > n)
  <2>1. issued \in Nat /\ world.requests \in Nat /\ issued < world.requests
    <3>1. world \in Worlds /\ issued \in 0..world.requests
      BY DEF IInv, TypeOK
    <3>2. world.requests \in Nat
      BY <3>1, WorldsAssumption
    <3>3. issued < world.requests
      BY DEF Submit
    <3> QED
      BY <3>1, <3>2, <3>3
  <2>2. calls \in [Ids -> Nat]
    BY DEF IInv, TypeOK
  <2>3. n \in Ids /\ n \notin 1..issued /\ Ids \subseteq Nat /\ n \in Nat
    BY <2>1 DEF Ids
  <2>4. n > issued /\ ~(n > n) /\ \A r \in Nat : r # n => (r > n <=> r > issued)
    BY <2>1
  <2> HIDE DEF n
  <2> QED
    BY <2>1, <2>2, <2>3, <2>4
<1>4. n \notin deleted /\ calls[n] = 0 /\ n \notin succeeded
  <2>1. n \notin deleted
    BY <1>3 DEF IInv, Owned
  <2>2. calls[n] = 0
    BY <1>3, <2>1 DEF IInv, Once
  <2> QED
    BY <2>1, <2>2 DEF OInv, Steady
<1> HIDE DEF n
<1>5. /\ \A r \in Ids : calls[r] \in Nat /\ calls'[r] = IF r \in rs THEN calls[r] + 1 ELSE calls[r]
      /\ deleted' = deleted \cup rs
  BY <1>2, <1>3 DEF Conclude
<1>6. Ids' = Ids /\ DOMAIN Status = Ids /\ DOMAIN Status' = Ids
  BY DEF Ids, Status
<1>7. Status[n] = "idle"
  BY <1>3 DEF Status
<1>8. Status'[n] \in {"pending", "error"}
  <2>1. Status'[n] = IF n > n THEN "idle"
                     ELSE IF n \in succeeded THEN "ok"
                     ELSE IF calls'[n] > 0 THEN "error"
                     ELSE IF n \in deleted' THEN "forgotten" ELSE "pending"
    BY <1>1, <1>3, <1>6 DEF Status
  <2>2. n \in deleted' => calls'[n] > 0
    BY <1>3, <1>4, <1>5
  <2> QED
    BY <1>3, <1>4, <2>1, <2>2
<1>9. ASSUME NEW r \in Ids, r # n PROVE Status'[r] = Status[r]
  <2>1. r \notin rs /\ calls'[r] = calls[r] /\ (r \in deleted' <=> r \in deleted)
    BY <1>2, <1>5, <1>9
  <2> QED
    BY <1>1, <1>3, <1>6, <1>9, <2>1 DEF Status
<1>10. PICK s \in {"pending", "error"} : Status'[n] = s
  BY <1>8
<1>11. Status' = [Status EXCEPT ![n] = s]
  <2>1. Status = [r \in Ids |-> Status[r]] /\ Status' = [r \in Ids |-> Status'[r]]
    BY <1>6 DEF Status
  <2>2. [Status EXCEPT ![n] = s] = [r \in Ids |-> IF r = n THEN s ELSE Status[r]]
    BY <1>3, <1>6, <2>1
  <2>3. [r \in Ids |-> Status'[r]] = [r \in Ids |-> IF r = n THEN s ELSE Status[r]]
    BY <1>9, <1>10
  <2> QED
    BY <2>1, <2>2, <2>3
<1> QED
  BY <1>1, <1>3, <1>6, <1>7, <1>11 DEF Service!Submit, Service!Ids

\* A step of the server is an acceptance, or none that the service knows of.
LEMMA ServerServes ==
  ASSUME IInv, UNCHANGED world, Serve \/ ServerSkips
  PROVE  (\E r \in Service!Ids : Service!Accept(r)) \/ UNCHANGED <<Status, accepted>>
<1>1. /\ toServer # <<>> /\ toServer \in Seq(Messages)
      /\ UNCHANGED <<issued, calls, succeeded, deleted>>
  BY DEF Serve, ServerSkips, history, IInv, TypeOK, Messages
<1>2. UNCHANGED Status /\ DOMAIN Status = Ids
  <2>1. Ids' = Ids
    BY DEF Ids
  <2> QED
    BY <1>1, <2>1 DEF Status
<1>3. Head(toServer).id \in Ids
  <2>1. Head(toServer) \in Messages
    BY <1>1, HeadTailProperties
  <2> QED
    BY <2>1 DEF Messages
<1>4. accepted' = accepted \/ accepted' = accepted \cup {Head(toServer).id}
  BY DEF Serve, ServerSkips, history, Reply
<1> QED
  BY <1>2, <1>3, <1>4 DEF Service!Accept, Service!Ids

\* Every step is one of the service, or none.
LEMMA NextServes == IInv /\ OInv /\ [Next]_vars => [Service!Next]_Service!svars
<1> SUFFICES ASSUME IInv, OInv, [Next]_vars PROVE [Service!Next]_Service!svars
  OBVIOUS
<1>1. CASE UNCHANGED vars
  <2>1. UNCHANGED <<world, issued, calls, succeeded, deleted, accepted>>
    BY <1>1 DEF vars, machine, history
  <2>2. UNCHANGED <<Ids, Patient, Confusing>>
    BY <2>1 DEF Ids, Patient, Confusing
  <2>3. UNCHANGED Status
    BY <2>1, <2>2 DEF Status
  <2> QED
    BY <2>1, <2>2, <2>3 DEF Service!svars
<1>2. CASE Next
  <2>1. UNCHANGED world /\ UNCHANGED <<~Patient, Confusing>>
    BY <1>2 DEF Next, Patient, Confusing
  <2>2. CASE Submit
    BY <2>1, <2>2, SubmitServes DEF Service!Next
  <2>3. CASE Callback \/ ConnectionBreaks
    BY <2>1, <2>3, CallbackSettles, SettleResolves DEF Service!Next, OInv
  <2>4. CASE Serve \/ ServerSkips
    BY <2>1, <2>4, ServerServes DEF Service!Next, Service!svars
  <2> QED
    BY <1>2, <2>2, <2>3, <2>4 DEF Next
<1> QED
  BY <1>1, <1>2

\* The queues, CSeqs and connections implement the request service: a request is
\* resolved at most once; as a success only if the server accepted that request, unless
\* somebody is confusing; and never dropped without a word if its caller is patient.
THEOREM RequestsServed == Spec => ImplementsService
<1>1. Init => Service!Init
  BY InitServes
<1>2. IInv /\ OInv /\ [Next]_vars => [Service!Next]_Service!svars
  BY NextServes
<1> QED
  BY <1>1, <1>2, Invariant, OrderInvariant, PTL DEF Spec, ImplementsService, Service!Spec

=============================================================================
