------------------------ MODULE RTPReordering_proofs ------------------------
(***************************************************************************)
(* The packet buffer and the frames that are put together from it, for any *)
(* streams of any payloads, any even number of sequence numbers and any    *)
(* arrivals.                                                               *)
(***************************************************************************)
EXTENDS RTPReordering, FiniteSetTheorems, SequenceTheorems, WellFoundedInduction, TLAPS

-----------------------------------------------------------------------------
(***************************************************************************)
(* Sequence numbers.                                                       *)
(***************************************************************************)

\* The sequence numbers fall into two halves.
LEMMA Halves == SeqNos \in Nat /\ Half \in Nat \ {0} /\ SeqNos = 2 * Half
BY SeqNosAssumption DEF Half

\* Quotient and remainder.
LEMMA Remainder ==
  ASSUME NEW a \in Nat
  PROVE  \E q \in Nat, r \in 0..SeqNos - 1 : r = a % SeqNos /\ a = (SeqNos * q) + r
<1>1. SeqNos \in Nat \ {0}
  BY SeqNosAssumption
<1>2. a % SeqNos \in 0..SeqNos - 1
  BY <1>1
<1>3. a \div SeqNos \in Nat /\ a = (SeqNos * (a \div SeqNos)) + (a % SeqNos)
  BY <1>1
<1> QED
  BY <1>2, <1>3

\* Numbers less than Half apart compare as their remainders do, around the wrap too.
LEMMA Wraps ==
  ASSUME NEW a \in Nat, NEW b \in Nat, a - b < Half, b - a < Half
  PROVE  /\ SeqNumLT(a % SeqNos, b % SeqNos) <=> a < b
         /\ a % SeqNos = b % SeqNos <=> a = b
<1>1. PICK p \in Nat, r \in 0..SeqNos - 1 : r = a % SeqNos /\ a = (SeqNos * p) + r
  BY Remainder
<1>2. PICK q \in Nat, t \in 0..SeqNos - 1 : t = b % SeqNos /\ b = (SeqNos * q) + t
  BY Remainder
<1>3. b - a = (SeqNos * (q - p)) + (t - r)
  BY <1>1, <1>2, Halves
<1>4. q - p \in {-1, 0, 1}
  <2>1. CASE q - p >= 2
    <3>1. SeqNos * (q - p) >= 2 * SeqNos
      BY <2>1, Halves
    <3> QED
      BY <1>3, <3>1, Halves
  <2>2. CASE p - q >= 2
    <3>1. SeqNos * (p - q) >= 2 * SeqNos
      BY <2>2, Halves
    <3>2. SeqNos * (p - q) = -(SeqNos * (q - p))
      BY Halves
    <3> QED
      BY <1>3, <3>1, <3>2, Halves
  <2> QED
    BY <2>1, <2>2
<1>5. SeqNos * (q - p) \in {-SeqNos, 0, SeqNos}
  BY <1>4, Halves
<1>6. /\ SeqNumLT(r, t) <=> a < b
      /\ r = t <=> a = b
  <2>1. Half \in Nat \ {0} /\ SeqNos = 2 * Half /\ r \in Int /\ t \in Int
    BY Halves
  <2>2. /\ b - a = (t - r) - SeqNos \/ b - a = t - r \/ b - a = (t - r) + SeqNos
        /\ t - r < SeqNos /\ r - t < SeqNos
    BY <1>3, <1>5, <2>1
  <2> QED
    BY <2>1, <2>2 DEF SeqNumLT
<1> QED
  BY <1>1, <1>2, <1>6

\* There is one remainder.
LEMMA OneRemainder ==
  ASSUME NEW q \in Int, NEW r \in 0..SeqNos - 1, (SeqNos * q) + r \in Nat
  PROVE  ((SeqNos * q) + r) % SeqNos = r
<1> DEFINE a == (SeqNos * q) + r
<1>1. PICK p \in Nat, t \in 0..SeqNos - 1 : t = a % SeqNos /\ a = (SeqNos * p) + t
  BY Remainder
<1>2. SeqNos \in Nat \ {0} /\ SeqNos * (q - p) = t - r
  BY <1>1, Halves
<1>3. ~(q - p >= 1)
  <2>1. q - p >= 1 => SeqNos * (q - p) >= SeqNos
    BY <1>2
  <2> QED
    BY <1>2, <2>1
<1>4. ~(p - q >= 1)
  <2>1. p - q >= 1 => SeqNos * (p - q) >= SeqNos
    BY <1>2
  <2>2. SeqNos * (p - q) = -(SeqNos * (q - p))
    BY <1>2
  <2> QED
    BY <1>2, <2>1, <2>2
<1>5. q = p
  BY <1>3, <1>4
<1> QED
  BY <1>1, <1>2, <1>5

\* The number behind a sequence number is that of the number behind.
LEMMA NextWraps ==
  ASSUME NEW a \in Nat
  PROVE  Successor(a % SeqNos) = (a + 1) % SeqNos
<1>1. PICK q \in Nat, r \in 0..SeqNos - 1 : r = a % SeqNos /\ a = (SeqNos * q) + r
  BY Remainder
<1>2. SeqNos \in Nat /\ SeqNos > 1
  BY SeqNosAssumption
<1>3. CASE r + 1 < SeqNos
  <2>1. r + 1 = (SeqNos * 0) + (r + 1) /\ a + 1 = (SeqNos * q) + (r + 1)
    BY <1>1, <1>2
  <2>2. r + 1 \in 0..SeqNos - 1
    BY <1>2, <1>3
  <2>3. (r + 1) % SeqNos = r + 1 /\ (a + 1) % SeqNos = r + 1
    BY <2>1, <2>2, OneRemainder
  <2> QED
    BY <1>1, <2>3 DEF Successor
<1>4. CASE r + 1 = SeqNos
  <2>1. r + 1 = (SeqNos * 1) + 0 /\ a + 1 = (SeqNos * (q + 1)) + 0
    BY <1>1, <1>2, <1>4
  <2>2. (r + 1) % SeqNos = 0 /\ (a + 1) % SeqNos = 0
    BY <1>2, <2>1, OneRemainder
  <2> QED
    BY <1>1, <2>2 DEF Successor
<1> QED
  BY <1>2, <1>3, <1>4

-----------------------------------------------------------------------------
(***************************************************************************)
(* What the variables hold.                                                *)
(***************************************************************************)
Entries == [packet : Packets, first : BOOLEAN, saved : BOOLEAN, useCount : Nat, left : Nat]
Pieces  == [packet : Packets, unit : Nat]

\* The types that the proofs look into.
LEMMA TypeFacts ==
  ASSUME TypeOK
  PROVE  /\ queue \in Seq(Entries) /\ frame \in Seq(Pieces) /\ delivered \in Seq(Pieces)
         /\ fNextExpectedSeqNo \in 0..SeqNos - 1 /\ awaited \in Nat
         /\ DOMAIN queue = 1..Len(queue) /\ Len(queue) \in Nat
         /\ DOMAIN frame = 1..Len(frame) /\ Len(frame) \in Nat
         /\ DOMAIN delivered = 1..Len(delivered) /\ Len(delivered) \in Nat
<1>1. queue \in Seq(Entries) /\ frame \in Seq(Pieces) /\ delivered \in Seq(Pieces)
  BY DEF TypeOK, Entries, Pieces
<1> QED
  BY <1>1, LenProperties DEF TypeOK

\* A packet is one of a stream, with a payload that is well-formed.
LEMMA PacketFacts ==
  ASSUME TypeOK, NEW p \in Packets
  PROVE  /\ p = [stream |-> p.stream, n |-> p.n]
         /\ p.stream \in Streams /\ p.stream \in Nat \ {0}
         /\ p.n \in DOMAIN source[p.stream] /\ p.n \in Nat \ {0}
         /\ Payload(p) \in Payloads /\ Payload(p) = source[p.stream][p.n]
         /\ base[p.stream] \in Nat /\ base[p.stream] + p.n \in Nat /\ SeqNo(p) \in 0..SeqNos - 1
<1>1. source \in Sources /\ source \in Seq(Seq(Payloads)) /\ base \in [Streams -> Bases]
  BY SourcesAssumption DEF TypeOK
<1>2. PICK s \in DOMAIN source : p \in [stream : {s}, n : DOMAIN source[s]]
  BY DEF Packets, PacketsOf
<1>3. p.stream = s /\ p.n \in DOMAIN source[s] /\ p = [stream |-> s, n |-> p.n]
  BY <1>2
<1>4. s \in Nat \ {0} /\ source[s] \in Seq(Payloads)
  BY <1>1, LenProperties, ElementOfSeq
<1>5. DOMAIN source[s] = 1..Len(source[s]) /\ Len(source[s]) \in Nat
  BY <1>4, LenProperties
<1>6. p.n \in Nat \ {0} /\ source[s][p.n] \in Payloads
  BY <1>3, <1>4, <1>5, ElementOfSeq
<1>7. base[s] \in 0..SeqNos - 1
  BY <1>1, <1>2, SeqNosAssumption DEF Streams
<1>8. base[s] + p.n \in Nat
  BY <1>6, <1>7, SeqNosAssumption
<1>9. SeqNo(p) \in 0..SeqNos - 1
  BY <1>3, <1>8, Remainder DEF SeqNo
<1>10. base[s] \in Nat
  BY <1>7, SeqNosAssumption
<1> QED
  BY <1>3, <1>4, <1>6, <1>8, <1>9, <1>10 DEF Streams, Payload

\* While the source stays, so do its packets.
LEMMA SamePackets ==
  ASSUME UNCHANGED source
  PROVE  UNCHANGED <<Packets, Streams, Entries, Pieces>>
BY DEF Packets, PacketsOf, Streams, Entries, Pieces

\* A packet that is queued has its payload's bytes left.
LEMMA EntryType ==
  ASSUME TypeOK, NEW p \in Packets, NEW d, NEW first \in BOOLEAN
  PROVE  Entry(p, first, d) \in Entries
<1>1. Payload(p).bytes \in Nat
  BY PacketFacts DEF Payloads
<1> QED
  BY <1>1 DEF Entry, Entries

-----------------------------------------------------------------------------
(***************************************************************************)
(* Where a packet is queued.                                               *)
(***************************************************************************)

\* The sequence t is s with the element e behind the first k.
Inserted(t, s, e, k) ==
  /\ Len(t) = Len(s) + 1
  /\ \A i \in 1..k : t[i] = s[i]
  /\ t[k + 1] = e
  /\ \A i \in k + 1..Len(s) : t[i + 1] = s[i]

\* What putting e between two parts of s makes.
LEMMA Insertion ==
  ASSUME NEW S, NEW s \in Seq(S), NEW e \in S, NEW k \in 0..Len(s)
  PROVE  LET t == SubSeq(s, 1, k) \o <<e>> \o SubSeq(s, k + 1, Len(s))
         IN t \in Seq(S) /\ Inserted(t, s, e, k)
<1> DEFINE n == Len(s)
           l == SubSeq(s, 1, k)
           r == SubSeq(s, k + 1, n)
           m == l \o <<e>>
           t == m \o r
<1>1. n \in Nat /\ k \in Nat /\ k <= n /\ DOMAIN s = 1..n
  BY LenProperties
<1> HIDE DEF n
<1>2. l \in Seq(S) /\ Len(l) = k /\ \A i \in 1..k : l[i] = s[i]
  <2>1. \A i \in 1..k : s[i] \in S
    BY <1>1, ElementOfSeq
  <2> QED
    BY <1>1, <2>1, SubSeqProperties
<1>3. r \in Seq(S) /\ Len(r) = n - k /\ \A i \in 1..n - k : r[i] = s[k + i]
  <2>1. k + 1 \in Int /\ n \in Int /\ \A i \in k + 1..n : s[i] \in S
    BY <1>1, ElementOfSeq
  <2>2. /\ r \in Seq(S) /\ Len(r) = IF k + 1 <= n THEN (n - (k + 1)) + 1 ELSE 0
        /\ \A i \in 1..((n - (k + 1)) + 1) : r[i] = s[((k + 1) + i) - 1]
    BY <2>1, SubSeqProperties
  <2> HIDE DEF r
  <2>3. (n - (k + 1)) + 1 = n - k /\ \A i \in 1..n - k : ((k + 1) + i) - 1 = k + i
    BY <1>1
  <2>4. Len(r) = n - k
    BY <1>1, <2>2
  <2> QED
    BY <2>2, <2>3, <2>4
<1>4. <<e>> \in Seq(S) /\ Len(<<e>>) = 1 /\ <<e>>[1] = e
  OBVIOUS
<1> HIDE DEF l, r
<1>5. /\ m \in Seq(S) /\ Len(m) = k + 1 /\ m[k + 1] = e
      /\ \A i \in 1..k : m[i] = s[i]
  <2>1. m \in Seq(S) /\ Len(m) = k + 1
    BY <1>1, <1>2, <1>4, ConcatProperties
  <2>2. \A i \in 1..k + 1 : m[i] = IF i <= k THEN l[i] ELSE <<e>>[i - k]
    BY <1>1, <1>2, <1>4, ConcatProperties
  <2> QED
    BY <1>1, <1>2, <2>1, <2>2
<1> HIDE DEF m
<1>6. /\ t \in Seq(S) /\ Len(t) = n + 1
      /\ \A i \in 1..n + 1 : t[i] = IF i <= k + 1 THEN m[i] ELSE r[i - (k + 1)]
  BY <1>1, <1>3, <1>5, ConcatProperties
<1> HIDE DEF t
<1>7. ASSUME NEW i \in k + 1..n PROVE t[i + 1] = s[i]
  <2>1. i + 1 \in 1..n + 1 /\ ~(i + 1 <= k + 1) /\ i - k \in 1..n - k /\ k + (i - k) = i
        /\ i + 1 - (k + 1) = i - k
    BY <1>1
  <2> QED
    BY <1>3, <1>6, <2>1
<1>8. /\ \A i \in 1..k : t[i] = s[i]
      /\ t[k + 1] = e
  BY <1>1, <1>5, <1>6
<1>9. Inserted(t, s, e, k)
  BY <1>6, <1>7, <1>8 DEF Inserted, n
<1> QED
  BY <1>6, <1>9 DEF t, m, l, r, n

\* Some number of a set is the least.
LEMMA Least ==
  ASSUME NEW T, T \subseteq Nat, T # {}
  PROVE  \E x \in T : \A y \in T : ~(y < x)
<1>1. PICK x \in T : \A y \in T : ~(<<y, x>> \in OpToRel(<, Nat))
  BY NatLessThanWellFounded, WFMin
<1> QED
  BY <1>1 DEF OpToRel

\* Position(s) is where the search from the head ends.
LEMMA PositionFound ==
  ASSUME TypeOK, NEW s
  PROVE  /\ Position(s) \in 0..Len(queue)
         /\ \A i \in 1..Position(s) : ~SeqNumLT(s, SeqNo(queue[i].packet))
         /\ Position(s) = Len(queue) \/ SeqNumLT(s, SeqNo(queue[Position(s) + 1].packet))
<1> DEFINE n == Len(queue)
           Above(i) == SeqNumLT(s, SeqNo(queue[i].packet))
           above == {i \in 1..n : Above(i)}
           Ends(k) == (\A i \in 1..k : ~Above(i)) /\ (k = n \/ Above(k + 1))
<1>1. n \in Nat
  BY TypeFacts
<1>2. \A k : k = Position(s) <=> k = CHOOSE j \in 0..n : Ends(j)
  BY DEF Position
<1> HIDE DEF n, Above
<1>3. \E k \in 0..n : Ends(k)
  <2>1. CASE above = {}
    BY <1>1, <2>1
  <2>2. CASE above # {}
    <3>1. above \subseteq Nat
      BY <1>1
    <3>3. PICK x \in above : \A y \in above : ~(y < x)
      BY <2>2, <3>1, Least
    <3>4. x \in 1..n /\ x - 1 \in 0..n /\ (x - 1) + 1 = x /\ \A i \in 1..x - 1 : i \in 1..n /\ i < x
      BY <1>1, <3>1
    <3>5. Ends(x - 1)
      BY <3>3, <3>4
    <3> QED
      BY <3>4, <3>5
  <2> QED
    BY <2>1, <2>2
<1>4. Position(s) \in 0..n /\ Ends(Position(s))
  BY <1>2, <1>3
<1> QED
  BY <1>4 DEF n, Above

\* Link() puts the packet in at the end or where the search ends.
LEMMA LinkInserts ==
  ASSUME TypeOK, NEW p \in Packets, NEW d, NEW first \in BOOLEAN, Link(p, d, first)
  PROVE  \E k \in 0..Len(queue) :
           /\ queue' \in Seq(Entries) /\ Inserted(queue', queue, Entry(p, first, d), k)
           /\ \/ InOrder(SeqNo(p)) /\ k = Len(queue) /\ fTailPacket' = p
              \/ /\ ~InOrder(SeqNo(p)) /\ ~Duplicate(SeqNo(p)) /\ k = Position(SeqNo(p))
                 /\ fTailPacket' = fTailPacket
<1> DEFINE e == Entry(p, first, d)
           k == Position(SeqNo(p))
           n == Len(queue)
<1>1. e \in Entries /\ queue \in Seq(Entries) /\ n \in Nat /\ DOMAIN queue = 1..n
  BY EntryType, TypeFacts
<1> HIDE DEF e
<1>2. CASE InOrder(SeqNo(p)) /\ queue' = Append(queue, e) /\ fTailPacket' = p
  <2>1. /\ queue' \in Seq(Entries) /\ Len(queue') = n + 1 /\ queue'[n + 1] = e
        /\ \A i \in 1..n : queue'[i] = queue[i]
    BY <1>1, <1>2, AppendProperties
  <2>2. n \in 0..n /\ n + 1..n = {}
    BY <1>1
  <2>3. Inserted(queue', queue, e, n)
    BY <2>1, <2>2 DEF Inserted
  <2> QED
    BY <1>2, <2>1, <2>2, <2>3 DEF e
<1>3. CASE /\ ~InOrder(SeqNo(p)) /\ ~Duplicate(SeqNo(p)) /\ UNCHANGED fTailPacket
           /\ queue' = SubSeq(queue, 1, k) \o <<e>> \o SubSeq(queue, k + 1, n)
  <2>1. k \in 0..n
    BY PositionFound
  <2>2. queue' \in Seq(Entries) /\ Inserted(queue', queue, e, k)
    BY <1>1, <1>3, <2>1, Insertion
  <2> QED
    BY <1>3, <2>1, <2>2 DEF e
<1> QED
  BY <1>2, <1>3 DEF Link, e

\* Every element of t is e or one of s, in the same order.
LEMMA InsertedParts ==
  ASSUME NEW S, NEW s \in Seq(S), NEW e, NEW k \in 0..Len(s), NEW t \in Seq(S), Inserted(t, s, e, k)
  PROVE  /\ DOMAIN t = 1..Len(s) + 1 /\ Len(s) \in Nat /\ t # <<>>
         /\ \A i \in DOMAIN t :
              \/ i <= k /\ i \in 1..k /\ i \in DOMAIN s /\ t[i] = s[i]
              \/ i = k + 1 /\ t[i] = e
              \/ i > k + 1 /\ i - 1 \in k + 1..Len(s) /\ i - 1 \in DOMAIN s /\ t[i] = s[i - 1]
<1> DEFINE n == Len(s)
<1>1. /\ n \in Nat /\ k \in Nat /\ k <= n /\ DOMAIN s = 1..n /\ Len(t) = n + 1
      /\ \A i \in 1..k : t[i] = s[i]
      /\ t[k + 1] = e
      /\ \A i \in k + 1..n : t[i + 1] = s[i]
  BY LenProperties DEF Inserted
<1>2. DOMAIN t = 1..n + 1 /\ t # <<>>
  BY <1>1, LenProperties, EmptySeq
<1> HIDE DEF n
<1>3. ASSUME NEW i \in DOMAIN t
      PROVE  \/ i <= k /\ i \in 1..k /\ i \in DOMAIN s /\ t[i] = s[i]
             \/ i = k + 1 /\ t[i] = e
             \/ i > k + 1 /\ i - 1 \in k + 1..n /\ i - 1 \in DOMAIN s /\ t[i] = s[i - 1]
  <2>1. i \in Nat /\ 1 <= i /\ i <= n + 1
    BY <1>1, <1>2
  <2>2. CASE i <= k
    BY <1>1, <2>1, <2>2
  <2>3. CASE i = k + 1
    BY <1>1, <2>3
  <2>4. CASE i > k + 1
    <3>1. i - 1 \in k + 1..n /\ (i - 1) + 1 = i /\ i - 1 \in 1..n
      BY <1>1, <2>1, <2>4
    <3> QED
      BY <1>1, <2>4, <3>1
  <2> QED
    BY <1>1, <2>1, <2>2, <2>3, <2>4
<1> QED
  BY <1>1, <1>2, <1>3 DEF n

\* No element of s is missing in t.
LEMMA InsertedKeeps ==
  ASSUME NEW S, NEW s \in Seq(S), NEW e, NEW k \in 0..Len(s), NEW t \in Seq(S), Inserted(t, s, e, k),
         NEW i \in DOMAIN s
  PROVE  \E j \in DOMAIN t : t[j] = s[i]
<1> DEFINE n == Len(s)
<1>1. /\ n \in Nat /\ k \in Nat /\ k <= n /\ i \in 1..n /\ DOMAIN t = 1..n + 1
      /\ \A j \in 1..k : t[j] = s[j]
      /\ \A j \in k + 1..n : t[j + 1] = s[j]
  BY LenProperties DEF Inserted
<1> HIDE DEF n
<1>2. CASE i <= k
  BY <1>1, <1>2
<1>3. CASE i > k
  <2>1. i \in k + 1..n /\ i + 1 \in 1..n + 1
    BY <1>1, <1>3
  <2> QED
    BY <1>1, <2>1
<1> QED
  BY <1>1, <1>2, <1>3

-----------------------------------------------------------------------------
(***************************************************************************)
(* The types of the variables.                                             *)
(***************************************************************************)

\* TypeOK in two parts: of the list, and of the rest.
ListOK ==
  /\ queue \in Seq(Entries) /\ fTailPacket \in Packets \cup {NoPacket}
  /\ fNextExpectedSeqNo \in 0..SeqNos - 1 /\ awaited \in Nat
  /\ saved \in {"null", "free", "used"} /\ old \subseteq Queued

RestOK ==
  /\ reading \in {"none", "saved", "other"}
  /\ fHaveSeenFirstPacket \in BOOLEAN /\ fAreDoingNetworkReads \in BOOLEAN
  /\ fNeedDelivery \in BOOLEAN /\ task \in BOOLEAN /\ looping \in BOOLEAN
  /\ fCurrentPacketBeginsFrame \in BOOLEAN /\ fCurrentPacketCompletesFrame \in BOOLEAN
  /\ fPacketLossInFragmentedFrame \in BOOLEAN
  /\ frame \in Seq(Pieces) /\ delivered \in Seq(Pieces)
  /\ fCurPacketNALUnitType \in 0..31 /\ source \in Sources
  /\ ssrc \in {0} \cup Streams /\ base \in [Streams -> Bases]

LEMMA TypeParts == TypeOK <=> ListOK /\ RestOK
BY DEF TypeOK, ListOK, RestOK, Entries, Pieces

\* The first packet in the queue, and what is behind it.
LEMMA HeadFacts ==
  ASSUME TypeOK, queue # <<>>
  PROVE  /\ 1 \in DOMAIN queue /\ Len(queue) \in Nat \ {0} /\ queue[1] \in Entries
         /\ Head1 \in Packets /\ Head1 \in Queued
         /\ Tail(queue) \in Seq(Entries) /\ DOMAIN Tail(queue) = 1..Len(queue) - 1
         /\ Len(Tail(queue)) = Len(queue) - 1
         /\ \A i \in DOMAIN Tail(queue) :
              i \in Nat /\ i + 1 \in DOMAIN queue /\ Tail(queue)[i] = queue[i + 1]
         /\ \A i \in DOMAIN queue \ {1} : i - 1 \in DOMAIN Tail(queue) /\ i \in Nat /\ i > 1
<1>1. queue \in Seq(Entries) /\ Len(queue) \in Nat \ {0} /\ DOMAIN queue = 1..Len(queue)
  BY TypeFacts, EmptySeq
<1>2. 1 \in DOMAIN queue /\ queue[1] \in Entries /\ Head1 \in Packets
  <2> DEFINE m == Len(queue)
  <2>1. m \in Nat \ {0} /\ DOMAIN queue = 1..m
    BY <1>1
  <2> HIDE DEF m
  <2>2. 1 \in DOMAIN queue
    BY <2>1
  <2>3. queue[1] \in Entries
    BY <1>1, <2>2, ElementOfSeq
  <2> QED
    BY <2>2, <2>3 DEF Head1, Entries
<1>3. /\ Tail(queue) \in Seq(Entries) /\ Len(Tail(queue)) = Len(queue) - 1
      /\ \A i \in 1..Len(Tail(queue)) : Tail(queue)[i] = queue[i + 1]
  BY <1>1, HeadTailProperties
<1>4. DOMAIN Tail(queue) = 1..Len(queue) - 1
  BY <1>3, LenProperties
<1>5. Head1 \in Queued
  BY <1>2 DEF Head1, Queued
<1> DEFINE n == Len(queue)
           t == Tail(queue)
<1> HIDE DEF n, t
<1>6. /\ \A i \in 1..n - 1 : i \in Nat /\ i + 1 \in 1..n /\ t[i] = queue[i + 1]
      /\ \A i \in (1..n) \ {1} : i - 1 \in 1..n - 1 /\ i \in Nat /\ i > 1
  BY <1>1, <1>3 DEF n, t
<1> QED
  BY <1>1, <1>2, <1>3, <1>4, <1>5, <1>6 DEF n, t

\* releaseUsedPacket() keeps the types.
LEMMA ReleaseTypes ==
  ASSUME TypeOK, UNCHANGED <<source, base>>, queue # <<>>, Release
  PROVE  ListOK'
<1>1. /\ queue' = Tail(queue) /\ fTailPacket' \in {NoPacket, fTailPacket}
      /\ fNextExpectedSeqNo' = Successor(SeqNo(Head1)) /\ awaited' = Head1.n + 1
      /\ saved' \in {saved, "free"} /\ old' = old \ {Head1}
  BY DEF Release, Free
<1>2. UNCHANGED <<Packets, Entries>>
  BY SamePackets
<1>3. queue' \in Seq(Entries)
  BY <1>1, HeadFacts
<1>4. Head1 \in Packets /\ Head1.n \in Nat /\ SeqNo(Head1) \in Nat
  BY HeadFacts, PacketFacts
<1>5. fNextExpectedSeqNo' \in 0..SeqNos - 1
  <2>1. SeqNo(Head1) + 1 \in Nat
    BY <1>4
  <2> QED
    BY <1>1, <2>1, Remainder DEF Successor
<1>6. old' \subseteq Queued'
  <2> SUFFICES ASSUME NEW p \in old \ {Head1} PROVE p \in Queued'
    BY <1>1
  <2>1. PICK i \in DOMAIN queue : queue[i].packet = p
    BY DEF TypeOK, Queued
  <2>2. i # 1
    BY <2>1 DEF Head1
  <2>3. i - 1 \in DOMAIN queue' /\ queue'[i - 1] = queue[i]
    <3>1. i \in Nat /\ i - 1 \in DOMAIN Tail(queue) /\ (i - 1) + 1 = i
      BY <2>2, HeadFacts
    <3> QED
      BY <1>1, <3>1, HeadFacts
  <2> QED
    BY <2>1, <2>3 DEF Queued
<1> QED
  <2>1. fTailPacket \in Packets \cup {NoPacket} /\ saved \in {"null", "free", "used"}
    BY DEF TypeOK
  <2>2. /\ queue' \in Seq(Entries') /\ fTailPacket' \in Packets' \cup {NoPacket}
        /\ awaited' \in Nat /\ saved' \in {"null", "free", "used"}
    BY <1>1, <1>2, <1>3, <1>4, <2>1
  <2> QED
    BY <1>5, <1>6, <2>2 DEF ListOK

\* storePacket() keeps them.
LEMMA StoreTypes ==
  ASSUME TypeOK, UNCHANGED <<source, old>>,
         NEW p \in Packets, NEW d, NEW seen \in BOOLEAN, StorePacket(p, d, seen)
  PROVE  ListOK'
<1>1. UNCHANGED <<Packets, Entries>>
  BY SamePackets
<1>2. fNextExpectedSeqNo' \in {fNextExpectedSeqNo, SeqNo(p)} /\ awaited' \in {awaited, p.n}
  BY DEF StorePacket
<1>3. fNextExpectedSeqNo' \in 0..SeqNos - 1 /\ awaited' \in Nat
  BY <1>2, PacketFacts DEF TypeOK
<1>4. saved' \in {"null", "free", "used"}
  BY DEF StorePacket, Take, Free, TypeOK
<1>5. CASE UNCHANGED <<queue, fTailPacket>>
  <2>1. Queued' = Queued
    BY <1>5 DEF Queued
  <2> QED
    BY <1>1, <1>3, <1>4, <1>5, <2>1, TypeParts DEF ListOK
<1>6. CASE Link(p, d, ~seen)
  <2>1. PICK k \in 0..Len(queue) :
          /\ queue' \in Seq(Entries) /\ Inserted(queue', queue, Entry(p, ~seen, d), k)
          /\ fTailPacket' \in {p, fTailPacket}
    BY <1>6, LinkInserts
  <2>2. Queued \subseteq Queued'
    <3> SUFFICES ASSUME NEW i \in DOMAIN queue PROVE queue[i].packet \in Queued'
      BY DEF Queued
    <3>1. \E j \in DOMAIN queue' : queue'[j] = queue[i]
      BY <2>1, InsertedKeeps, TypeFacts
    <3> QED
      BY <3>1 DEF Queued
  <2> QED
    BY <1>1, <1>3, <1>4, <2>1, <2>2 DEF ListOK, TypeOK
<1> QED
  BY <1>5, <1>6 DEF StorePacket

\* The bytes that use() takes, and what it makes of the frame.
LEMMA UseTypes ==
  ASSUME TypeOK, queue # <<>>
  PROVE  /\ LeftBehind \in Int /\ FrameSoFar \in Seq(Pieces) /\ NALUnitType \in 0..31
         /\ Begins \in BOOLEAN /\ Completes \in BOOLEAN
<1> DEFINE h == Payload(Head1)
<1>1. /\ h.type \in 0..31 /\ h.bytes \in Nat /\ h.start \in BOOLEAN /\ h.end \in BOOLEAN
      /\ h.sizes \in Seq(Nat)
  BY HeadFacts, PacketFacts DEF Payloads
<1>2. queue[1].useCount \in Nat /\ queue[1].left \in Nat
  BY HeadFacts DEF Entries
<1>3. Begins \in BOOLEAN /\ Completes \in BOOLEAN /\ NALUnitType \in 0..31
  BY <1>1 DEF Begins, Completes, NALUnitType, BeginsFrame, CompletesFrame, TypeOK
<1>4. Stated \in Int
  <2>1. CASE queue[1].useCount < Len(h.sizes)
    <3>1. queue[1].useCount + 1 \in 1..Len(h.sizes)
      BY <1>1, <1>2, <2>1, LenProperties
    <3>2. h.sizes[queue[1].useCount + 1] \in Nat
      BY <1>1, <3>1, ElementOfSeq
    <3> QED
      BY <2>1, <3>2 DEF Stated
  <2>2. CASE ~(queue[1].useCount < Len(h.sizes))
    BY <2>2 DEF Stated
  <2> QED
    BY <2>1, <2>2
<1>5. Left \in Int
  BY <1>1, <1>2 DEF Left, HeaderBytes
<1>6. FrameBytes \in Int /\ SkippedBytes(NALUnitType, Left) \in Int
  BY <1>3, <1>4, <1>5 DEF FrameBytes, EnclosedBytes, SkippedBytes, UnitHeaderBytes
<1>7. LeftBehind \in Int
  BY <1>5, <1>6 DEF LeftBehind
<1>8. FrameSoFar \in Seq(Pieces)
  <2>1. [packet |-> Head1, unit |-> queue[1].useCount] \in Pieces
    BY <1>2, HeadFacts DEF Pieces
  <2>2. frame \in Seq(Pieces) /\ <<>> \in Seq(Pieces)
    BY TypeFacts, EmptySeq
  <2> QED
    BY <2>1, <2>2, AppendProperties DEF FrameSoFar
<1> QED
  BY <1>3, <1>7, <1>8

\* Some of the head packet is left: it stays.
Keep ==
  /\ LeftBehind > 0
  /\ queue' = [queue EXCEPT ![1].useCount = @ + 1, ![1].left = LeftBehind]
  /\ fNextExpectedSeqNo' = SeqNo(Head1) /\ awaited' = Head1.n
  /\ UNCHANGED <<fTailPacket, saved, old>>

\* Only the counts of the head packet change.
LEMMA KeepFacts ==
  ASSUME TypeOK, queue # <<>>, Keep, UNCHANGED source
  PROVE  /\ queue' \in Seq(Entries) /\ Len(queue') = Len(queue) /\ DOMAIN queue' = DOMAIN queue
         /\ queue' # <<>> /\ Queued' = Queued
         /\ queue'[1].packet = Head1 /\ Head1' = Head1 /\ queue'[1].useCount = queue[1].useCount + 1
         /\ queue'[1].first = queue[1].first /\ queue'[1].saved = queue[1].saved
         /\ \A i \in DOMAIN queue : /\ queue'[i].packet = queue[i].packet
                                    /\ queue'[i].first = queue[i].first
                                    /\ queue'[i].saved = queue[i].saved
                                    /\ i # 1 => queue'[i] = queue[i]
<1> DEFINE e == [queue[1] EXCEPT !.useCount = @ + 1, !.left = LeftBehind]
<1>1. 1 \in DOMAIN queue /\ queue[1] \in Entries /\ queue \in Seq(Entries) /\ LeftBehind \in Int
  BY HeadFacts, UseTypes, TypeFacts
<1>2. /\ e \in Entries /\ e.packet = queue[1].packet /\ e.first = queue[1].first
      /\ e.saved = queue[1].saved /\ e.useCount = queue[1].useCount + 1
  <2> DEFINE l == LeftBehind
             h == queue[1]
  <2>1. l \in Nat /\ h \in Entries
    BY <1>1 DEF Keep
  <2>2. e = [h EXCEPT !.useCount = @ + 1, !.left = l]
    OBVIOUS
  <2> HIDE DEF l, h, e
  <2>3. h.useCount + 1 \in Nat
    BY <2>1 DEF Entries
  <2>4. e \in Entries
    BY <2>1, <2>2, <2>3 DEF Entries
  <2>5. e.packet = h.packet /\ e.first = h.first /\ e.saved = h.saved
    BY <2>1, <2>2 DEF Entries
  <2>6. e.useCount = h.useCount + 1
    BY <2>1, <2>2 DEF Entries
  <2> QED
    BY <2>4, <2>5, <2>6 DEF h
<1>3. queue' = [queue EXCEPT ![1] = e]
  <2>1. queue' = [queue EXCEPT ![1].useCount = @ + 1, ![1].left = LeftBehind]
    BY DEF Keep
  <2> QED
    BY <1>1, <2>1
<1> HIDE DEF e
<1>4. /\ queue' \in Seq(Entries) /\ Len(queue') = Len(queue) /\ DOMAIN queue' = DOMAIN queue
      /\ queue'[1] = e /\ \A i \in DOMAIN queue \ {1} : queue'[i] = queue[i]
  BY <1>1, <1>2, <1>3, ExceptSeq, LenProperties
<1>5. queue' # <<>>
  BY <1>1, <1>4
<1>6. \A i \in DOMAIN queue : /\ queue'[i].packet = queue[i].packet
                              /\ queue'[i].first = queue[i].first
                              /\ queue'[i].saved = queue[i].saved
                              /\ i # 1 => queue'[i] = queue[i]
  BY <1>2, <1>4
<1>7. Queued' = Queued
  BY <1>4, <1>6 DEF Queued
<1> QED
  BY <1>1, <1>2, <1>4, <1>5, <1>6, <1>7 DEF Head1

LEMMA KeepTypes ==
  ASSUME TypeOK, queue # <<>>, Keep, UNCHANGED <<source, base>>
  PROVE  ListOK'
<1>1. UNCHANGED <<Packets, Entries>>
  BY SamePackets
<1>2. Head1 \in Packets /\ SeqNo(Head1) \in 0..SeqNos - 1 /\ Head1.n \in Nat
  BY HeadFacts, PacketFacts
<1> QED
  BY <1>1, <1>2, KeepFacts, TypeParts DEF ListOK, Keep

\* What a turn of the loop does to the list: the head packet is released or stays.
LEMMA UseIsReleaseOrKeep ==
  ASSUME TypeOK, Use
  PROVE  /\ queue # <<>>
         /\ (LeftBehind <= 0 /\ Release) \/ Keep
<1>1. queue # <<>>
  BY DEF Use, ProcessHeader, Turn, Completed
<1>2. LeftBehind \in Int
  BY <1>1, UseTypes
<1> QED
  BY <1>1, <1>2 DEF Use, Keep

\* The first fields of the queue and the rest: what each step does to the types.
LEMMA TypeKept ==
  ASSUME TypeOK, [Next]_vars
  PROVE  TypeOK'
<1>0. ListOK' /\ RestOK' => TypeOK'
  BY DEF TypeOK, ListOK, RestOK, Entries, Pieces
<1>1. ListOK /\ RestOK
  BY TypeParts
<1>2. CASE UNCHANGED vars
  <2>1. UNCHANGED <<Packets, Streams, Queued>>
    BY <1>2 DEF vars, state, list, Packets, PacketsOf, Streams, Queued
  <2> QED
    BY <1>2, <2>1 DEF TypeOK, vars, state, list, pool, request, framing, header
<1>3. CASE Next
  <2>1. UNCHANGED source /\ UNCHANGED <<Packets, Streams, Entries, Pieces>>
    BY <1>3, SamePackets DEF Next
  <2>2. <<>> \in Seq(Pieces) /\ <<>> \in Seq(Entries)
    BY EmptySeq
  <2>3. ASSUME UNCHANGED <<queue, fTailPacket, fNextExpectedSeqNo, awaited, saved, old>>
        PROVE  ListOK'
    <3>1. UNCHANGED Queued
      BY <2>3 DEF Queued
    <3> QED
      BY <1>1, <2>1, <2>3, <3>1 DEF ListOK
  <2>4. ASSUME NEW p \in Packets, PacketArrives(p) PROVE TypeOK'
    <3>1. ListOK'
      BY <2>1, <2>4, StoreTypes DEF PacketArrives, TypeOK
    <3>2. RestOK'
      <4>1. p.stream \in Streams
        BY PacketFacts
      <4> QED
        BY <1>1, <2>1, <2>4, <4>1 DEF RestOK, PacketArrives, StorePacket, request, framing, header
    <3> QED
      BY <3>1, <3>2, <1>0
  <2>5. ASSUME NEW p \in Packets, Age(p) PROVE TypeOK'
    <3>1. UNCHANGED Queued
      BY <2>5 DEF Age, list, Queued
    <3>2. ListOK' /\ RestOK'
      BY <1>1, <2>1, <2>5, <3>1 DEF ListOK, RestOK, Age, list, pool, request, framing, header
    <3> QED
      BY <3>2, <1>0
  <2>6. CASE PartArrives
    <3>1. UNCHANGED Queued
      BY <2>6 DEF PartArrives, list, Queued
    <3>2. ListOK' /\ RestOK'
      BY <1>1, <2>1, <2>6, <3>1
         DEF ListOK, RestOK, PartArrives, Take, FreePacket, list, request, framing, header
    <3> QED
      BY <3>2, <1>0
  <2>7. CASE JunkArrives
    <3>1. UNCHANGED Queued
      BY <2>7 DEF JunkArrives, list, Queued
    <3>2. ListOK' /\ RestOK'
      BY <1>1, <2>1, <2>7, <3>1
         DEF ListOK, RestOK, JunkArrives, Free, FreePacket, list, request, framing, header
    <3> QED
      BY <3>2, <1>0
  <2>8. CASE Break
    <3>1. ListOK' /\ RestOK'
      BY <1>1, <2>1, <2>3, <2>8 DEF RestOK, Break, list, pool, request, framing, header
    <3> QED
      BY <3>1, <1>0
  <2>9. CASE RejectHeader
    <3>1. queue # <<>> /\ Release /\ UNCHANGED base
      BY <2>9 DEF RejectHeader, Turn, Completed
    <3>2. ListOK'
      BY <2>1, <3>1, ReleaseTypes
    <3>3. Payload(Head1).type \in 0..31
      BY <3>1, HeadFacts, PacketFacts DEF Payloads
    <3>4. RestOK'
      BY <1>1, <2>1, <2>9, <3>3 DEF RestOK, RejectHeader, Turn
    <3> QED
      BY <3>2, <3>4, <1>0
  <2>10. CASE RejectFragment
    <3>1. queue # <<>> /\ Release /\ UNCHANGED base
      BY <2>10 DEF RejectFragment, ProcessHeader, Turn, Completed
    <3>2. ListOK'
      BY <2>1, <3>1, ReleaseTypes
    <3>3. RestOK'
      BY <1>1, <2>1, <2>10, <3>1, UseTypes DEF RestOK, RejectFragment, ProcessHeader, Turn
    <3> QED
      BY <3>2, <3>3, <1>0
  <2>11. CASE UseFragment \/ DeliverFrame
    <3>1. Use
      BY <2>11 DEF UseFragment, DeliverFrame
    <3>2. queue # <<>> /\ (Release \/ Keep) /\ UNCHANGED base
      BY <3>1, UseIsReleaseOrKeep DEF Use, ProcessHeader, Turn
    <3>3. ListOK'
      BY <2>1, <3>2, ReleaseTypes, KeepTypes
    <3>4. /\ fCurrentPacketBeginsFrame' \in BOOLEAN /\ fCurrentPacketCompletesFrame' \in BOOLEAN
          /\ fCurPacketNALUnitType' \in 0..31 /\ fPacketLossInFragmentedFrame' = FALSE
          /\ UNCHANGED <<fHaveSeenFirstPacket, reading, fAreDoingNetworkReads, ssrc, base>>
      BY <3>1, <3>2, UseTypes DEF Use, ProcessHeader, Turn
    <3>5. /\ fNeedDelivery' \in BOOLEAN /\ task' \in BOOLEAN /\ looping' \in BOOLEAN
          /\ frame' \in Seq(Pieces) /\ delivered' \in Seq(Pieces)
      BY <1>1, <2>2, <2>11, <3>2, UseTypes DEF UseFragment, DeliverFrame, RestOK
    <3>6. RestOK'
      BY <1>1, <2>1, <3>4, <3>5 DEF RestOK
    <3> QED
      BY <3>3, <3>6, <1>0
  <2>12. CASE GetNextFrame \/ AfterGetting
    <3>1. UNCHANGED <<queue, fTailPacket, fNextExpectedSeqNo, awaited, saved, old>>
      BY <2>12 DEF GetNextFrame, AfterGetting, list, pool
    <3>2. ListOK'
      BY <2>3, <3>1
    <3>3. RestOK'
      BY <1>1, <2>1, <2>2, <2>12 DEF RestOK, GetNextFrame, AfterGetting, list, pool, header
    <3> QED
      BY <3>2, <3>3, <1>0
  <2>13. CASE StopGettingFrames
    <3>1. ListOK'
      BY <1>1, <2>1, <2>2, <2>13 DEF ListOK, StopGettingFrames
    <3>2. RestOK'
      BY <1>1, <2>1, <2>2, <2>13 DEF RestOK, StopGettingFrames
    <3> QED
      BY <3>1, <3>2, <1>0
  <2> QED
    BY <1>3, <2>4, <2>5, <2>6, <2>7, <2>8, <2>9, <2>10, <2>11, <2>12, <2>13 DEF Next, Loop
<1> QED
  BY <1>2, <1>3

\* At the start.
LEMMA TypeInit == Init => TypeOK
<1> SUFFICES ASSUME Init PROVE TypeOK
  OBVIOUS
<1>1. <<>> \in Seq(Pieces) /\ <<>> \in Seq(Entries) /\ 0 \in 0..SeqNos - 1
  BY EmptySeq, SeqNosAssumption
<1>2. ListOK
  BY <1>1 DEF Init, ListOK
<1>3. RestOK
  <2>1. /\ reading \in {"none", "saved", "other"} /\ source \in Sources
        /\ ssrc \in {0} \cup Streams /\ base \in [Streams -> Bases]
    BY DEF Init
  <2>2. frame \in Seq(Pieces) /\ delivered \in Seq(Pieces) /\ fCurPacketNALUnitType \in 0..31
    BY <1>1 DEF Init
  <2>3. /\ fHaveSeenFirstPacket \in BOOLEAN /\ fAreDoingNetworkReads \in BOOLEAN
        /\ fNeedDelivery \in BOOLEAN /\ task \in BOOLEAN /\ looping \in BOOLEAN
        /\ fCurrentPacketBeginsFrame \in BOOLEAN /\ fCurrentPacketCompletesFrame \in BOOLEAN
        /\ fPacketLossInFragmentedFrame \in BOOLEAN
    BY DEF Init
  <2> QED
    BY <2>1, <2>2, <2>3 DEF RestOK
<1> QED
  BY <1>2, <1>3, TypeParts

\* Every state has these types.
THEOREM TypeCorrect == Spec => []TypeOK
<1>1. TypeOK /\ [Next]_vars => TypeOK'
  BY TypeKept
<1> QED
  BY <1>1, TypeInit, PTL DEF Spec

-----------------------------------------------------------------------------
(***************************************************************************)
(* The steps, by what they do to the list.                                 *)
(***************************************************************************)

\* A turn of the loop that looks at the head packet.
Turns == RejectHeader \/ RejectFragment \/ UseFragment \/ DeliverFrame

LEMMA TurnFacts ==
  ASSUME TypeOK, Turns
  PROVE  /\ queue # <<>> /\ looping /\ fNeedDelivery /\ Completed
         /\ Release \/ Keep
         /\ UNCHANGED <<fHaveSeenFirstPacket, reading, fAreDoingNetworkReads, ssrc, base>>
<1>1. Turn
  BY DEF Turns, RejectHeader, RejectFragment, UseFragment, DeliverFrame, Use, ProcessHeader
<1>2. Release \/ Keep
  BY UseIsReleaseOrKeep DEF Turns, RejectHeader, RejectFragment, UseFragment, DeliverFrame
<1> QED
  BY <1>1, <1>2 DEF Turn, Completed

\* An arriving packet is refused, or it is linked.
LEMMA ArriveFacts ==
  ASSUME TypeOK, NEW p \in Packets, PacketArrives(p)
  PROVE  \E seen \in BOOLEAN :
           /\ seen <=> fHaveSeenFirstPacket /\ p.stream = ssrc
           /\ fHaveSeenFirstPacket' = TRUE /\ ssrc' = p.stream /\ reading' = "none"
           /\ fNextExpectedSeqNo' = (IF seen THEN fNextExpectedSeqNo ELSE SeqNo(p))
           /\ awaited' = (IF seen THEN awaited ELSE p.n)
           /\ IF Refused(p, fNextExpectedSeqNo')
              THEN Free(FreePacket) /\ UNCHANGED <<queue, fTailPacket>>
              ELSE Take(FreePacket) /\ Link(p, FreePacket, ~seen)
           /\ UNCHANGED <<framing, fCurrentPacketBeginsFrame, fCurrentPacketCompletesFrame,
                          fPacketLossInFragmentedFrame, frame, base, delivered, old>>
<1> DEFINE seen == fHaveSeenFirstPacket /\ p.stream = ssrc
<1>1. seen \in BOOLEAN /\ StorePacket(p, FreePacket, seen)
  BY DEF PacketArrives, TypeOK
<1> HIDE DEF seen
<1>2. /\ fHaveSeenFirstPacket' = TRUE
      /\ fNextExpectedSeqNo' = (IF seen THEN fNextExpectedSeqNo ELSE SeqNo(p))
      /\ awaited' = (IF seen THEN awaited ELSE p.n)
      /\ IF Refused(p, fNextExpectedSeqNo')
         THEN Free(FreePacket) /\ UNCHANGED <<queue, fTailPacket>>
         ELSE Take(FreePacket) /\ Link(p, FreePacket, ~seen)
  BY <1>1 DEF StorePacket
<1>3. /\ ssrc' = p.stream /\ reading' = "none"
      /\ UNCHANGED <<framing, fCurrentPacketBeginsFrame, fCurrentPacketCompletesFrame,
                     fPacketLossInFragmentedFrame, frame, base, delivered, old>>
  BY DEF PacketArrives, framing, header
<1>4. seen <=> fHaveSeenFirstPacket /\ p.stream = ssrc
  BY DEF seen
<1> QED
  BY <1>1, <1>2, <1>3, <1>4

\* The steps that leave the list as it is.
Elsewhere ==
  \/ \E p \in Packets : Age(p)
  \/ PartArrives \/ JunkArrives \/ Break \/ GetNextFrame \/ AfterGetting \/ UNCHANGED vars

LEMMA ElsewhereFacts ==
  ASSUME Elsewhere
  PROVE  UNCHANGED <<queue, fTailPacket, fNextExpectedSeqNo, fHaveSeenFirstPacket, awaited,
                     fCurrentPacketBeginsFrame, fCurrentPacketCompletesFrame,
                     fCurPacketNALUnitType, fPacketLossInFragmentedFrame, ssrc, base, delivered>>
BY DEF Elsewhere, Age, PartArrives, JunkArrives, Break, GetNextFrame, AfterGetting, list, framing,
       header, vars, state

LEMMA Steps ==
  ASSUME [Next]_vars
  PROVE  /\ UNCHANGED source
         /\ (\E p \in Packets : PacketArrives(p)) \/ Turns \/ Elsewhere \/ StopGettingFrames
BY DEF Next, Loop, Turns, Elsewhere, vars

-----------------------------------------------------------------------------
(***************************************************************************)
(* Before the first packet there is nothing.                               *)
(***************************************************************************)
Seen ==
  /\ ~fHaveSeenFirstPacket => queue = <<>> /\ delivered = <<>> /\ frame = <<>>
  /\ ssrc = 0 => ~fHaveSeenFirstPacket
  /\ queue = <<>> => fTailPacket = NoPacket

LEMMA SeenKept ==
  ASSUME TypeOK, Seen, [Next]_vars
  PROVE  Seen'
<1>0. UNCHANGED source
  BY Steps
<1>1. ASSUME NEW p \in Packets, PacketArrives(p) PROVE Seen'
  <2>1. fHaveSeenFirstPacket' /\ ssrc' # 0
    BY <1>1, PacketFacts DEF PacketArrives, StorePacket
  <2>2. CASE UNCHANGED <<queue, fTailPacket>>
    BY <2>1, <2>2 DEF Seen
  <2>3. ASSUME NEW seen \in BOOLEAN, Link(p, FreePacket, ~seen) PROVE Seen'
    <3>2. PICK k \in 0..Len(queue) :
            queue' \in Seq(Entries) /\ Inserted(queue', queue, Entry(p, ~seen, FreePacket), k)
      BY <2>3, LinkInserts
    <3>3. queue' # <<>>
      BY <3>2, InsertedParts, TypeFacts
    <3> QED
      BY <2>1, <3>3 DEF Seen
  <2> QED
    BY <1>1, <2>2, <2>3, ArriveFacts
<1>2. CASE Turns
  <2>1. /\ queue # <<>> /\ (Release \/ Keep)
        /\ UNCHANGED <<fHaveSeenFirstPacket, ssrc>>
    BY <1>2, TurnFacts
  <2>2. fHaveSeenFirstPacket' /\ ssrc' # 0
    <3>1. fHaveSeenFirstPacket /\ ssrc # 0
      BY <2>1 DEF Seen
    <3> QED
      BY <2>1, <3>1
  <2>3. queue' = <<>> => fTailPacket' = NoPacket
    <3>1. CASE Release
      BY <3>1 DEF Release
    <3>2. CASE Keep
      <4>1. queue' # <<>>
        BY <1>0, <2>1, <3>2, KeepFacts
      <4> QED
        BY <4>1
    <3> QED
      BY <2>1, <3>1, <3>2
  <2> QED
    BY <2>2, <2>3 DEF Seen
<1>3. CASE Elsewhere
  <2>1. frame' \in {frame, <<>>}
    BY <1>3 DEF Elsewhere, Age, PartArrives, JunkArrives, Break, GetNextFrame, AfterGetting,
                framing, vars, state
  <2> QED
    BY <1>3, <2>1, ElsewhereFacts DEF Seen
<1>4. CASE StopGettingFrames
  BY <1>4 DEF StopGettingFrames, Seen
<1> QED
  BY <1>1, <1>2, <1>3, <1>4, Steps

-----------------------------------------------------------------------------
(***************************************************************************)
(* The sink's request.                                                     *)
(***************************************************************************)

\* There is a request when fAreDoingNetworkReads is set: pending or, when the
\* task is scheduled, answered; a frame is put together for a pending one only.
Requests ==
  /\ fAreDoingNetworkReads => (fNeedDelivery /\ ~task) \/ (~fNeedDelivery /\ task)
  /\ ~fAreDoingNetworkReads => ~fNeedDelivery /\ ~task /\ ~looping
  /\ task \/ ~fAreDoingNetworkReads => frame = <<>>
  /\ fNeedDelivery /\ ~looping /\ queue # <<>> => ~InSequence

LEMMA RequestsKept ==
  ASSUME TypeOK, Requests, [Next]_vars
  PROVE  Requests'
<1>1. ASSUME NEW p \in Packets, PacketArrives(p) PROVE Requests'
  BY <1>1 DEF PacketArrives, Requests, request, framing
<1>2. CASE Turns
  <2>1. looping /\ fNeedDelivery /\ UNCHANGED fAreDoingNetworkReads
    BY <1>2, TurnFacts
  <2>2. fAreDoingNetworkReads /\ ~task
    BY <2>1 DEF Requests
  <2>3. CASE UNCHANGED <<fNeedDelivery, task, looping>>
    BY <2>1, <2>2, <2>3 DEF Requests
  <2>4. CASE DeliverFrame
    <3>1. IF queue' = <<>> THEN fNeedDelivery' /\ ~task' /\ looping' ELSE ~fNeedDelivery' /\ task' /\ ~looping'
      BY <2>4 DEF DeliverFrame
    <3>2. frame' = <<>>
      BY <2>4 DEF DeliverFrame
    <3> QED
      BY <2>1, <2>2, <3>1, <3>2 DEF Requests
  <2> QED
    BY <1>2, <2>3, <2>4 DEF Turns, RejectHeader, RejectFragment, UseFragment
<1>3. CASE Elsewhere
  <2>1. UNCHANGED <<queue, InSequence>>
    BY <1>3, ElsewhereFacts DEF InSequence, Head1, SeqNo
  <2>2. CASE (\E p \in Packets : Age(p)) \/ PartArrives \/ UNCHANGED vars
    <3>1. UNCHANGED <<fAreDoingNetworkReads, fNeedDelivery, task, looping, frame>>
      BY <2>2 DEF Age, PartArrives, request, framing, vars, state
    <3> QED
      BY <2>1, <3>1 DEF Requests
  <2>3. CASE JunkArrives
    BY <2>3 DEF JunkArrives, Requests, request, framing
  <2>4. CASE Break
    <3>1. fNeedDelivery /\ queue # <<>> => ~InSequence
      BY <2>4 DEF Break, Completed
    <3>2. UNCHANGED <<fAreDoingNetworkReads, fNeedDelivery, task, frame>> /\ ~looping'
      BY <2>4 DEF Break, request, framing
    <3> QED
      BY <2>1, <3>1, <3>2 DEF Requests
  <2>5. CASE GetNextFrame \/ AfterGetting
    BY <2>5 DEF GetNextFrame, AfterGetting, Requests
  <2> QED
    BY <1>3, <2>2, <2>3, <2>4, <2>5 DEF Elsewhere
<1>4. CASE StopGettingFrames
  BY <1>4 DEF StopGettingFrames, Requests
<1> QED
  BY <1>1, <1>2, <1>3, <1>4, Steps

\* When the callback returns to the event loop, the request is pending, and the
\* packet that is awaited is not there, or the task is scheduled: no frame waits
\* in the queue for something that has happened before.
THEOREM NoWakeupLost == Spec => []NoLostWakeup
<1>1. Init => Requests
  BY DEF Init, Requests
<1>2. TypeOK /\ Requests /\ [Next]_vars => Requests'
  BY RequestsKept
<1>3. Requests => NoLostWakeup
  BY DEF Requests, NoLostWakeup
<1> QED
  BY <1>1, <1>2, <1>3, TypeCorrect, PTL DEF Spec

-----------------------------------------------------------------------------
(***************************************************************************)
(* The descriptor that is kept.                                            *)
(***************************************************************************)
InQueue == \E i \in DOMAIN queue : queue[i].saved

\* fSavedPacket is in one place of the queue, in fPacketReadInProgress or free.
Owner ==
  /\ \A i, j \in DOMAIN queue : queue[i].saved /\ queue[j].saved => i = j
  /\ InQueue => saved = "used" /\ reading # "saved"
  /\ reading = "saved" => saved = "used"
  /\ saved = "used" => reading = "saved" \/ InQueue

LEMMA OwnerKept ==
  ASSUME TypeOK, Owner, [Next]_vars
  PROVE  Owner'
<1>0. UNCHANGED source
  BY Steps
<1>1. ASSUME NEW p \in Packets, PacketArrives(p) PROVE Owner'
  <2>1. PICK seen \in BOOLEAN :
          /\ reading' = "none"
          /\ IF Refused(p, fNextExpectedSeqNo')
             THEN Free(FreePacket) /\ UNCHANGED <<queue, fTailPacket>>
             ELSE Take(FreePacket) /\ Link(p, FreePacket, ~seen)
    BY <1>1, ArriveFacts
  <2>2. /\ FreePacket = "saved" => ~InQueue
        /\ FreePacket # "saved" /\ saved = "used" => InQueue
    BY DEF FreePacket, Owner, TypeOK
  <2>3. CASE Free(FreePacket) /\ UNCHANGED queue
    BY <2>1, <2>2, <2>3 DEF Owner, InQueue, Free
  <2>4. CASE Take(FreePacket) /\ Link(p, FreePacket, ~seen)
    <3> DEFINE e == Entry(p, ~seen, FreePacket)
    <3>1. PICK k \in 0..Len(queue) :
            queue' \in Seq(Entries) /\ Inserted(queue', queue, e, k)
      BY <2>4, LinkInserts
    <3>2. e.saved <=> FreePacket = "saved"
      BY DEF Entry
    <3> HIDE DEF e
    <3>3. /\ DOMAIN queue' = 1..Len(queue) + 1 /\ Len(queue) \in Nat
          /\ \A i \in DOMAIN queue' :
               \/ i <= k /\ i \in 1..k /\ i \in DOMAIN queue /\ queue'[i] = queue[i]
               \/ i = k + 1 /\ queue'[i] = e
               \/ i > k + 1 /\ i - 1 \in k + 1..Len(queue) /\ i - 1 \in DOMAIN queue
                  /\ queue'[i] = queue[i - 1]
      <4>1. queue \in Seq(Entries)
        BY TypeFacts
      <4> DEFINE t == queue'
                 s == queue
      <4>2. t \in Seq(Entries) /\ s \in Seq(Entries) /\ k \in 0..Len(s) /\ Inserted(t, s, e, k)
        BY <3>1, <4>1
      <4> HIDE DEF t, s
      <4>3. /\ DOMAIN t = 1..Len(s) + 1 /\ Len(s) \in Nat
            /\ \A i \in DOMAIN t :
                 \/ i <= k /\ i \in 1..k /\ i \in DOMAIN s /\ t[i] = s[i]
                 \/ i = k + 1 /\ t[i] = e
                 \/ i > k + 1 /\ i - 1 \in k + 1..Len(s) /\ i - 1 \in DOMAIN s /\ t[i] = s[i - 1]
        BY <4>2, InsertedParts
      <4> QED
        BY <4>3 DEF t, s
    <3>4. \A i \in DOMAIN queue : \E j \in DOMAIN queue' : queue'[j] = queue[i]
      <4>1. queue \in Seq(Entries)
        BY TypeFacts
      <4> QED
        BY <3>1, <4>1, InsertedKeeps
    <3>5. k + 1 \in DOMAIN queue' /\ queue'[k + 1] = e /\ DOMAIN queue' \subseteq Nat
      BY <3>1, <3>3 DEF Inserted
    <3>6. CASE FreePacket = "saved"
      <4>1. \A i \in DOMAIN queue' : queue'[i].saved <=> i = k + 1
        BY <2>2, <3>2, <3>3, <3>5, <3>6 DEF InQueue
      <4>2. InQueue'
        BY <3>5, <4>1 DEF InQueue
      <4> QED
        BY <2>1, <2>4, <3>6, <4>1, <4>2 DEF Owner, Take
    <3>7. CASE FreePacket # "saved"
      <4>1. InQueue' <=> InQueue
        BY <3>2, <3>3, <3>4, <3>7 DEF InQueue
      <4>2. ASSUME NEW i \in DOMAIN queue', NEW j \in DOMAIN queue',
                   queue'[i].saved, queue'[j].saved
            PROVE  i = j
        <5>1. i # k + 1 /\ j # k + 1 /\ i \in Nat /\ j \in Nat
          BY <3>2, <3>5, <3>7, <4>2
        <5>2. \A a, b \in DOMAIN queue : queue[a].saved /\ queue[b].saved => a = b
          BY DEF Owner
        <5>3. CASE i <= k /\ j <= k
          BY <3>3, <4>2, <5>1, <5>2, <5>3
        <5>4. CASE i <= k /\ j > k + 1
          BY <3>3, <4>2, <5>1, <5>2, <5>4
        <5>5. CASE i > k + 1 /\ j <= k
          BY <3>3, <4>2, <5>1, <5>2, <5>5
        <5>6. CASE i > k + 1 /\ j > k + 1
          <6>1. i - 1 = j - 1
            BY <3>3, <4>2, <5>1, <5>2, <5>6
          <6> QED
            BY <5>1, <6>1
        <5> QED
          BY <3>3, <5>1, <5>3, <5>4, <5>5, <5>6
      <4>3. saved' = saved /\ reading' = "none" /\ (saved = "used" => InQueue)
        BY <2>1, <2>2, <2>4, <3>7 DEF Take
      <4> QED
        BY <4>1, <4>2, <4>3 DEF Owner
    <3> QED
      BY <3>6, <3>7
  <2> QED
    BY <2>1, <2>3, <2>4
<1>2. CASE Turns
  <2>1. queue # <<>> /\ (Release \/ Keep) /\ UNCHANGED reading
    BY <1>2, TurnFacts
  <2>2. CASE Release
    <3>1. queue' = Tail(queue) /\ saved' = IF queue[1].saved THEN "free" ELSE saved
      BY <2>2 DEF Release, Free
    <3>2. /\ 1 \in DOMAIN queue
          /\ \A i \in DOMAIN queue' :
               i \in Nat /\ i + 1 \in DOMAIN queue /\ queue'[i] = queue[i + 1] /\ i + 1 # 1
          /\ \A i \in DOMAIN queue \ {1} : i - 1 \in DOMAIN queue' /\ queue'[i - 1] = queue[i]
      <4>1. /\ 1 \in DOMAIN queue /\ DOMAIN queue' = 1..Len(queue) - 1 /\ Len(queue) \in Nat
            /\ \A i \in DOMAIN queue' :
                 i \in Nat /\ i + 1 \in DOMAIN queue /\ queue'[i] = queue[i + 1]
            /\ \A i \in DOMAIN queue \ {1} : i - 1 \in DOMAIN queue' /\ i \in Nat /\ i > 1
        BY <2>1, <3>1, HeadFacts
      <4> HIDE <3>1
      <4>2. \A i \in DOMAIN queue' : i + 1 # 1
        BY <4>1
      <4>3. \A i \in DOMAIN queue \ {1} : (i - 1) + 1 = i
        BY <4>1
      <4> QED
        BY <4>1, <4>2, <4>3
    <3>3. \A i, j \in DOMAIN queue' : queue'[i].saved /\ queue'[j].saved => i = j
      <4> SUFFICES ASSUME NEW i \in DOMAIN queue', NEW j \in DOMAIN queue',
                          queue'[i].saved, queue'[j].saved
                   PROVE  i = j
        OBVIOUS
      <4>1. i + 1 = j + 1 /\ i \in Nat /\ j \in Nat
        BY <3>2 DEF Owner
      <4> QED
        BY <4>1
    <3>4. CASE queue[1].saved
      <4>1. ~InQueue' /\ InQueue
        BY <3>2, <3>4 DEF InQueue, Owner
      <4> QED
        BY <2>1, <3>1, <3>3, <3>4, <4>1 DEF Owner
    <3>5. CASE ~queue[1].saved
      <4>1. InQueue' <=> InQueue
        BY <3>2, <3>5 DEF InQueue
      <4> QED
        BY <2>1, <3>1, <3>3, <3>5, <4>1 DEF Owner
    <3> QED
      BY <3>4, <3>5
  <2>3. CASE Keep
    <3>1. /\ DOMAIN queue' = DOMAIN queue /\ saved' = saved
          /\ \A i \in DOMAIN queue : queue'[i].saved = queue[i].saved
      BY <1>0, <2>1, <2>3, KeepFacts DEF Keep
    <3>2. InQueue' <=> InQueue
      BY <3>1 DEF InQueue
    <3> QED
      BY <2>1, <3>1, <3>2 DEF Owner
  <2> QED
    BY <2>1, <2>2, <2>3
<1>3. CASE Elsewhere
  <2>1. UNCHANGED <<queue, InQueue>>
    BY <1>3, ElsewhereFacts DEF InQueue
  <2>2. CASE PartArrives
    BY <2>1, <2>2 DEF PartArrives, Take, FreePacket, Owner, TypeOK
  <2>3. CASE JunkArrives
    BY <2>1, <2>3 DEF JunkArrives, Free, FreePacket, Owner, TypeOK
  <2>4. CASE UNCHANGED pool
    BY <2>1, <2>4 DEF Owner, pool
  <2> QED
    BY <1>3, <2>2, <2>3, <2>4 DEF Elsewhere, Age, Break, GetNextFrame, AfterGetting, vars, state
<1>4. CASE StopGettingFrames
  <2>1. queue' = <<>> /\ saved' = "null" /\ reading' = "none"
    BY <1>4 DEF StopGettingFrames
  <2>2. DOMAIN queue' = {}
    BY <2>1
  <2> QED
    BY <2>1, <2>2 DEF Owner, InQueue
<1> QED
  BY <1>1, <1>2, <1>3, <1>4, Steps

LEMMA OwnerOnce ==
  ASSUME TypeOK, Owner
  PROVE  SavedOnce
<1> DEFINE Where == {i \in DOMAIN queue : queue[i].saved}
<1>1. CASE InQueue
  <2>1. PICK i \in DOMAIN queue : queue[i].saved
    BY <1>1 DEF InQueue
  <2>2. Where = {i}
    BY <2>1 DEF Owner
  <2>3. Cardinality(Where) = 1
    BY <2>2, FS_Singleton
  <2> QED
    BY <1>1, <2>3 DEF SavedOnce, Owner
<1>2. CASE ~InQueue
  <2>1. Where = {}
    BY <1>2 DEF InQueue
  <2>2. Cardinality(Where) = 0
    BY <2>1, FS_EmptySet
  <2> QED
    BY <1>2, <2>2 DEF SavedOnce, Owner
<1> QED
  BY <1>1, <1>2

-----------------------------------------------------------------------------
(***************************************************************************)
(* The order of the queue.                                                 *)
(***************************************************************************)

\* While the SSRC does not change: the queue holds packets from the awaited one on,
\* less than half of the sequence numbers away, in their order; only the awaited
\* one has been used, and only it can be the first of its stream to arrive.
Line ==
  OneSource =>
  /\ fHaveSeenFirstPacket => fNextExpectedSeqNo = (base[1] + awaited) % SeqNos
  /\ \A i \in DOMAIN queue :
       /\ queue[i].packet.stream = 1
       /\ awaited <= queue[i].packet.n /\ queue[i].packet.n < awaited + Half
       /\ queue[i].useCount > 0 \/ queue[i].first => i = 1 /\ queue[i].packet.n = awaited
  /\ \A i, j \in DOMAIN queue : i < j => queue[i].packet.n < queue[j].packet.n
  /\ queue # <<>> => fTailPacket = queue[Len(queue)].packet

\* Packets of the first stream that are near each other compare as their sequence
\* numbers do.
LEMMA Compare ==
  ASSUME TypeOK, NEW p \in Packets, NEW q \in Packets, p.stream = 1, q.stream = 1,
         p.n - q.n < Half, q.n - p.n < Half
  PROVE  /\ SeqNumLT(SeqNo(p), SeqNo(q)) <=> p.n < q.n
         /\ SeqNo(p) = SeqNo(q) <=> p.n = q.n
<1>1. base[1] \in Nat /\ p.n \in Nat /\ q.n \in Nat
  BY PacketFacts
<1> DEFINE a == base[1] + p.n
           b == base[1] + q.n
<1>2. a \in Nat /\ b \in Nat /\ a - b < Half /\ b - a < Half
  BY <1>1, Halves
<1>3. /\ SeqNumLT(a % SeqNos, b % SeqNos) <=> a < b
      /\ a % SeqNos = b % SeqNos <=> a = b
  <2> HIDE DEF a, b
  <2> QED
    BY <1>2, Wraps
<1>4. (a < b <=> p.n < q.n) /\ (a = b <=> p.n = q.n)
  BY <1>1
<1> QED
  BY <1>3, <1>4 DEF SeqNo

\* So do a packet near the awaited one and fNextExpectedSeqNo.
LEMMA CompareAwaited ==
  ASSUME TypeOK, OneSource, Line, fHaveSeenFirstPacket,
         NEW p \in Packets, p.stream = 1, p.n - awaited < Half, awaited - p.n < Half
  PROVE  /\ SeqNumLT(SeqNo(p), fNextExpectedSeqNo) <=> p.n < awaited
         /\ SeqNo(p) = fNextExpectedSeqNo <=> p.n = awaited
<1>1. base[1] \in Nat /\ p.n \in Nat /\ awaited \in Nat
  BY PacketFacts, TypeFacts
<1> DEFINE a == base[1] + p.n
           b == base[1] + awaited
<1>2. a \in Nat /\ b \in Nat /\ a - b < Half /\ b - a < Half
  BY <1>1, Halves
<1>3. /\ SeqNumLT(a % SeqNos, b % SeqNos) <=> a < b
      /\ a % SeqNos = b % SeqNos <=> a = b
  <2> HIDE DEF a, b
  <2> QED
    BY <1>2, Wraps
<1>4. (a < b <=> p.n < awaited) /\ (a = b <=> p.n = awaited)
  BY <1>1
<1> QED
  BY <1>3, <1>4 DEF SeqNo, Line

\* What is queued, as packets.
LEMMA LineFacts ==
  ASSUME TypeOK, OneSource, Line, NEW i \in DOMAIN queue
  PROVE  /\ queue[i] \in Entries /\ queue[i].packet \in Packets /\ queue[i].packet.stream = 1
         /\ queue[i].packet.n \in Nat /\ queue[i].useCount \in Nat
         /\ awaited <= queue[i].packet.n /\ queue[i].packet.n < awaited + Half
<1>1. queue[i] \in Entries
  BY TypeFacts, ElementOfSeq
<1>2. queue[i].packet \in Packets /\ queue[i].useCount \in Nat
  BY <1>1 DEF Entries
<1> QED
  BY <1>1, <1>2, PacketFacts DEF Line

\* The first packet of a stream that arrives is all there is in the queue.
FirstPacket(p) ==
  /\ ~fHaveSeenFirstPacket /\ queue = <<>> /\ frame = <<>> /\ delivered = <<>>
  /\ DOMAIN queue' = {1} /\ queue' # <<>> /\ Len(queue') = 1
  /\ queue'[1] = Entry(p, TRUE, FreePacket)
  /\ awaited' = p.n /\ fNextExpectedSeqNo' = SeqNo(p) /\ fTailPacket' = p

\* A packet is queued behind the first k, where its number belongs.
Queues(p, k) ==
  /\ queue' \in Seq(Entries) /\ Inserted(queue', queue, Entry(p, FALSE, FreePacket), k)
  /\ awaited <= p.n /\ p.n < awaited + Half
  /\ \A i \in 1..k : queue[i].packet.n < p.n
  /\ \A i \in k + 1..Len(queue) : p.n < queue[i].packet.n
  /\ fTailPacket' = IF k = Len(queue) THEN p ELSE fTailPacket

LEMMA ArriveLine ==
  ASSUME TypeOK, Seen, Line, NEW p \in Packets, PacketArrives(p), OneSource'
  PROVE  /\ OneSource /\ p.stream = 1 /\ fHaveSeenFirstPacket'
         /\ \/ FirstPacket(p)
            \/ /\ fHaveSeenFirstPacket /\ UNCHANGED <<awaited, fNextExpectedSeqNo>>
               /\ \/ UNCHANGED <<queue, fTailPacket>>
                  \/ \E k \in 0..Len(queue) : Queues(p, k)
<1>1. PICK seen \in BOOLEAN :
        /\ seen <=> fHaveSeenFirstPacket /\ p.stream = ssrc
        /\ fHaveSeenFirstPacket' = TRUE /\ ssrc' = p.stream
        /\ fNextExpectedSeqNo' = (IF seen THEN fNextExpectedSeqNo ELSE SeqNo(p))
        /\ awaited' = (IF seen THEN awaited ELSE p.n)
        /\ IF Refused(p, fNextExpectedSeqNo')
           THEN UNCHANGED <<queue, fTailPacket>>
           ELSE Link(p, FreePacket, ~seen)
  BY ArriveFacts
<1>2. /\ p.n \in Nat /\ p.stream \in Nat \ {0} /\ p.stream \in {ssrc, ssrc + 1}
      /\ ssrc \in Nat /\ Half \in Nat \ {0} /\ SeqNo(p) \in Int
  <2>1. ssrc \in {0} \cup Streams /\ \A s \in Streams : s \in Nat
    <3>1. source \in Seq(Seq(Payloads))
      BY SourcesAssumption DEF TypeOK
    <3> QED
      BY <3>1, LenProperties DEF TypeOK, Streams
  <2> QED
    BY <2>1, PacketFacts, Halves DEF PacketArrives
<1>3. OneSource /\ p.stream = 1
  BY <1>1, <1>2 DEF OneSource
<1>4. CASE ~fHaveSeenFirstPacket
  <2>1. queue = <<>> /\ frame = <<>> /\ delivered = <<>> /\ ~seen
    BY <1>1, <1>4 DEF Seen
  <2>2. ~SeqNumLT(SeqNo(p), SeqNo(p)) /\ InOrder(SeqNo(p))
    BY <1>2, <2>1 DEF SeqNumLT, InOrder
  <2>3. Link(p, FreePacket, TRUE)
    BY <1>1, <2>1, <2>2 DEF Refused, TooLate
  <2>4. PICK k \in 0..Len(queue) :
          /\ queue' \in Seq(Entries) /\ Inserted(queue', queue, Entry(p, TRUE, FreePacket), k)
          /\ fTailPacket' = p
    BY <2>2, <2>3, LinkInserts
  <2>5. Len(queue) = 0 /\ k = 0
    BY <2>1, <2>4
  <2>6. Len(queue') = 1 /\ DOMAIN queue' = {1} /\ queue'[1] = Entry(p, TRUE, FreePacket)
    <3>1. Len(queue') = Len(queue) + 1 /\ queue'[k + 1] = Entry(p, TRUE, FreePacket)
      BY <2>4 DEF Inserted
    <3>2. Len(queue') = 1 /\ k + 1 = 1
      BY <2>5, <3>1
    <3>3. DOMAIN queue' = 1..Len(queue')
      BY <2>4, LenProperties
    <3>4. DOMAIN queue' = {1}
      BY <3>2, <3>3
    <3> QED
      BY <3>1, <3>2, <3>4
  <2>7. queue' # <<>>
    BY <2>6
  <2> QED
    BY <1>1, <1>3, <1>4, <2>1, <2>4, <2>6, <2>7 DEF FirstPacket
<1>5. CASE fHaveSeenFirstPacket
  <2>1. ssrc = 1 /\ seen
    BY <1>1, <1>2, <1>3, <1>5 DEF Seen, OneSource
  <2>2. p.n - awaited < Half /\ awaited - p.n < Half /\ awaited \in Nat
    BY <1>3, <1>5, <2>1, TypeFacts DEF PacketArrives, MayArrive
  <2>3. SeqNumLT(SeqNo(p), fNextExpectedSeqNo) <=> p.n < awaited
    BY <1>3, <1>5, <2>2, CompareAwaited
  <2>4. CASE UNCHANGED <<queue, fTailPacket>>
    BY <1>1, <1>3, <1>5, <2>1, <2>4
  <2>5. CASE ~Refused(p, fNextExpectedSeqNo) /\ Link(p, FreePacket, FALSE)
    <3>1. awaited <= p.n /\ p.n < awaited + Half
      BY <1>2, <2>2, <2>3, <2>5 DEF Refused, TooLate
    <3>2. ASSUME NEW i \in DOMAIN queue
          PROVE  /\ queue[i].packet.n \in Nat
                 /\ SeqNumLT(SeqNo(p), SeqNo(queue[i].packet)) <=> p.n < queue[i].packet.n
                 /\ SeqNumLT(SeqNo(queue[i].packet), SeqNo(p)) <=> queue[i].packet.n < p.n
                 /\ SeqNo(queue[i].packet) = SeqNo(p) <=> queue[i].packet.n = p.n
      <4>1. /\ queue[i].packet \in Packets /\ queue[i].packet.stream = 1
            /\ queue[i].packet.n \in Nat
            /\ awaited <= queue[i].packet.n /\ queue[i].packet.n < awaited + Half
        BY <1>3, LineFacts
      <4>2. p.n - queue[i].packet.n < Half /\ queue[i].packet.n - p.n < Half
        BY <1>2, <2>2, <3>1, <4>1
      <4> QED
        BY <1>3, <4>1, <4>2, Compare
    <3>3. /\ DOMAIN queue = 1..Len(queue) /\ Len(queue) \in Nat
          /\ queue # <<>> => Len(queue) \in DOMAIN queue /\ fTailPacket = queue[Len(queue)].packet
          /\ \A i, j \in DOMAIN queue : i < j => queue[i].packet.n < queue[j].packet.n
      <4>1. DOMAIN queue = 1..Len(queue) /\ Len(queue) \in Nat
        BY TypeFacts
      <4>2. queue # <<>> => Len(queue) \in DOMAIN queue
        BY <4>1, TypeFacts, EmptySeq
      <4> QED
        BY <1>3, <4>1, <4>2 DEF Line
    <3>4. PICK k \in 0..Len(queue) :
            /\ queue' \in Seq(Entries) /\ Inserted(queue', queue, Entry(p, FALSE, FreePacket), k)
            /\ \/ InOrder(SeqNo(p)) /\ k = Len(queue) /\ fTailPacket' = p
               \/ /\ ~InOrder(SeqNo(p)) /\ ~Duplicate(SeqNo(p)) /\ k = Position(SeqNo(p))
                  /\ fTailPacket' = fTailPacket
      BY <2>5, LinkInserts
    <3> DEFINE m == Len(queue)
    <3> HIDE DEF m
    <3>5. CASE InOrder(SeqNo(p)) /\ k = m /\ fTailPacket' = p
      <4>1. ASSUME NEW i \in 1..k PROVE queue[i].packet.n < p.n
        <5>1. i \in DOMAIN queue /\ queue # <<>> /\ m \in DOMAIN queue /\ i <= m /\ i \in Nat
              /\ fTailPacket = queue[m].packet
          BY <3>3, <3>5 DEF m
        <5>2. queue[m].packet.n < p.n
          BY <3>2, <3>5, <5>1 DEF InOrder
        <5>3. i = m \/ queue[i].packet.n < queue[m].packet.n
          BY <3>3, <5>1
        <5> QED
          BY <1>2, <3>2, <5>1, <5>2, <5>3
      <4>2. k + 1..Len(queue) = {}
        BY <3>3, <3>5 DEF m
      <4> QED
        BY <1>1, <1>3, <1>5, <2>1, <3>1, <3>4, <3>5, <4>1, <4>2 DEF Queues, m
    <3>6. CASE /\ ~InOrder(SeqNo(p)) /\ ~Duplicate(SeqNo(p)) /\ k = Position(SeqNo(p))
               /\ fTailPacket' = fTailPacket
      <4>0. k \in Nat /\ k <= m /\ m \in Nat /\ DOMAIN queue = 1..m
        BY <3>3, <3>4 DEF m
      <4>1. ASSUME NEW i \in 1..k PROVE queue[i].packet.n < p.n
        <5>1. i \in DOMAIN queue
          BY <4>0
        <5>2. ~SeqNumLT(SeqNo(p), SeqNo(queue[i].packet)) /\ SeqNo(queue[i].packet) # SeqNo(p)
          BY <3>6, PositionFound DEF Duplicate
        <5> QED
          BY <1>2, <3>2, <5>1, <5>2
      <4>2. queue # <<>> /\ m \in DOMAIN queue /\ ~(queue[m].packet.n < p.n)
        <5>1. queue # <<>> /\ ~SeqNumLT(SeqNo(fTailPacket), SeqNo(p))
          BY <3>6 DEF InOrder
        <5> QED
          BY <3>2, <3>3, <5>1 DEF m
      <4>3. k # m
        <5>1. k = m => m \in 1..k
          BY <3>3, <4>0, <4>2
        <5> QED
          BY <4>1, <4>2, <5>1
      <4>4. k + 1 \in DOMAIN queue /\ p.n < queue[k + 1].packet.n
        <5>1. k + 1 \in DOMAIN queue
          BY <4>0, <4>3
        <5>2. SeqNumLT(SeqNo(p), SeqNo(queue[k + 1].packet))
          BY <3>6, <4>3, PositionFound DEF m
        <5> QED
          BY <3>2, <5>1, <5>2
      <4>5. ASSUME NEW i \in k + 1..m PROVE p.n < queue[i].packet.n
        <5>1. i \in DOMAIN queue /\ i \in Nat /\ (i = k + 1 \/ k + 1 < i)
          BY <4>0
        <5>2. i = k + 1 \/ queue[k + 1].packet.n < queue[i].packet.n
          BY <3>3, <4>4, <5>1
        <5>3. queue[i].packet.n \in Nat /\ queue[k + 1].packet.n \in Nat
          BY <3>2, <4>4, <5>1
        <5> QED
          BY <1>2, <4>4, <5>2, <5>3
      <4> QED
        BY <1>1, <1>3, <1>5, <2>1, <3>1, <3>4, <3>6, <4>1, <4>3, <4>5 DEF Queues, m
    <3> QED
      BY <3>4, <3>5, <3>6 DEF m
  <2> QED
    BY <1>1, <2>1, <2>4, <2>5
<1> QED
  BY <1>4, <1>5

\* What turns of the loop do to the list, while the SSRC does not change.
LEMMA ReleaseLine ==
  ASSUME TypeOK, OneSource, Line, queue # <<>>, Release
  PROVE  /\ awaited' = Head1.n + 1 /\ awaited <= Head1.n /\ Head1.n \in Nat /\ Head1.stream = 1
         /\ Head1 \in Packets /\ queue[1].useCount \in Nat
         /\ \A i \in DOMAIN queue' :
              /\ i \in Nat \ {0} /\ i + 1 \in DOMAIN queue /\ queue'[i] = queue[i + 1]
              /\ queue'[i].packet.n \in Nat
              /\ Head1.n < queue'[i].packet.n /\ queue'[i].useCount = 0 /\ ~queue'[i].first
<1>1. queue' = Tail(queue) /\ awaited' = Head1.n + 1
  BY DEF Release
<1>2. /\ 1 \in DOMAIN queue /\ DOMAIN queue' = 1..Len(queue) - 1 /\ Len(queue) \in Nat \ {0}
      /\ \A i \in DOMAIN queue' : i \in Nat /\ i + 1 \in DOMAIN queue /\ queue'[i] = queue[i + 1]
  BY <1>1, HeadFacts
<1>3. /\ Head1 \in Packets /\ Head1.n \in Nat /\ Head1.stream = 1 /\ awaited <= Head1.n
      /\ queue[1].useCount \in Nat
  BY <1>2, LineFacts DEF Head1
<1>4. ASSUME NEW i \in DOMAIN queue'
      PROVE  /\ i \in Nat \ {0} /\ i + 1 \in DOMAIN queue /\ queue'[i] = queue[i + 1]
             /\ queue'[i].packet.n \in Nat
             /\ Head1.n < queue'[i].packet.n /\ queue'[i].useCount = 0 /\ ~queue'[i].first
  <2>1. i \in Nat \ {0} /\ i + 1 \in DOMAIN queue /\ queue'[i] = queue[i + 1] /\ 1 < i + 1
    BY <1>2
  <2>2. queue[i + 1].packet.n \in Nat /\ queue[i + 1].useCount \in Nat
    BY <2>1, LineFacts
  <2>3. Head1.n < queue[i + 1].packet.n
    BY <1>2, <2>1 DEF Line, Head1
  <2>4. ~(queue[i + 1].useCount > 0) /\ ~queue[i + 1].first
    BY <2>1 DEF Line
  <2> QED
    BY <2>1, <2>2, <2>3, <2>4
<1> QED
  BY <1>1, <1>3, <1>4

LEMMA LineKept ==
  ASSUME TypeOK, Seen, Line, [Next]_vars
  PROVE  Line'
<1>0. UNCHANGED source
  BY Steps
<1> SUFFICES ASSUME OneSource' PROVE Line'
  BY DEF Line
<1>1. Half \in Nat \ {0} /\ SeqNos \in Nat /\ awaited \in Nat
  BY Halves, TypeFacts
<1>2. ASSUME NEW p \in Packets, PacketArrives(p) PROVE Line'
  <2>1. p.stream = 1 /\ p.n \in Nat /\ base' = base /\ OneSource
    BY <1>2, ArriveLine, PacketFacts DEF PacketArrives
  <2>2. CASE FirstPacket(p)
    <3>1. /\ queue'[1].packet = p /\ queue'[1].useCount = 0
      BY <2>2 DEF FirstPacket, Entry
    <3>2. \A i \in DOMAIN queue' : i = 1
      BY <2>2 DEF FirstPacket
    <3>3. fNextExpectedSeqNo' = (base'[1] + awaited') % SeqNos
      BY <2>1, <2>2 DEF FirstPacket, SeqNo
    <3>4. awaited' = p.n /\ Len(queue') = 1 /\ fTailPacket' = p
      BY <2>2 DEF FirstPacket
    <3> QED
      BY <1>1, <2>1, <3>1, <3>2, <3>3, <3>4 DEF Line
  <2>3. CASE UNCHANGED <<queue, fTailPacket, awaited, fNextExpectedSeqNo>> /\ fHaveSeenFirstPacket
    BY <2>1, <2>3 DEF Line
  <2>4. ASSUME fHaveSeenFirstPacket, UNCHANGED <<awaited, fNextExpectedSeqNo>>,
               NEW k \in 0..Len(queue), Queues(p, k)
        PROVE  Line'
    <3> DEFINE e == Entry(p, FALSE, FreePacket)
               m == Len(queue)
    <3>1. e.packet = p /\ e.useCount = 0 /\ ~e.first
      BY DEF Entry
    <3>2. /\ Inserted(queue', queue, e, k) /\ queue' \in Seq(Entries) /\ queue \in Seq(Entries)
          /\ awaited <= p.n /\ p.n < awaited + Half
          /\ \A i \in 1..k : queue[i].packet.n < p.n
          /\ \A i \in k + 1..m : p.n < queue[i].packet.n
          /\ fTailPacket' = IF k = m THEN p ELSE fTailPacket
      BY <2>4, TypeFacts DEF Queues
    <3> HIDE DEF e
    <3>3. /\ DOMAIN queue' = 1..m + 1 /\ m \in Nat /\ k \in Nat /\ k <= m
          /\ Len(queue') = m + 1 /\ queue' # <<>> /\ DOMAIN queue = 1..m
          /\ \A i \in DOMAIN queue' :
               \/ i <= k /\ i \in 1..k /\ i \in DOMAIN queue /\ queue'[i] = queue[i]
               \/ i = k + 1 /\ queue'[i] = e
               \/ i > k + 1 /\ i - 1 \in k + 1..m /\ i - 1 \in DOMAIN queue
                  /\ queue'[i] = queue[i - 1]
      <4>1. Len(queue') = m + 1 /\ m \in Nat /\ k \in Nat /\ k <= m /\ DOMAIN queue = 1..m
        <5>1. Len(queue) \in Nat /\ DOMAIN queue = 1..Len(queue)
          BY <3>2
        <5>2. Len(queue') = Len(queue) + 1
          BY <3>2 DEF Inserted
        <5>3. k \in Nat /\ k <= Len(queue)
          BY <5>1
        <5> QED
          BY <5>1, <5>2, <5>3
      <4>2. /\ DOMAIN queue' = 1..m + 1 /\ queue' # <<>>
            /\ \A i \in DOMAIN queue' :
                 \/ i <= k /\ i \in 1..k /\ i \in DOMAIN queue /\ queue'[i] = queue[i]
                 \/ i = k + 1 /\ queue'[i] = e
                 \/ i > k + 1 /\ i - 1 \in k + 1..m /\ i - 1 \in DOMAIN queue
                    /\ queue'[i] = queue[i - 1]
        <5>1. Inserted(queue', queue, e, k) /\ queue' \in Seq(Entries) /\ queue \in Seq(Entries)
          BY <3>2
        <5> QED
          BY <5>1, InsertedParts
      <4> QED
        BY <4>1, <4>2
    <3> HIDE DEF m
    <3>4. \A i \in DOMAIN queue :
            /\ queue[i].packet.stream = 1 /\ queue[i].packet.n \in Nat
            /\ awaited <= queue[i].packet.n /\ queue[i].packet.n < awaited + Half
      BY <2>1, LineFacts
    <3>5. \A i, j \in DOMAIN queue : i < j => queue[i].packet.n < queue[j].packet.n
      BY <2>1 DEF Line
    <3>6. \A i \in DOMAIN queue : queue[i].useCount > 0 \/ queue[i].first
                                    => i = 1 /\ queue[i].packet.n = awaited
      BY <2>1 DEF Line
    <3>7. ASSUME NEW i \in DOMAIN queue'
          PROVE  /\ queue'[i].packet.stream = 1 /\ queue'[i].packet.n \in Nat
                 /\ awaited <= queue'[i].packet.n /\ queue'[i].packet.n < awaited + Half
                 /\ queue'[i].useCount > 0 \/ queue'[i].first
                      => i = 1 /\ queue'[i].packet.n = awaited
      <4>1. CASE i \in DOMAIN queue /\ queue'[i] = queue[i]
        BY <3>4, <3>6, <4>1
      <4>2. CASE queue'[i] = e
        BY <2>1, <3>1, <3>2, <4>2
      <4>3. CASE i - 1 \in k + 1..m /\ i - 1 \in DOMAIN queue /\ queue'[i] = queue[i - 1]
        <5>1. p.n < queue[i - 1].packet.n
          BY <3>2, <4>3
        <5>2. ~(queue[i - 1].packet.n = awaited)
          BY <1>1, <2>1, <3>2, <3>4, <4>3, <5>1
        <5> QED
          BY <3>4, <3>6, <4>3, <5>2
      <4> QED
        BY <3>3, <4>1, <4>2, <4>3
    <3>8. ASSUME NEW i \in DOMAIN queue', NEW j \in DOMAIN queue', i < j
          PROVE  queue'[i].packet.n < queue'[j].packet.n
      <4>1. i \in Nat /\ j \in Nat
        BY <3>3
      <4>2. \/ i <= k /\ i \in 1..k /\ i \in DOMAIN queue /\ queue'[i] = queue[i]
            \/ i = k + 1 /\ queue'[i] = e
            \/ i > k + 1 /\ i - 1 \in k + 1..m /\ i - 1 \in DOMAIN queue
               /\ queue'[i] = queue[i - 1]
        BY <3>3
      <4>3. \/ j <= k /\ j \in 1..k /\ j \in DOMAIN queue /\ queue'[j] = queue[j]
            \/ j = k + 1 /\ queue'[j] = e
            \/ j > k + 1 /\ j - 1 \in k + 1..m /\ j - 1 \in DOMAIN queue
               /\ queue'[j] = queue[j - 1]
        BY <3>3
      <4>4. CASE i = k + 1
        <5>1. j > k + 1
          BY <3>8, <4>1, <4>4, <3>3
        <5>2. queue'[j] = queue[j - 1] /\ j - 1 \in k + 1..m
          BY <3>3, <4>1, <4>3, <5>1
        <5> QED
          BY <3>1, <3>2, <4>2, <4>4, <5>2, <3>3
      <4>5. CASE i > k + 1
        <5>1. j > k + 1 /\ i - 1 < j - 1
          BY <3>3, <3>8, <4>1, <4>5
        <5> QED
          BY <3>3, <3>5, <4>1, <4>2, <4>3, <4>5, <5>1
      <4>6. CASE i <= k
        <5>1. queue'[i] = queue[i] /\ i \in DOMAIN queue /\ queue[i].packet.n < p.n
          BY <3>2, <3>3, <4>1, <4>2, <4>6
        <5>2. CASE j <= k
          BY <3>3, <3>5, <3>8, <4>1, <4>3, <5>1, <5>2
        <5>3. CASE j = k + 1
          BY <3>1, <3>3, <4>1, <4>3, <5>1, <5>3
        <5>4. CASE j > k + 1
          <6>1. queue'[j] = queue[j - 1] /\ j - 1 \in DOMAIN queue /\ p.n < queue[j - 1].packet.n
            BY <3>2, <3>3, <4>1, <4>3, <5>4
          <6> QED
            BY <2>1, <3>4, <5>1, <6>1
        <5> QED
          BY <3>3, <4>1, <5>2, <5>3, <5>4
      <4> QED
        BY <3>3, <4>1, <4>4, <4>5, <4>6
    <3>9. fTailPacket' = queue'[Len(queue')].packet
      <4>1. CASE k = m
        BY <3>1, <3>2, <3>3, <4>1 DEF Inserted
      <4>2. CASE k # m
        <5>1. queue # <<>> /\ m \in k + 1..m
          BY <3>3, <4>2
        <5>2. fTailPacket = queue[m].packet
          BY <2>1, <5>1 DEF Line, m
        <5>3. queue'[m + 1] = queue[m]
          BY <3>2, <5>1 DEF Inserted, m
        <5> QED
          BY <3>2, <3>3, <4>2, <5>2, <5>3
      <4> QED
        BY <4>1, <4>2
    <3>10. fNextExpectedSeqNo' = (base'[1] + awaited') % SeqNos
      BY <2>1, <2>4 DEF Line
    <3>11. awaited' = awaited
      BY <2>4
    <3> QED
      BY <3>7, <3>8, <3>9, <3>10, <3>11 DEF Line
  <2> QED
    BY <1>2, <2>2, <2>3, <2>4, ArriveLine
<1>3. CASE Turns
  <2>1. queue # <<>> /\ (Release \/ Keep) /\ OneSource /\ base' = base
    BY <1>3, TurnFacts DEF OneSource
  <2>2. CASE Release
    <3>1. /\ awaited' = Head1.n + 1 /\ awaited <= Head1.n /\ Head1.n \in Nat /\ Head1.stream = 1
          /\ Head1 \in Packets
          /\ \A i \in DOMAIN queue' :
               /\ i \in Nat \ {0} /\ i + 1 \in DOMAIN queue /\ queue'[i] = queue[i + 1]
               /\ queue'[i].packet.n \in Nat
               /\ Head1.n < queue'[i].packet.n /\ queue'[i].useCount = 0 /\ ~queue'[i].first
      BY <2>1, <2>2, ReleaseLine
    <3>2. fNextExpectedSeqNo' = (base'[1] + awaited') % SeqNos
      <4>1. base[1] \in Nat /\ base[1] + Head1.n \in Nat /\ base[1] + (Head1.n + 1) = (base[1] + Head1.n) + 1
        BY <3>1, PacketFacts
      <4>2. Successor((base[1] + Head1.n) % SeqNos) = ((base[1] + Head1.n) + 1) % SeqNos
        BY <4>1, NextWraps
      <4>3. fNextExpectedSeqNo' = Successor((base[1] + Head1.n) % SeqNos)
        BY <2>2, <3>1 DEF Release, SeqNo
      <4> QED
        BY <2>1, <3>1, <4>1, <4>2, <4>3
    <3>3. ASSUME NEW i \in DOMAIN queue'
          PROVE  /\ queue'[i].packet.stream = 1
                 /\ awaited' <= queue'[i].packet.n /\ queue'[i].packet.n < awaited' + Half
                 /\ ~(queue'[i].useCount > 0 \/ queue'[i].first)
      <4>1. i + 1 \in DOMAIN queue /\ queue'[i] = queue[i + 1] /\ Head1.n < queue'[i].packet.n
            /\ queue'[i].useCount = 0 /\ ~queue'[i].first /\ queue'[i].packet.n \in Nat
        BY <3>1
      <4>2. queue[i + 1].packet.stream = 1 /\ queue[i + 1].packet.n < awaited + Half
        BY <2>1, <4>1, LineFacts
      <4> QED
        BY <1>1, <3>1, <4>1, <4>2
    <3>4. ASSUME NEW i \in DOMAIN queue', NEW j \in DOMAIN queue', i < j
          PROVE  queue'[i].packet.n < queue'[j].packet.n
      <4>1. i + 1 < j + 1 /\ i + 1 \in DOMAIN queue /\ j + 1 \in DOMAIN queue
            /\ queue'[i] = queue[i + 1] /\ queue'[j] = queue[j + 1]
        BY <3>1, <3>4
      <4> QED
        BY <2>1, <4>1 DEF Line
    <3>5. queue' # <<>> => fTailPacket' = queue'[Len(queue')].packet
      <4> SUFFICES ASSUME queue' # <<>> PROVE fTailPacket' = queue'[Len(queue')].packet
        OBVIOUS
      <4>1. queue' = Tail(queue) /\ fTailPacket' = fTailPacket
        BY <2>2 DEF Release
      <4> DEFINE m == Len(queue)
      <4>2. Len(queue') = m - 1 /\ m \in Nat /\ queue' \in Seq(Entries) /\ DOMAIN queue' = 1..m - 1
        BY <2>1, <4>1, HeadFacts
      <4>3. Len(queue') # 0
        BY <4>2, EmptySeq
      <4>4. fTailPacket = queue[m].packet
        BY <2>1 DEF Line
      <4> HIDE DEF m
      <4>5. m - 1 \in DOMAIN queue' /\ (m - 1) + 1 = m
        BY <4>2, <4>3
      <4> QED
        BY <3>1, <4>1, <4>2, <4>4, <4>5
    <3> QED
      BY <3>2, <3>3, <3>4, <3>5 DEF Line
  <2>3. CASE Keep
    <3>1. /\ Len(queue') = Len(queue) /\ DOMAIN queue' = DOMAIN queue /\ 1 \in DOMAIN queue
          /\ DOMAIN queue \subseteq Nat \ {0}
          /\ \A i \in DOMAIN queue : /\ queue'[i].packet = queue[i].packet
                                     /\ i # 1 => queue'[i] = queue[i]
      BY <1>0, <2>1, <2>3, KeepFacts, HeadFacts, TypeFacts
    <3>2. awaited' = Head1.n /\ fNextExpectedSeqNo' = SeqNo(Head1) /\ fTailPacket' = fTailPacket
      BY <2>3 DEF Keep
    <3>3. Head1 = queue[1].packet /\ Head1.stream = 1 /\ Head1.n \in Nat /\ awaited <= Head1.n
      BY <2>1, <3>1, LineFacts DEF Head1
    <3>4. fNextExpectedSeqNo' = (base'[1] + awaited') % SeqNos
      BY <2>1, <3>2, <3>3 DEF SeqNo
    <3>5. ASSUME NEW i \in DOMAIN queue'
          PROVE  /\ queue'[i].packet.stream = 1
                 /\ awaited' <= queue'[i].packet.n /\ queue'[i].packet.n < awaited' + Half
                 /\ i = 1 => queue'[i].packet.n = awaited'
                 /\ i # 1 => ~(queue'[i].useCount > 0 \/ queue'[i].first)
      <4>1. /\ queue[i].packet.stream = 1 /\ queue[i].packet.n \in Nat
            /\ queue[i].packet.n < awaited + Half
        BY <2>1, <3>1, LineFacts
      <4>2. i = 1 \/ Head1.n < queue[i].packet.n
        <5>1. i = 1 \/ 1 < i
          BY <3>1
        <5> QED
          BY <2>1, <3>1, <3>3, <5>1 DEF Line
      <4>3. i # 1 => ~(queue[i].useCount > 0 \/ queue[i].first)
        BY <2>1, <3>1 DEF Line
      <4> QED
        BY <1>1, <3>1, <3>2, <3>3, <4>1, <4>2, <4>3
    <3>6. \A i, j \in DOMAIN queue' : i < j => queue'[i].packet.n < queue'[j].packet.n
      BY <2>1, <3>1 DEF Line
    <3>7. fTailPacket' = queue'[Len(queue')].packet
      <4>1. Len(queue) \in DOMAIN queue
        BY <2>1, <3>1, HeadFacts, TypeFacts
      <4> QED
        BY <2>1, <3>1, <3>2, <4>1 DEF Line
    <3> QED
      BY <3>4, <3>5, <3>6, <3>7 DEF Line
  <2> QED
    BY <2>1, <2>2, <2>3
<1>4. CASE Elsewhere
  BY <1>4, ElsewhereFacts DEF Line, OneSource
<1>5. CASE StopGettingFrames
  <2>1. ~fHaveSeenFirstPacket' /\ queue' = <<>> /\ DOMAIN queue' = {}
    BY <1>5 DEF StopGettingFrames
  <2> QED
    BY <2>1 DEF Line
<1> QED
  BY <1>2, <1>3, <1>4, <1>5, Steps

LEMMA LineOrders ==
  ASSUME TypeOK, Seen, Line
  PROVE  QueueOrdered
<1> SUFFICES ASSUME OneSource
             PROVE  /\ \A i \in 2..Len(queue) :
                         SeqNumLT(SeqNo(queue[i - 1].packet), SeqNo(queue[i].packet))
                    /\ fTailPacket = IF queue = <<>> THEN NoPacket ELSE queue[Len(queue)].packet
                    /\ queue # <<>> => ~SeqNumLT(SeqNo(Head1), fNextExpectedSeqNo)
  BY DEF QueueOrdered
<1>1. /\ DOMAIN queue = 1..Len(queue) /\ Len(queue) \in Nat /\ awaited \in Nat
      /\ Half \in Nat \ {0}
  BY TypeFacts, Halves
<1>2. ASSUME NEW i \in 2..Len(queue)
      PROVE  SeqNumLT(SeqNo(queue[i - 1].packet), SeqNo(queue[i].packet))
  <2>1. i - 1 \in DOMAIN queue /\ i \in DOMAIN queue /\ i - 1 < i
    BY <1>1
  <2> DEFINE p == queue[i - 1].packet
             q == queue[i].packet
  <2>2. /\ p \in Packets /\ p.stream = 1 /\ p.n \in Nat /\ awaited <= p.n /\ p.n < awaited + Half
        /\ q \in Packets /\ q.stream = 1 /\ q.n \in Nat /\ awaited <= q.n /\ q.n < awaited + Half
    BY <2>1, LineFacts
  <2>3. p.n < q.n
    BY <2>1 DEF Line
  <2> HIDE DEF p, q
  <2>4. p.n - q.n < Half /\ q.n - p.n < Half
    BY <1>1, <2>2
  <2>5. SeqNumLT(SeqNo(p), SeqNo(q))
    BY <2>2, <2>3, <2>4, Compare
  <2> QED
    BY <2>5 DEF p, q
<1>3. fTailPacket = IF queue = <<>> THEN NoPacket ELSE queue[Len(queue)].packet
  BY DEF Seen, Line
<1>4. ASSUME queue # <<>> PROVE ~SeqNumLT(SeqNo(Head1), fNextExpectedSeqNo)
  <2>1. fHaveSeenFirstPacket
    BY <1>4 DEF Seen
  <2>2. /\ Head1 \in Packets /\ Head1.stream = 1 /\ Head1.n \in Nat
        /\ awaited <= Head1.n /\ Head1.n < awaited + Half
    BY <1>4, HeadFacts, LineFacts DEF Head1
  <2>3. Head1.n - awaited < Half /\ awaited - Head1.n < Half
    BY <1>1, <2>2
  <2>4. SeqNumLT(SeqNo(Head1), fNextExpectedSeqNo) <=> Head1.n < awaited
    BY <2>1, <2>2, <2>3, CompareAwaited
  <2> QED
    BY <1>1, <2>2, <2>4
<1> QED
  BY <1>2, <1>3, <1>4

\* The inductive invariant of the buffer.
BufferInv == Seen /\ Line /\ Owner

LEMMA BufferInvKept == TypeOK /\ BufferInv /\ [Next]_vars => BufferInv'
BY SeenKept, LineKept, OwnerKept DEF BufferInv

LEMMA BufferInvInit == Init => BufferInv
<1> SUFFICES ASSUME Init PROVE BufferInv
  OBVIOUS
<1>1. queue = <<>> /\ DOMAIN queue = {} /\ ~fHaveSeenFirstPacket
  BY DEF Init
<1>2. Seen
  BY <1>1 DEF Init, Seen
<1>3. Line
  BY <1>1 DEF Line
<1>4. Owner
  BY <1>1 DEF Init, Owner, InQueue
<1> QED
  BY <1>2, <1>3, <1>4 DEF BufferInv

\* Whatever arrives, in whatever order and as often as it likes, also around the
\* wrap of the sequence numbers: the queue of one source is in order, without
\* duplicates, up to its tail and from the number awaited on; and the descriptor
\* that is kept is in one place.
THEOREM BufferKept == Spec => []BufferSound
<1>1. TypeOK /\ BufferInv => BufferSound
  BY LineOrders, OwnerOnce DEF BufferInv, BufferSound
<1> QED
  BY <1>1, TypeCorrect, BufferInvInit, BufferInvKept, PTL DEF Spec

-----------------------------------------------------------------------------
(***************************************************************************)
(* The order of the frames.                                                *)
(***************************************************************************)

\* The piece x has been taken from the queue.
Behind(x) ==
  \/ x.packet.n < awaited
  \/ queue # <<>> /\ x.packet = Head1 /\ x.unit < queue[1].useCount

\* The piece x is before y in the stream.
Before(x, y) ==
  \/ x.packet.n < y.packet.n
  \/ x.packet = y.packet /\ x.unit < y.unit

Past ==
  OneSource =>
  /\ \A i \in DOMAIN frame : Behind(frame[i])
  /\ \A i \in DOMAIN delivered : Behind(delivered[i])
  /\ \A i \in DOMAIN delivered, j \in DOMAIN frame : Before(delivered[i], frame[j])

\* The piece that use() takes.
NewPiece == [packet |-> Head1, unit |-> queue[1].useCount]

LEMMA SoFarFacts ==
  ASSUME TypeOK, queue # <<>>, NEW j \in DOMAIN FrameSoFar
  PROVE  (\E i \in DOMAIN frame : FrameSoFar[j] = frame[i]) \/ FrameSoFar[j] = NewPiece
<1> DEFINE kept == IF Begins /\ (PacketLossPreceded \/ fPacketLossInFragmentedFrame)
                   THEN <<>> ELSE frame
<1>1. FrameSoFar = IF FrameBytes = 0 THEN kept ELSE Append(kept, NewPiece)
  BY DEF FrameSoFar, NewPiece
<1>2. kept \in Seq(Pieces) /\ NewPiece \in Pieces
  <2>1. queue[1].useCount \in Nat
    BY HeadFacts DEF Entries
  <2> QED
    BY <2>1, HeadFacts, TypeFacts, EmptySeq DEF NewPiece, Pieces
<1>3. \A i \in DOMAIN kept : \E h \in DOMAIN frame : kept[i] = frame[h]
  BY EmptySeq
<1> HIDE DEF kept
<1>4. CASE FrameBytes = 0
  BY <1>1, <1>3, <1>4
<1>5. CASE FrameBytes # 0
  <2>1. FrameSoFar = Append(kept, NewPiece)
    BY <1>1, <1>5
  <2>2. /\ DOMAIN FrameSoFar = 1..Len(kept) + 1 /\ Len(kept) \in Nat /\ DOMAIN kept = 1..Len(kept)
        /\ FrameSoFar[Len(kept) + 1] = NewPiece
        /\ \A i \in 1..Len(kept) : FrameSoFar[i] = kept[i]
    BY <1>2, <2>1, AppendProperties, LenProperties
  <2>3. j \in DOMAIN kept \/ j = Len(kept) + 1
    BY <2>2
  <2> QED
    BY <1>3, <2>2, <2>3
<1> QED
  BY <1>4, <1>5

\* What is behind stays behind, and so is what is taken.
LEMMA BehindKept ==
  ASSUME TypeOK, OneSource, Line, Turns, UNCHANGED source, NEW x \in Pieces, Behind(x) \/ x = NewPiece
  PROVE  Behind(x)'
<1>1. queue # <<>> /\ (Release \/ Keep)
  BY TurnFacts
<1>2. /\ 1 \in DOMAIN queue /\ awaited \in Nat /\ Head1.n \in Nat /\ awaited <= Head1.n
      /\ queue[1].useCount \in Nat
  BY <1>1, HeadFacts, LineFacts, TypeFacts DEF Head1
<1>3. x.packet.n \in Nat /\ x.unit \in Nat
  BY PacketFacts DEF Pieces
<1>4. x.packet.n < awaited \/ (x.packet = Head1 /\ x.unit <= queue[1].useCount)
  BY <1>2, <1>3 DEF Behind, NewPiece
<1>5. CASE Release
  <2>1. awaited' = Head1.n + 1
    BY <1>5 DEF Release
  <2>2. x.packet.n < awaited'
    BY <1>2, <1>3, <1>4, <2>1
  <2> QED
    BY <2>2 DEF Behind
<1>6. CASE Keep
  <2>1. awaited' = Head1.n
    BY <1>6 DEF Keep
  <2>2. queue' # <<>> /\ Head1' = Head1 /\ queue'[1].useCount = queue[1].useCount + 1
    BY <1>1, <1>6, KeepFacts
  <2>3. CASE x.packet.n < awaited
    BY <1>2, <1>3, <2>1, <2>3 DEF Behind
  <2>4. CASE x.packet = Head1 /\ x.unit <= queue[1].useCount
    <3>1. x.unit < queue'[1].useCount
      BY <1>2, <1>3, <2>2, <2>4
    <3> QED
      BY <2>2, <2>4, <3>1 DEF Behind
  <2> QED
    BY <1>4, <2>3, <2>4
<1> QED
  BY <1>1, <1>5, <1>6

\* What is taken is behind what has been taken.
LEMMA BehindIsBefore ==
  ASSUME TypeOK, OneSource, Line, queue # <<>>, NEW x \in Pieces, Behind(x)
  PROVE  Before(x, NewPiece)
<1>1. /\ awaited \in Nat /\ Head1.n \in Nat /\ awaited <= Head1.n
  BY HeadFacts, LineFacts, TypeFacts DEF Head1
<1>2. x.packet.n \in Nat
  BY PacketFacts DEF Pieces
<1> QED
  BY <1>1, <1>2 DEF Behind, Before, NewPiece

\* The frame that is put together comes behind the one delivered.
LEMMA SoFarBehind ==
  ASSUME TypeOK, OneSource, Line, Past, Turns, UNCHANGED source, NEW j \in DOMAIN FrameSoFar
  PROVE  /\ (\A x \in Pieces : x = FrameSoFar[j] => Behind(x)')
         /\ \A i \in DOMAIN delivered : Before(delivered[i], FrameSoFar[j])
<1>1. queue # <<>>
  BY TurnFacts
<1>2. \A i \in DOMAIN frame : frame[i] \in Pieces /\ Behind(frame[i])
  BY TypeFacts, ElementOfSeq DEF Past
<1>3. \A i \in DOMAIN delivered : delivered[i] \in Pieces /\ Behind(delivered[i])
  BY TypeFacts, ElementOfSeq DEF Past
<1>4. CASE \E i \in DOMAIN frame : FrameSoFar[j] = frame[i]
  <2>1. PICK i \in DOMAIN frame : FrameSoFar[j] = frame[i]
    BY <1>4
  <2>2. ASSUME NEW x \in Pieces, x = FrameSoFar[j] PROVE Behind(x)'
    BY <1>2, <2>1, <2>2, BehindKept
  <2>3. \A h \in DOMAIN delivered : Before(delivered[h], frame[i])
    BY DEF Past
  <2> QED
    BY <2>1, <2>2, <2>3
<1>5. CASE FrameSoFar[j] = NewPiece
  <2>1. ASSUME NEW x \in Pieces, x = FrameSoFar[j] PROVE Behind(x)'
    BY <1>5, <2>1, BehindKept
  <2>2. \A i \in DOMAIN delivered : Before(delivered[i], NewPiece)
    BY <1>1, <1>3, BehindIsBefore
  <2> QED
    BY <1>5, <2>1, <2>2
<1> QED
  BY <1>1, <1>4, <1>5, SoFarFacts

\* A head packet that has been used, or is the first to arrive, stays the head.
LEMMA HeadStays ==
  ASSUME TypeOK, OneSource, Line, NEW p \in Packets, NEW k \in 0..Len(queue), Queues(p, k),
         queue # <<>>, queue[1].useCount > 0 \/ queue[1].first
  PROVE  queue' # <<>> /\ queue'[1] = queue[1]
<1>1. /\ 1 \in DOMAIN queue /\ p.n \in Nat /\ Len(queue) \in Nat \ {0} /\ awaited \in Nat
  BY HeadFacts, PacketFacts, TypeFacts
<1>2. queue[1].packet.n = awaited
  BY <1>1 DEF Line
<1>3. k # 0
  <2>1. awaited <= p.n /\ \A i \in k + 1..Len(queue) : p.n < queue[i].packet.n
    BY DEF Queues
  <2>2. k = 0 => 1 \in k + 1..Len(queue)
    BY <1>1
  <2> QED
    BY <1>1, <1>2, <2>1, <2>2
<1>4. 1 \in 1..k
  BY <1>1, <1>3
<1>5. queue'[1] = queue[1]
  BY <1>4 DEF Queues, Inserted
<1>6. queue' \in Seq(Entries) /\ Inserted(queue', queue, Entry(p, FALSE, FreePacket), k)
  BY DEF Queues
<1>7. queue' # <<>>
  BY <1>6, InsertedParts, TypeFacts
<1> QED
  BY <1>5, <1>7

LEMMA PastKept ==
  ASSUME TypeOK, TypeOK', Seen, Line, Past, [Next]_vars
  PROVE  Past'
<1>0. UNCHANGED source
  BY Steps
<1> SUFFICES ASSUME OneSource' PROVE Past'
  BY DEF Past
<1>1. ASSUME NEW p \in Packets, PacketArrives(p) PROVE Past'
  <2>1. UNCHANGED <<frame, delivered>> /\ OneSource
    BY <1>1, ArriveLine DEF PacketArrives, framing
  <2>2. CASE FirstPacket(p)
    <3>1. DOMAIN frame' = {} /\ DOMAIN delivered' = {}
      BY <2>1, <2>2 DEF FirstPacket
    <3> QED
      BY <3>1 DEF Past
  <2>3. CASE UNCHANGED <<queue, awaited>>
    BY <2>1, <2>3 DEF Past, Behind, Head1
  <2>4. ASSUME UNCHANGED awaited, NEW k \in 0..Len(queue), Queues(p, k) PROVE Past'
    <3>1. ASSUME NEW x \in Pieces, Behind(x) PROVE Behind(x)'
      <4>1. CASE x.packet.n < awaited
        BY <2>4, <4>1 DEF Behind
      <4>2. CASE queue # <<>> /\ x.packet = Head1 /\ x.unit < queue[1].useCount
        <5>1. queue[1].useCount \in Nat /\ x.unit \in Nat
          BY <2>1, <4>2, HeadFacts DEF Pieces, Entries
        <5>2. queue[1].useCount > 0
          BY <4>2, <5>1
        <5>3. queue' # <<>> /\ queue'[1] = queue[1]
          BY <2>1, <2>4, <4>2, <5>2, HeadStays
        <5> QED
          BY <4>2, <5>3 DEF Behind, Head1
      <4> QED
        BY <3>1, <4>1, <4>2 DEF Behind
    <3>2. /\ \A i \in DOMAIN frame : frame[i] \in Pieces
          /\ \A i \in DOMAIN delivered : delivered[i] \in Pieces
      BY TypeFacts, ElementOfSeq
    <3>3. \A i \in DOMAIN frame : Behind(frame[i])'
      <4> SUFFICES ASSUME NEW i \in DOMAIN frame PROVE Behind(frame[i])'
        OBVIOUS
      <4>1. frame'[i] = frame[i] /\ frame[i] \in Pieces /\ Behind(frame[i])
        BY <2>1, <3>2 DEF Past
      <4> QED
        BY <3>1, <4>1
    <3>4. \A i \in DOMAIN delivered : Behind(delivered[i])'
      <4> SUFFICES ASSUME NEW i \in DOMAIN delivered PROVE Behind(delivered[i])'
        OBVIOUS
      <4>1. delivered'[i] = delivered[i] /\ delivered[i] \in Pieces /\ Behind(delivered[i])
        BY <2>1, <3>2 DEF Past
      <4> QED
        BY <3>1, <4>1
    <3> QED
      BY <2>1, <3>3, <3>4 DEF Past, Before
  <2> QED
    BY <1>1, <2>2, <2>3, <2>4, ArriveLine
<1>2. CASE Turns
  <2>1. OneSource /\ queue # <<>> /\ Pieces' = Pieces
    BY <1>0, <1>2, TurnFacts, SamePackets DEF OneSource
  <2>2. /\ frame \in Seq(Pieces) /\ delivered \in Seq(Pieces) /\ FrameSoFar \in Seq(Pieces)
    BY <2>1, TypeFacts, UseTypes
  <2>3. \A i \in DOMAIN frame : frame[i] \in Pieces
    BY <2>2, ElementOfSeq
  <2>4. \A i \in DOMAIN delivered : delivered[i] \in Pieces
    BY <2>2, ElementOfSeq
  <2>5. \A i \in DOMAIN FrameSoFar : FrameSoFar[i] \in Pieces
    BY <2>2, ElementOfSeq
  <2>6. \A x \in Pieces : Behind(x) => Behind(x)'
    BY <1>0, <1>2, <2>1, BehindKept
  <2>7. \A x \in Pieces, i \in DOMAIN FrameSoFar : x = FrameSoFar[i] => Behind(x)'
    BY <1>0, <1>2, <2>1, SoFarBehind
  <2>8. \A i \in DOMAIN delivered, j \in DOMAIN FrameSoFar : Before(delivered[i], FrameSoFar[j])
    BY <1>0, <1>2, <2>1, SoFarBehind
  <2>9. CASE UNCHANGED <<frame, delivered>>
    <3>1. ASSUME NEW i \in DOMAIN frame' PROVE Behind(frame[i])'
      <4>1. frame'[i] = frame[i] /\ frame[i] \in Pieces /\ Behind(frame[i])
        BY <2>1, <2>3, <2>9 DEF Past
      <4> QED
        BY <2>6, <4>1
    <3>2. ASSUME NEW i \in DOMAIN delivered' PROVE Behind(delivered[i])'
      <4>1. delivered'[i] = delivered[i] /\ delivered[i] \in Pieces /\ Behind(delivered[i])
        BY <2>1, <2>4, <2>9 DEF Past
      <4> QED
        BY <2>6, <4>1
    <3> QED
      BY <2>1, <2>9, <3>1, <3>2 DEF Past, Before
  <2>10. CASE frame' = FrameSoFar /\ UNCHANGED delivered
    <3>1. ASSUME NEW i \in DOMAIN frame' PROVE Behind(frame[i])'
      <4>1. frame'[i] = FrameSoFar[i] /\ FrameSoFar[i] \in Pieces /\ i \in DOMAIN FrameSoFar
        BY <2>5, <2>10
      <4> QED
        BY <2>7, <4>1
    <3>2. ASSUME NEW i \in DOMAIN delivered' PROVE Behind(delivered[i])'
      <4>1. delivered'[i] = delivered[i] /\ delivered[i] \in Pieces /\ Behind(delivered[i])
        BY <2>1, <2>4, <2>10 DEF Past
      <4> QED
        BY <2>6, <4>1
    <3>3. \A i \in DOMAIN delivered', j \in DOMAIN frame' : Before(delivered'[i], frame'[j])
      BY <2>8, <2>10
    <3> QED
      BY <3>1, <3>2, <3>3 DEF Past, Before
  <2>11. CASE frame' = <<>> /\ delivered' = FrameSoFar
    <3>1. DOMAIN frame' = {}
      BY <2>11
    <3>2. ASSUME NEW i \in DOMAIN delivered' PROVE Behind(delivered[i])'
      <4>1. delivered'[i] = FrameSoFar[i] /\ FrameSoFar[i] \in Pieces /\ i \in DOMAIN FrameSoFar
        BY <2>5, <2>11
      <4> QED
        BY <2>7, <4>1
    <3> QED
      BY <3>1, <3>2 DEF Past
  <2> QED
    BY <1>2, <2>9, <2>10, <2>11 DEF Turns, RejectHeader, RejectFragment, UseFragment, DeliverFrame
<1>3. CASE Elsewhere
  <2>1. frame' = frame \/ (frame' = <<>> /\ DOMAIN frame' = {})
    BY <1>3 DEF Elsewhere, Age, PartArrives, JunkArrives, Break, GetNextFrame, AfterGetting,
                framing, vars, state
  <2>2. UNCHANGED <<queue, awaited, ssrc, delivered>>
    BY <1>3, ElsewhereFacts
  <2> QED
    BY <2>1, <2>2 DEF Past, Behind, Before, Head1, OneSource
<1>4. CASE StopGettingFrames
  <2>1. DOMAIN frame' = {} /\ DOMAIN delivered' = {}
    BY <1>4 DEF StopGettingFrames
  <2> QED
    BY <2>1 DEF Past
<1> QED
  BY <1>1, <1>2, <1>3, <1>4, Steps

\* Only the end of a frame delivers, and what it delivers comes later in the stream.
THEOREM FramesInOrder == Spec => DeliveredInOrder
<1> DEFINE Ordered ==
      OneSource' /\ delivered # <<>> /\ delivered' \notin {delivered, <<>>} =>
        \A i \in DOMAIN delivered, j \in DOMAIN delivered' :
          \/ delivered[i].packet.n < delivered'[j].packet.n
          \/ /\ delivered[i].packet = delivered'[j].packet
             /\ delivered[i].unit < delivered'[j].unit
<1>1. Init => Past
  <2> SUFFICES ASSUME Init PROVE Past
    OBVIOUS
  <2>1. DOMAIN frame = {} /\ DOMAIN delivered = {}
    BY DEF Init
  <2> QED
    BY <2>1 DEF Past
<1>2. TypeOK /\ TypeOK' /\ BufferInv /\ Past /\ [Next]_vars => Past'
  BY PastKept DEF BufferInv
<1>3. TypeOK /\ BufferInv /\ Past /\ [Next]_vars => Ordered
  <2> SUFFICES ASSUME TypeOK, BufferInv, Past, [Next]_vars, OneSource', delivered # <<>>,
                      delivered' \notin {delivered, <<>>},
                      NEW i \in DOMAIN delivered, NEW j \in DOMAIN delivered'
               PROVE  Before(delivered[i], delivered'[j])
    BY DEF Before
  <2>1. UNCHANGED source
    BY Steps
  <2>2. DeliverFrame
    <3>1. ~\E p \in Packets : PacketArrives(p)
      BY DEF PacketArrives
    <3>2. ~Elsewhere /\ ~StopGettingFrames
      BY ElsewhereFacts DEF StopGettingFrames
    <3> QED
      BY <3>1, <3>2, Steps DEF Turns, RejectHeader, RejectFragment, UseFragment
  <2>3. Turns /\ OneSource /\ delivered' = FrameSoFar
    BY <2>2, TurnFacts DEF Turns, DeliverFrame, OneSource
  <2> QED
    BY <2>1, <2>3, SoFarBehind DEF BufferInv
<1>4. Spec => [][Ordered]_vars
  BY <1>1, <1>2, <1>3, TypeCorrect, BufferInvInit, BufferInvKept, PTL DEF Spec
<1> QED
  BY <1>4 DEF DeliveredInOrder

-----------------------------------------------------------------------------
(***************************************************************************)
(* Whole frames.                                                           *)
(***************************************************************************)
Enclosed(x) == IsAggregate(Payload(x.packet).type)

\* A packet that has not been used is whole, and only an aggregate is used twice.
Opened ==
  \A i \in DOMAIN queue :
    IF queue[i].useCount = 0 THEN queue[i].left = Payload(queue[i].packet).bytes
    ELSE IsAggregate(Payload(queue[i].packet).type)

\* A packet that is no aggregate, and is not rejected, is used whole: its header
\* alone says whether it begins and whether it completes a frame.
LEMMA PlainHead ==
  ASSUME TypeOK, Opened, AllHaveData, queue # <<>>, Head1.stream = 1, ~BadHeader,
         ~IsAggregate(Payload(Head1).type)
  PROVE  /\ Fresh /\ FrameBytes # 0 /\ LeftBehind = 0
         /\ Begins = BeginsFrame(Payload(Head1), FALSE)
         /\ Completes = CompletesFrame(Payload(Head1), FALSE)
<1> DEFINE h == Payload(Head1)
<1>1. /\ h.type \in 0..31 /\ h.bytes \in Nat /\ queue[1].useCount \in Nat
      /\ Head1.n \in DOMAIN source[1] /\ h = source[1][Head1.n]
  BY HeadFacts, PacketFacts DEF Payloads, Entries
<1>2. Fresh /\ queue[1].left = h.bytes
  BY HeadFacts DEF Opened, Fresh, Head1
<1>3. /\ ~HeaderRejected(h) /\ ~IsAggregate(h.type)
      /\ IsFragment(h.type) => HeaderBytes(h) # h.bytes
  BY <1>1, <1>2 DEF BadHeader, AllHaveData
<1> HIDE DEF h
<1>4. NALUnitType = h.type /\ Left = h.bytes - HeaderBytes(h)
  BY <1>2 DEF NALUnitType, Left, h
<1>5. h.bytes - HeaderBytes(h) \in Int /\ h.bytes - HeaderBytes(h) # 0
  <2>1. HeaderBytes(h) \in {0, 1, 2, 3} /\ (~IsFragment(h.type) => HeaderBytes(h) = 0)
    BY <1>1, <1>3 DEF HeaderBytes, IsFragment, IsAggregate
  <2>2. ~IsFragment(h.type) => h.bytes # 0
    BY <1>1, <1>3 DEF HeaderRejected
  <2> QED
    BY <1>1, <1>3, <2>1, <2>2
<1>6. FrameBytes = Left /\ SkippedBytes(NALUnitType, Left) = 0
  BY <1>4 DEF FrameBytes, EnclosedBytes, SkippedBytes, h
<1>7. FrameBytes # 0 /\ LeftBehind = 0
  BY <1>4, <1>5, <1>6 DEF LeftBehind
<1>8. /\ Begins = BeginsFrame(Payload(Head1), FALSE)
      /\ Completes = CompletesFrame(Payload(Head1), FALSE)
  BY <1>2 DEF Begins, Completes, BeginsFrame, CompletesFrame
<1> QED
  BY <1>2, <1>7, <1>8

\* The flags of an aggregate are those that were set before it.
LEMMA AggregateHead ==
  ASSUME IsAggregate(Payload(Head1).type)
  PROVE  /\ Completes = fCurrentPacketCompletesFrame
         /\ BeginsFrame(Payload(Head1), TRUE) = TRUE /\ CompletesFrame(Payload(Head1), TRUE) = TRUE
BY DEF Completes, BeginsFrame, CompletesFrame

LEMMA OpenedKept ==
  ASSUME TypeOK, Opened, [Next]_vars
  PROVE  Opened'
<1>0. UNCHANGED source /\ \A p : Payload(p)' = Payload(p)
  BY Steps DEF Payload
<1>1. ASSUME NEW p \in Packets, PacketArrives(p) PROVE Opened'
  <2>1. CASE UNCHANGED queue
    BY <1>0, <2>1 DEF Opened, Payload
  <2>2. ASSUME NEW seen \in BOOLEAN, Link(p, FreePacket, ~seen) PROVE Opened'
    <3> DEFINE e == Entry(p, ~seen, FreePacket)
    <3>1. PICK k \in 0..Len(queue) :
            queue' \in Seq(Entries) /\ Inserted(queue', queue, e, k)
      BY <2>2, LinkInserts
    <3>2. e.packet = p /\ e.useCount = 0 /\ e.left = Payload(p).bytes
      BY DEF Entry
    <3> HIDE DEF e
    <3>3. \A i \in DOMAIN queue' : queue'[i] = e \/ \E j \in DOMAIN queue : queue'[i] = queue[j]
      BY <3>1, InsertedParts, TypeFacts
    <3> QED
      BY <1>0, <3>2, <3>3 DEF Opened, Payload
  <2> QED
    BY <1>1, <2>1, <2>2, ArriveFacts
<1>2. CASE Turns
  <2>1. queue # <<>> /\ (Release \/ Keep)
    BY <1>2, TurnFacts
  <2>2. CASE Release
    <3>1. \A i \in DOMAIN queue' : i + 1 \in DOMAIN queue /\ queue'[i] = queue[i + 1]
      BY <2>1, <2>2, HeadFacts DEF Release
    <3> QED
      BY <1>0, <3>1 DEF Opened, Payload
  <2>3. CASE Keep
    <3>1. /\ DOMAIN queue' = DOMAIN queue /\ queue'[1].useCount = queue[1].useCount + 1
          /\ queue'[1].packet = Head1 /\ 1 \in DOMAIN queue
          /\ \A i \in DOMAIN queue : i # 1 => queue'[i] = queue[i]
      BY <1>0, <2>1, <2>3, KeepFacts, HeadFacts
    <3>2. queue[1].useCount \in Nat
      BY <2>1, HeadFacts DEF Entries
    <3>3. IsAggregate(Payload(Head1).type)
      <4>1. CASE Fresh
        <5>1. NALUnitType = Payload(Head1).type
          BY <4>1 DEF NALUnitType
        <5>2. ~IsAggregate(NALUnitType) => Left - 0 - Left > 0 /\ Left \in Int
          <6>1. Payload(Head1).bytes \in Nat /\ Payload(Head1).type \in 0..31 /\ queue[1].left \in Nat
            BY <2>1, HeadFacts, PacketFacts DEF Payloads, Entries
          <6>2. Left \in Int
            BY <6>1 DEF Left, HeaderBytes
          <6> QED
            BY <2>3, <6>2 DEF Keep, LeftBehind, SkippedBytes, FrameBytes, EnclosedBytes
        <5> QED
          BY <5>1, <5>2
      <4>2. CASE ~Fresh
        BY <3>1, <4>2 DEF Opened, Fresh, Head1
      <4> QED
        BY <4>1, <4>2
    <3>4. ASSUME NEW i \in DOMAIN queue'
          PROVE  IF queue'[i].useCount = 0 THEN queue'[i].left = Payload(queue'[i].packet).bytes
                 ELSE IsAggregate(Payload(queue'[i].packet).type)
      <4>1. CASE i = 1
        BY <3>1, <3>2, <3>3, <4>1
      <4>2. CASE i # 1
        BY <3>1, <4>2 DEF Opened
      <4> QED
        BY <4>1, <4>2
    <3> QED
      BY <1>0, <3>4 DEF Opened, Payload
  <2> QED
    BY <2>1, <2>2, <2>3
<1>3. CASE Elsewhere
  BY <1>0, <1>3, ElsewhereFacts DEF Opened, Payload
<1>4. CASE StopGettingFrames
  <2>1. DOMAIN queue' = {}
    BY <1>4 DEF StopGettingFrames
  <2> QED
    BY <2>1 DEF Opened
<1> QED
  BY <1>1, <1>2, <1>3, <1>4, Steps

-----------------------------------------------------------------------------
\* The frame that the bytes taken next belong to, without them.
Kept == IF Begins /\ (PacketLossPreceded \/ fPacketLossInFragmentedFrame) THEN <<>> ELSE frame

\* The packet n of the first stream has completed a frame, or is rejected.
Over(n) == HeaderRejected(source[1][n]) \/ CompletesFrame(source[1][n], TRUE)

\* Consecutive packets of one stream, of which the first one begins a frame.
Chain(pieces) ==
  \A i \in DOMAIN pieces :
    /\ pieces[i].packet = [pieces[1].packet EXCEPT !.n = @ + i - 1]
    /\ i = 1 <=> BeginsFrame(Payload(pieces[i].packet), FALSE)

\* The head packet is the first one to arrive, or has been used.
Waiting == queue # <<>> /\ (queue[1].first \/ queue[1].useCount > 0)

\* While no packet is missing: what there is of a frame is a chain up to the packet
\* awaited, and no packet of it completes the frame; without any, the packet before
\* the one awaited was the end of a frame.
Cut ==
  OneSource /\ AllHaveData /\ ~fPacketLossInFragmentedFrame =>
  /\ frame # <<>> => ~fCurrentPacketCompletesFrame
  /\ \A i \in DOMAIN frame : frame[i].packet.stream = 1
  /\ frame # <<>> /\ (\A n \in frame[1].packet.n..awaited - 1 : InPlace(n))
     /\ (\A i \in DOMAIN frame : ~Enclosed(frame[i]))
       => /\ frame[Len(frame)].packet.n = awaited - 1 /\ Chain(frame)
          /\ \A i \in DOMAIN frame : ~CompletesFrame(Payload(frame[i].packet), FALSE)
  /\ fHaveSeenFirstPacket /\ ~Waiting
       => awaited - 1 \in DOMAIN source[1] /\ (frame = <<>> => Over(awaited - 1))

\* Without a loss, the head packet is the one awaited.
LEMMA NoLoss ==
  ASSUME TypeOK, Seen, Line, OneSource, queue # <<>>, ~PacketLossPreceded
  PROVE  Head1.n = awaited /\ ~queue[1].first /\ fHaveSeenFirstPacket
<1>1. InSequence /\ ~queue[1].first
  BY DEF PacketLossPreceded
<1>2. fHaveSeenFirstPacket /\ awaited \in Nat /\ Half \in Nat \ {0}
  BY TypeFacts, Halves DEF Seen
<1>3. /\ Head1 \in Packets /\ Head1.stream = 1 /\ Head1.n \in Nat
      /\ awaited <= Head1.n /\ Head1.n < awaited + Half
  BY HeadFacts, LineFacts DEF Head1
<1>4. Head1.n - awaited < Half /\ awaited - Head1.n < Half
  BY <1>2, <1>3
<1>5. SeqNo(Head1) = fNextExpectedSeqNo <=> Head1.n = awaited
  BY <1>2, <1>3, <1>4, CompareAwaited
<1> QED
  BY <1>1, <1>2, <1>5 DEF InSequence

\* What use() finds: it forgets a frame after a loss, and then the head packet
\* begins one.
LEMMA UseFacts ==
  ASSUME TypeOK, Use
  PROVE  /\ queue # <<>> /\ ~BadHeader
         /\ FrameSoFar = (IF FrameBytes = 0 THEN Kept ELSE Append(Kept, NewPiece))
         /\ \/ Begins /\ Kept = <<>>
            \/ Kept = frame /\ ~PacketLossPreceded /\ ~fPacketLossInFragmentedFrame
         /\ fPacketLossInFragmentedFrame' = FALSE /\ fCurrentPacketCompletesFrame' = Completes
<1>1. queue # <<>> /\ ~BadHeader /\ ~Unusable
      /\ fPacketLossInFragmentedFrame' = FALSE /\ fCurrentPacketCompletesFrame' = Completes
  BY DEF Use, ProcessHeader, Turn, Completed
<1>2. FrameSoFar = (IF FrameBytes = 0 THEN Kept ELSE Append(Kept, NewPiece))
  BY DEF FrameSoFar, Kept, NewPiece
<1>3. \/ Begins /\ Kept = <<>>
      \/ Kept = frame /\ ~PacketLossPreceded /\ ~fPacketLossInFragmentedFrame
  BY <1>1 DEF Unusable, Kept
<1> QED
  BY <1>1, <1>2, <1>3

\* The packet that is i - 1 packets behind p.
LEMMA Further ==
  ASSUME TypeOK, NEW p \in Packets, NEW q \in Packets, NEW i \in Nat
  PROVE  q = [p EXCEPT !.n = @ + i - 1] <=> q.stream = p.stream /\ q.n = (p.n + i) - 1
<1> DEFINE r == [p EXCEPT !.n = @ + i - 1]
<1>1. /\ p \in [stream : {p.stream}, n : Nat] /\ p.n \in Nat
      /\ q = [stream |-> q.stream, n |-> q.n]
  BY PacketFacts
<1>2. r.stream = p.stream /\ r.n = (p.n + i) - 1
  BY <1>1
<1>3. r \in [stream : {p.stream}, n : Int]
  BY <1>1
<1> HIDE DEF r
<1>4. r = [stream |-> p.stream, n |-> (p.n + i) - 1]
  BY <1>2, <1>3
<1>5. q = r <=> q.stream = p.stream /\ q.n = (p.n + i) - 1
  BY <1>1, <1>2, <1>4
<1> QED
  BY <1>5 DEF r

\* Where a frame is unfinished, the packet before the one awaited is no end of a frame.
LEMMA ChainNotOver ==
  ASSUME TypeOK, Cut, OneSource, AllHaveData, ~fPacketLossInFragmentedFrame, frame # <<>>,
         \A n \in frame[1].packet.n..awaited - 1 : InPlace(n),
         \A i \in DOMAIN frame : ~Enclosed(frame[i])
  PROVE  /\ awaited - 1 \in DOMAIN source[1] /\ ~Over(awaited - 1)
         /\ frame[1].packet.n \in Nat /\ frame[1].packet.n <= awaited - 1
         /\ awaited = frame[1].packet.n + Len(frame)
<1> DEFINE m == Len(frame)
           a == frame[1].packet
           b == frame[m].packet
<1>1. /\ frame[m].packet.n = awaited - 1 /\ Chain(frame)
      /\ \A i \in DOMAIN frame : /\ ~CompletesFrame(Payload(frame[i].packet), FALSE)
                                /\ frame[i].packet.stream = 1
  BY DEF Cut
<1>2. m \in Nat \ {0} /\ 1 \in DOMAIN frame /\ m \in DOMAIN frame /\ awaited \in Nat
  BY TypeFacts, EmptySeq
<1>3. a \in Packets /\ b \in Packets
  <2>1. \A i \in DOMAIN frame : frame[i] \in Pieces
    BY TypeFacts, ElementOfSeq
  <2> QED
    BY <1>2, <2>1 DEF Pieces
<1>4. b = [a EXCEPT !.n = @ + m - 1]
  BY <1>1, <1>2 DEF Chain
<1>5. /\ ~Enclosed(frame[m]) /\ ~CompletesFrame(Payload(b), FALSE) /\ b.stream = 1
      /\ b.n = awaited - 1
  BY <1>1, <1>2
<1>6. ~IsAggregate(Payload(b).type)
  BY <1>5 DEF Enclosed
<1> HIDE DEF a, b, m
<1>7. a.n \in Nat /\ b.n = (a.n + m) - 1
  BY <1>2, <1>3, <1>4, Further, PacketFacts
<1>8. a.n <= awaited - 1 /\ awaited = a.n + m /\ awaited - 1 \in a.n..awaited - 1
  BY <1>2, <1>5, <1>7
<1>9. awaited - 1 \in DOMAIN source[1] /\ Payload(b) = source[1][awaited - 1]
  BY <1>3, <1>5, PacketFacts
<1>10. InPlace(awaited - 1)
  BY <1>8 DEF a
<1>11. ~Over(awaited - 1)
  BY <1>5, <1>6, <1>9, <1>10 DEF Over, InPlace, CompletesFrame
<1> QED
  BY <1>7, <1>8, <1>9, <1>11 DEF a, m

\* The frame with the bytes of a plain packet added is a chain again, which ends
\* with that packet.
LEMMA SoFarChain ==
  ASSUME TypeOK, Seen, Line, Opened, Cut, OneSource, AllHaveData, Use, FrameBytes # 0,
         \A n \in FrameSoFar[1].packet.n..Head1.n : InPlace(n),
         \A i \in DOMAIN FrameSoFar : ~Enclosed(FrameSoFar[i])
  PROVE  /\ ~IsAggregate(Payload(Head1).type) /\ FrameSoFar # <<>>
         /\ FrameSoFar[Len(FrameSoFar)] = NewPiece /\ Chain(FrameSoFar)
         /\ \A i \in DOMAIN FrameSoFar :
              i # Len(FrameSoFar) => ~CompletesFrame(Payload(FrameSoFar[i].packet), FALSE)
<1> DEFINE G == FrameSoFar
           h == Payload(Head1)
           m == Len(Kept)
<1>1. queue # <<>> /\ ~BadHeader /\ G = Append(Kept, NewPiece)
  BY UseFacts
<1>2. Kept \in Seq(Pieces) /\ NewPiece \in Pieces /\ NewPiece.packet = Head1
  <2>1. queue[1].useCount \in Nat
    BY <1>1, HeadFacts DEF Entries
  <2> QED
    BY <1>1, <2>1, HeadFacts, TypeFacts, EmptySeq DEF NewPiece, Pieces, Kept
<1>3. /\ DOMAIN G = 1..m + 1 /\ m \in Nat /\ DOMAIN Kept = 1..m /\ Len(G) = m + 1
      /\ G[m + 1] = NewPiece /\ \A i \in 1..m : G[i] = Kept[i]
  BY <1>1, <1>2, AppendProperties, LenProperties
<1>4. /\ Head1 \in Packets /\ Head1.stream = 1 /\ Head1.n \in Nat \ {0}
      /\ h = source[1][Head1.n]
  BY <1>1, HeadFacts, LineFacts, PacketFacts DEF Head1
<1> HIDE DEF G, m
<1>5. ~IsAggregate(h.type) /\ G # <<>>
  <2>1. m + 1 \in DOMAIN G
    BY <1>3
  <2> QED
    BY <1>2, <1>3, <2>1 DEF Enclosed, G
<1>6. Fresh /\ Begins = BeginsFrame(h, FALSE) /\ BeginsFrame(h, TRUE) = BeginsFrame(h, FALSE)
  BY <1>1, <1>4, <1>5, PlainHead DEF BeginsFrame
<1>7. G[1].packet.n <= Head1.n => InPlace(Head1.n)
  <2> SUFFICES ASSUME G[1].packet.n <= Head1.n PROVE InPlace(Head1.n)
    OBVIOUS
  <2>1. G[1] \in Pieces
    <3>1. G \in Seq(Pieces) /\ 1 \in DOMAIN G
      BY <1>1, <1>2, <1>3, AppendProperties
    <3> QED
      BY <3>1, ElementOfSeq
  <2>2. G[1].packet.n \in Nat
    BY <2>1, PacketFacts DEF Pieces
  <2>3. Head1.n \in G[1].packet.n..Head1.n
    BY <1>4, <2>2
  <2> QED
    BY <2>3 DEF G
<1>8. CASE Kept = <<>>
  <2>1. m = 0 /\ G[1] = NewPiece /\ DOMAIN G = {1}
    BY <1>3, <1>8 DEF m
  <2>2. BeginsFrame(h, FALSE)
    <3>1. CASE Begins
      BY <1>6, <3>1
    <3>2. CASE Kept = frame /\ ~PacketLossPreceded /\ ~fPacketLossInFragmentedFrame
      <4>1. Head1.n = awaited /\ ~queue[1].first /\ fHaveSeenFirstPacket
        BY <1>1, <3>2, NoLoss
      <4>2. ~Waiting
        BY <1>6, <4>1 DEF Waiting, Fresh
      <4>3. Head1.n - 1 \in DOMAIN source[1] /\ Over(Head1.n - 1)
        BY <1>8, <3>2, <4>1, <4>2 DEF Cut
      <4>4. InPlace(Head1.n)
        BY <1>2, <1>4, <1>7, <2>1
      <4>5. BeginsFrame(h, TRUE)
        BY <1>4, <4>3, <4>4 DEF InPlace, Over
      <4> QED
        BY <1>6, <4>5
    <3> QED
      BY <3>1, <3>2, UseFacts
  <2>3. Head1 = [Head1 EXCEPT !.n = @ + 1 - 1]
    BY <1>4, Further
  <2>4. Chain(G)
    BY <1>2, <2>1, <2>2, <2>3 DEF Chain
  <2> QED
    BY <1>3, <1>5, <2>1, <2>4 DEF G
<1>9. CASE Kept # <<>>
  <2>1. Kept = frame /\ ~PacketLossPreceded /\ ~fPacketLossInFragmentedFrame
    BY <1>9, UseFacts
  <2>2. Head1.n = awaited
    BY <1>1, <2>1, NoLoss
  <2>3. m \in Nat \ {0} /\ 1 \in DOMAIN frame /\ m \in DOMAIN frame /\ G[1] = frame[1]
    BY <1>2, <1>3, <1>9, <2>1, EmptySeq DEF m
  <2>4. \A i \in DOMAIN frame : frame[i] \in Pieces /\ frame[i].packet \in Packets
    <3>1. \A i \in DOMAIN frame : frame[i] \in Pieces
      BY TypeFacts, ElementOfSeq
    <3> QED
      BY <3>1 DEF Pieces
  <2>5. frame[1].packet.n \in Nat /\ frame[1].packet.stream = 1
    BY <2>1, <2>3, <2>4, PacketFacts DEF Cut
  <2>6. \A n \in frame[1].packet.n..awaited - 1 : InPlace(n)
    <3> SUFFICES ASSUME NEW n \in frame[1].packet.n..awaited - 1 PROVE InPlace(n)
      OBVIOUS
    <3>1. n \in frame[1].packet.n..Head1.n
      BY <1>4, <2>2, <2>5
    <3> QED
      BY <2>3, <3>1 DEF G
  <2>7. \A i \in DOMAIN frame : ~Enclosed(frame[i])
    <3> SUFFICES ASSUME NEW i \in DOMAIN frame PROVE ~Enclosed(frame[i])
      OBVIOUS
    <3>1. i \in DOMAIN G /\ G[i] = frame[i]
      BY <1>3, <2>1
    <3> QED
      BY <3>1 DEF G
  <2>8. /\ Chain(frame)
        /\ \A i \in DOMAIN frame : ~CompletesFrame(Payload(frame[i].packet), FALSE)
    BY <1>9, <2>1, <2>2, <2>6, <2>7 DEF Cut
  <2>9. /\ Head1.n - 1 \in DOMAIN source[1] /\ ~Over(Head1.n - 1)
        /\ frame[1].packet.n <= Head1.n - 1 /\ Head1.n = frame[1].packet.n + m
    BY <1>9, <2>1, <2>2, <2>6, <2>7, ChainNotOver DEF m
  <2>10. Head1.n = (frame[1].packet.n + (m + 1)) - 1 /\ frame[1].packet.n <= Head1.n
    BY <1>4, <2>3, <2>5, <2>9
  <2>11. Head1 = [frame[1].packet EXCEPT !.n = @ + (m + 1) - 1]
    BY <1>4, <2>3, <2>4, <2>5, <2>10, Further
  <2>12. ~BeginsFrame(h, FALSE)
    <3>1. InPlace(Head1.n)
      BY <1>7, <2>3, <2>10
    <3>2. ~BeginsFrame(h, TRUE)
      BY <1>4, <2>9, <3>1 DEF InPlace, Over
    <3> QED
      BY <1>6, <3>2
  <2>13. ASSUME NEW i \in DOMAIN G
         PROVE  /\ G[i].packet = [G[1].packet EXCEPT !.n = @ + i - 1]
                /\ i = 1 <=> BeginsFrame(Payload(G[i].packet), FALSE)
                /\ i # m + 1 => ~CompletesFrame(Payload(G[i].packet), FALSE)
    <3>1. CASE i = m + 1
      <4>1. i # 1 /\ G[i].packet = Head1
        BY <1>2, <1>3, <2>3, <3>1
      <4> QED
        BY <2>3, <2>11, <2>12, <3>1, <4>1
    <3>2. CASE i # m + 1
      <4>1. i \in DOMAIN frame /\ G[i] = frame[i]
        BY <1>3, <2>1, <3>2
      <4> QED
        BY <2>3, <2>8, <4>1 DEF Chain
    <3> QED
      BY <3>1, <3>2
  <2>14. Chain(G)
    BY <2>13 DEF Chain
  <2> QED
    BY <1>3, <1>5, <2>13, <2>14 DEF G
<1> QED
  BY <1>8, <1>9

\* Nothing is taken from an aggregate only.
LEMMA NothingNew ==
  ASSUME TypeOK, Line, Opened, OneSource, AllHaveData, Use, FrameBytes = 0
  PROVE  /\ IsAggregate(Payload(Head1).type) /\ FrameSoFar = Kept
         /\ Completes = fCurrentPacketCompletesFrame
         /\ BeginsFrame(Payload(Head1), TRUE) /\ CompletesFrame(Payload(Head1), TRUE)
<1>1. queue # <<>> /\ ~BadHeader /\ FrameSoFar = Kept
  BY UseFacts
<1>2. Head1.stream = 1
  BY <1>1, HeadFacts, LineFacts DEF Head1
<1>3. IsAggregate(Payload(Head1).type)
  BY <1>1, <1>2, PlainHead
<1> QED
  BY <1>1, <1>3, AggregateHead

\* Something is: it is the last piece of the frame.
LEMMA SomethingNew ==
  ASSUME TypeOK, Use, FrameBytes # 0
  PROVE  \E j \in DOMAIN FrameSoFar : FrameSoFar[j] = NewPiece
<1>1. queue # <<>> /\ FrameSoFar = Append(Kept, NewPiece)
  BY UseFacts
<1>2. Kept \in Seq(Pieces) /\ NewPiece \in Pieces
  <2>1. queue[1].useCount \in Nat
    BY <1>1, HeadFacts DEF Entries
  <2> QED
    BY <1>1, <2>1, HeadFacts, TypeFacts, EmptySeq DEF NewPiece, Pieces, Kept
<1>3. /\ DOMAIN FrameSoFar = 1..Len(Kept) + 1 /\ Len(Kept) \in Nat
      /\ FrameSoFar[Len(Kept) + 1] = NewPiece
  BY <1>1, <1>2, AppendProperties, LenProperties
<1> QED
  BY <1>3

\* The packet that has been used up, or rejected, is the one before the one awaited.
LEMMA HeadOver ==
  ASSUME TypeOK, Line, Opened, OneSource, AllHaveData, queue # <<>>,
         \/ BadHeader
         \/ Use /\ (FrameSoFar = <<>> \/ Completes)
  PROVE  Over(Head1.n) /\ Head1.n \in DOMAIN source[1]
<1> DEFINE h == Payload(Head1)
<1>1. Head1.stream = 1 /\ Head1.n \in DOMAIN source[1] /\ h = source[1][Head1.n]
  BY HeadFacts, LineFacts, PacketFacts DEF Head1
<1>2. CASE BadHeader
  BY <1>1, <1>2 DEF BadHeader, Over
<1>3. CASE Use /\ IsAggregate(h.type)
  BY <1>1, <1>3, AggregateHead DEF Over
<1>4. CASE Use /\ ~IsAggregate(h.type)
  <2>1. FrameBytes # 0 /\ Completes = CompletesFrame(h, FALSE)
    BY <1>1, <1>4, UseFacts, PlainHead
  <2>2. \E j \in DOMAIN FrameSoFar : FrameSoFar[j] = NewPiece
    BY <1>4, <2>1, SomethingNew
  <2>3. FrameSoFar # <<>>
    <3>1. DOMAIN <<>> = {}
      OBVIOUS
    <3> QED
      BY <2>2, <3>1
  <2>4. Completes
    <3>1. ~BadHeader
      BY <1>4, UseFacts
    <3> QED
      BY <2>3, <3>1
  <2> QED
    BY <1>1, <1>4, <2>1, <2>4 DEF Over, CompletesFrame
<1> QED
  BY <1>2, <1>3, <1>4

LEMMA CutKept ==
  ASSUME TypeOK, Seen, Requests, Line, Past, Opened, Cut, [Next]_vars
  PROVE  Cut'
<1>0. /\ UNCHANGED source /\ \A p : Payload(p)' = Payload(p)
      /\ AllHaveData' = AllHaveData
      /\ \A n : InPlace(n)' = InPlace(n) /\ Over(n)' = Over(n)
  BY Steps DEF Payload, AllHaveData, InPlace, Over
<1> SUFFICES ASSUME OneSource', AllHaveData, ~fPacketLossInFragmentedFrame'
             PROVE  Cut'
  BY <1>0 DEF Cut
<1>1. ASSUME ~fPacketLossInFragmentedFrame, OneSource,
             UNCHANGED <<frame, fCurrentPacketCompletesFrame, awaited>>,
             fHaveSeenFirstPacket' /\ ~Waiting' => fHaveSeenFirstPacket /\ ~Waiting
      PROVE  Cut'
  BY <1>0, <1>1 DEF Cut, Chain, Enclosed, Payload, Over, InPlace
<1>2. ASSUME NEW p \in Packets, PacketArrives(p) PROVE Cut'
  <2>1. /\ UNCHANGED <<frame, fCurrentPacketCompletesFrame, fPacketLossInFragmentedFrame>>
        /\ OneSource
    BY <1>2, ArriveFacts, ArriveLine
  <2>2. CASE FirstPacket(p)
    <3>1. frame' = <<>> /\ DOMAIN frame' = {} /\ Waiting'
      BY <2>1, <2>2 DEF FirstPacket, Waiting, Entry
    <3> QED
      BY <3>1 DEF Cut
  <2>3. CASE fHaveSeenFirstPacket /\ UNCHANGED <<queue, awaited>>
    BY <1>1, <2>1, <2>3 DEF Waiting
  <2>4. ASSUME fHaveSeenFirstPacket, UNCHANGED awaited, NEW k \in 0..Len(queue), Queues(p, k)
        PROVE  Cut'
    <3>1. Waiting => Waiting'
      BY <2>1, <2>4, HeadStays DEF Waiting
    <3> QED
      BY <1>1, <2>1, <2>4, <3>1
  <2> QED
    BY <1>2, <2>2, <2>3, <2>4, ArriveLine
<1>3. CASE Turns
  <2>1. /\ queue # <<>> /\ (Release \/ Keep) /\ OneSource
    BY <1>3, TurnFacts DEF OneSource
  <2>2. /\ Head1 \in Packets /\ Head1.n \in Nat \ {0} /\ Head1.stream = 1 /\ awaited <= Head1.n
        /\ Payload(Head1) = source[1][Head1.n]
        /\ awaited \in Nat /\ queue[1].useCount \in Nat
    BY <2>1, HeadFacts, LineFacts, PacketFacts, TypeFacts DEF Head1
  <2>3. ASSUME Release PROVE awaited' - 1 = Head1.n
    BY <2>2, <2>3 DEF Release
  <2>4. ASSUME Keep PROVE awaited' = Head1.n /\ Waiting'
    <3>1. awaited' = Head1.n
      BY <2>4 DEF Keep
    <3>2. queue' # <<>> /\ queue'[1].useCount > 0
      BY <1>0, <2>1, <2>2, <2>4, KeepFacts
    <3> QED
      BY <3>1, <3>2 DEF Waiting
  <2>5. CASE RejectHeader
    <3>1. /\ BadHeader /\ Release
          /\ UNCHANGED <<frame, fCurrentPacketCompletesFrame, fPacketLossInFragmentedFrame>>
      BY <2>5 DEF RejectHeader
    <3>2. Over(Head1.n) /\ Head1.n \in DOMAIN source[1]
      BY <2>1, <3>1, HeadOver
    <3>3. frame # <<>> => ~(\A n \in frame[1].packet.n..awaited' - 1 : InPlace(n))
      <4> SUFFICES ASSUME frame # <<>>
                   PROVE  Head1.n \in frame[1].packet.n..awaited' - 1 /\ ~InPlace(Head1.n)
        OBVIOUS
      <4>1. 1 \in DOMAIN frame /\ frame[1] \in Pieces
        <5>1. 1 \in DOMAIN frame
          BY TypeFacts, EmptySeq
        <5> QED
          BY <5>1, TypeFacts, ElementOfSeq
      <4>2. frame[1].packet.n \in Nat /\ frame[1].packet.n <= Head1.n
        <5>1. Behind(frame[1]) /\ frame[1].packet.n \in Nat
          BY <2>1, <4>1, PacketFacts DEF Past, Pieces
        <5> QED
          BY <2>2, <5>1 DEF Behind
      <4>3. ~InPlace(Head1.n)
        BY <2>2, <3>1 DEF InPlace, BadHeader
      <4> QED
        BY <2>2, <2>3, <3>1, <4>2, <4>3
    <3>4. frame # <<>> => ~fCurrentPacketCompletesFrame
      BY <2>1, <3>1 DEF Cut
    <3>5. \A i \in DOMAIN frame : frame[i].packet.stream = 1
      BY <2>1, <3>1 DEF Cut
    <3> QED
      BY <1>0, <2>3, <3>1, <3>2, <3>3, <3>4, <3>5 DEF Cut
  <2>6. CASE RejectFragment
    BY <2>6 DEF RejectFragment
  <2>7. CASE UseFragment
    <3>1. Use /\ frame' = FrameSoFar /\ ~(Completes /\ FrameSoFar # <<>>)
      BY <2>7 DEF UseFragment, FrameComplete
    <3>2. fCurrentPacketCompletesFrame' = Completes
      BY <3>1, UseFacts
    <3>3. \A i \in DOMAIN FrameSoFar : FrameSoFar[i].packet.stream = 1
      <4> SUFFICES ASSUME NEW i \in DOMAIN FrameSoFar PROVE FrameSoFar[i].packet.stream = 1
        OBVIOUS
      <4>1. CASE FrameSoFar[i] = NewPiece
        BY <2>2, <4>1 DEF NewPiece
      <4>2. CASE Kept = frame /\ ~fPacketLossInFragmentedFrame
        <5>1. (\E j \in DOMAIN frame : FrameSoFar[i] = frame[j]) \/ FrameSoFar[i] = NewPiece
          BY <2>1, SoFarFacts
        <5>2. \A j \in DOMAIN frame : frame[j].packet.stream = 1
          BY <2>1, <4>2 DEF Cut
        <5> QED
          BY <4>1, <5>1, <5>2
      <4>3. CASE Kept = <<>>
        <5>1. NewPiece \in Pieces
          BY <2>1, <2>2 DEF NewPiece, Pieces
        <5>2. FrameSoFar = <<>> \/ FrameSoFar = <<NewPiece>>
          BY <3>1, <4>3, <5>1, UseFacts
        <5>3. FrameSoFar[i] = NewPiece
          BY <5>2
        <5> QED
          BY <4>1, <5>3
      <4> QED
        BY <3>1, <4>2, <4>3, UseFacts
    <3>4. ASSUME FrameSoFar # <<>>,
                 \A n \in FrameSoFar[1].packet.n..awaited' - 1 : InPlace(n),
                 \A i \in DOMAIN FrameSoFar : ~Enclosed(FrameSoFar[i])
          PROVE  /\ FrameSoFar[Len(FrameSoFar)].packet.n = awaited' - 1 /\ Chain(FrameSoFar)
                 /\ \A i \in DOMAIN FrameSoFar : ~CompletesFrame(Payload(FrameSoFar[i].packet), FALSE)
      <4>1. CASE FrameBytes = 0
        <5>1. /\ FrameSoFar = Kept /\ BeginsFrame(Payload(Head1), TRUE)
          BY <2>1, <3>1, <4>1, NothingNew
        <5>2. FrameSoFar = frame /\ ~PacketLossPreceded /\ ~fPacketLossInFragmentedFrame
          BY <3>1, <3>4, <5>1, UseFacts
        <5>3. Head1.n = awaited
          BY <2>1, <5>2, NoLoss
        <5>4. \A n \in frame[1].packet.n..awaited - 1 : InPlace(n)
          <6>1. awaited <= awaited' /\ awaited' \in Int
            BY <2>1, <2>2, <2>4, <5>3 DEF Release
          <6>2. 1 \in DOMAIN frame /\ frame[1] \in Pieces
            <7>1. 1 \in DOMAIN frame
              BY <3>4, <5>2, TypeFacts, EmptySeq
            <7> QED
              BY <7>1, TypeFacts, ElementOfSeq
          <6>3. frame[1].packet.n \in Nat
            BY <6>2, PacketFacts DEF Pieces
          <6>4. frame[1].packet.n..awaited - 1 \subseteq frame[1].packet.n..awaited' - 1
            BY <2>2, <6>1, <6>3
          <6> QED
            BY <3>4, <5>2, <6>4
        <5>5. CASE Release
          <6>1. /\ ~Over(awaited - 1) /\ awaited - 1 \in DOMAIN source[1]
                /\ frame[1].packet.n \in Nat /\ frame[1].packet.n <= awaited - 1
            BY <2>1, <3>4, <5>2, <5>4, ChainNotOver
          <6>2. InPlace(Head1.n)
            <7>1. Head1.n \in frame[1].packet.n..awaited' - 1
              BY <2>2, <2>3, <5>3, <5>5, <6>1
            <7> QED
              BY <3>4, <5>2, <7>1
          <6>3. FALSE
            BY <2>2, <5>1, <5>3, <6>1, <6>2 DEF InPlace, Over
          <6> QED
            BY <6>3
        <5>6. CASE Keep
          BY <2>1, <2>4, <3>4, <5>2, <5>3, <5>4, <5>6 DEF Cut
        <5> QED
          BY <2>1, <5>5, <5>6
      <4>2. CASE FrameBytes # 0
        <5>1. ~IsAggregate(Payload(Head1).type)
          <6>1. PICK j \in DOMAIN FrameSoFar : FrameSoFar[j] = NewPiece
            BY <3>1, <4>2, SomethingNew
          <6> QED
            BY <3>4, <6>1 DEF Enclosed, NewPiece
        <5>2. LeftBehind = 0 /\ Completes = CompletesFrame(Payload(Head1), FALSE)
          BY <2>1, <2>2, <3>1, <5>1, UseFacts, PlainHead
        <5>3. awaited' - 1 = Head1.n
          BY <2>1, <2>3, <5>2 DEF Keep
        <5>4. /\ FrameSoFar[Len(FrameSoFar)] = NewPiece /\ Chain(FrameSoFar)
              /\ \A i \in DOMAIN FrameSoFar :
                   i # Len(FrameSoFar) => ~CompletesFrame(Payload(FrameSoFar[i].packet), FALSE)
          BY <2>1, <3>1, <3>4, <4>2, <5>3, SoFarChain
        <5>5. NewPiece.packet = Head1 /\ ~CompletesFrame(Payload(Head1), FALSE)
          BY <3>1, <3>4, <5>2 DEF NewPiece
        <5> QED
          BY <5>3, <5>4, <5>5
      <4> QED
        BY <4>1, <4>2
    <3>5. FrameSoFar = <<>> => Over(Head1.n) /\ Head1.n \in DOMAIN source[1]
      BY <2>1, <3>1, HeadOver
    <3>6. Head1.n \in DOMAIN source[1]
      BY <2>2, PacketFacts
    <3>7. fHaveSeenFirstPacket' /\ ~Waiting'
            => awaited' - 1 \in DOMAIN source[1] /\ (frame' = <<>> => Over(awaited' - 1))
      BY <2>1, <2>3, <2>4, <3>1, <3>5, <3>6
    <3> QED
      BY <1>0, <3>1, <3>2, <3>3, <3>4, <3>7 DEF Cut, Chain, Enclosed, Payload
  <2>8. CASE DeliverFrame
    <3>1. Use /\ Completes /\ frame' = <<>> /\ DOMAIN frame' = {}
      BY <2>8 DEF DeliverFrame, FrameComplete
    <3>2. Over(Head1.n) /\ Head1.n \in DOMAIN source[1]
      BY <2>1, <3>1, HeadOver
    <3>3. Waiting' \/ awaited' - 1 = Head1.n
      BY <2>1, <2>3, <2>4
    <3> QED
      BY <1>0, <3>1, <3>2, <3>3 DEF Cut
  <2> QED
    BY <1>3, <2>5, <2>6, <2>7, <2>8 DEF Turns
<1>4. CASE Elsewhere
  <2>1. /\ UNCHANGED <<fPacketLossInFragmentedFrame, fCurrentPacketCompletesFrame, awaited,
                       fHaveSeenFirstPacket, queue, ssrc>>
    BY <1>4, ElsewhereFacts
  <2>2. UNCHANGED frame
    BY <1>4 DEF Elsewhere, Age, PartArrives, JunkArrives, Break, GetNextFrame, AfterGetting,
                framing, vars, state, Requests
  <2> QED
    BY <1>1, <2>1, <2>2 DEF Waiting, OneSource
<1>5. CASE StopGettingFrames
  <2>1. ~fHaveSeenFirstPacket' /\ frame' = <<>> /\ DOMAIN frame' = {}
    BY <1>5 DEF StopGettingFrames
  <2> QED
    BY <2>1 DEF Cut
<1> QED
  BY <1>2, <1>3, <1>4, <1>5, Steps

\* A frame that is completed is whole.
LEMMA FrameIntactKept ==
  ASSUME TypeOK, Seen, Line, Opened, Cut, FrameIntact, [Next]_vars
  PROVE  FrameIntact'
<1>0. UNCHANGED source /\ \A p : Payload(p)' = Payload(p)
  BY Steps DEF Payload
<1> SUFFICES ASSUME OneSource', AllHaveData, delivered' # <<>> PROVE FrameIntact'
  BY <1>0 DEF FrameIntact, AllHaveData
<1>1. ASSUME OneSource, UNCHANGED delivered PROVE FrameIntact'
  BY <1>0, <1>1 DEF FrameIntact, WholeFrame, InPlace, AllHaveData, Payload
<1>2. ASSUME NEW p \in Packets, PacketArrives(p) PROVE FrameIntact'
  BY <1>1, <1>2, ArriveFacts, ArriveLine
<1>3. CASE Elsewhere
  BY <1>1, <1>3, ElsewhereFacts DEF OneSource
<1>4. CASE StopGettingFrames
  BY <1>4 DEF StopGettingFrames
<1>5. CASE Turns /\ UNCHANGED delivered
  BY <1>1, <1>5, TurnFacts DEF OneSource
<1>6. CASE DeliverFrame
  <2> DEFINE G == FrameSoFar
  <2>1. Use /\ Completes /\ G # <<>> /\ delivered' = G
    BY <1>6 DEF DeliverFrame, FrameComplete
  <2>2. OneSource /\ queue # <<>> /\ ~BadHeader
    BY <1>6, <2>1, TurnFacts, UseFacts DEF Turns, OneSource
  <2>3. Head1.stream = 1 /\ NewPiece.packet = Head1
    BY <2>2, HeadFacts, LineFacts DEF Head1, NewPiece
  <2>4. FrameBytes # 0
    <3> SUFFICES ASSUME FrameBytes = 0 PROVE FALSE
      OBVIOUS
    <3>1. G = Kept /\ Completes = fCurrentPacketCompletesFrame
      BY <2>1, <2>2, NothingNew
    <3>2. G = frame /\ ~fPacketLossInFragmentedFrame
      BY <2>1, <3>1, UseFacts
    <3>3. ~fCurrentPacketCompletesFrame
      BY <2>1, <2>2, <3>2 DEF Cut
    <3> QED
      BY <2>1, <3>1, <3>3
  <2>5. G \in Seq(Pieces) /\ DOMAIN G = 1..Len(G) /\ Len(G) \in Nat
    BY <2>2, UseTypes, LenProperties
  <2> HIDE DEF G
  <2>6. ASSUME \A n \in G[1].packet.n..G[Len(G)].packet.n : InPlace(n),
               \A i \in DOMAIN G : ~Enclosed(G[i])
        PROVE  WholeFrame(G)
    <3>1. G[Len(G)] = NewPiece
      <4>1. Kept \in Seq(Pieces) /\ NewPiece \in Pieces
        <5>1. queue[1].useCount \in Nat
          BY <2>2, HeadFacts DEF Entries
        <5> QED
          BY <2>2, <5>1, HeadFacts, TypeFacts, EmptySeq DEF NewPiece, Pieces, Kept
      <4>2. G = Append(Kept, NewPiece)
        BY <2>1, <2>4, UseFacts DEF G
      <4> QED
        BY <4>1, <4>2, AppendProperties
    <3>2. \A n \in FrameSoFar[1].packet.n..Head1.n : InPlace(n)
      BY <2>3, <2>6, <3>1 DEF G
    <3>3. /\ ~IsAggregate(Payload(Head1).type) /\ Chain(G)
          /\ \A i \in DOMAIN G : i # Len(G) => ~CompletesFrame(Payload(G[i].packet), FALSE)
      BY <2>1, <2>2, <2>4, <2>6, <3>2, SoFarChain DEF G
    <3>4. CompletesFrame(Payload(Head1), FALSE)
      BY <2>1, <2>2, <2>3, <3>3, PlainHead
    <3> QED
      BY <2>3, <3>1, <3>3, <3>4 DEF WholeFrame, Chain
  <2> QED
    BY <1>0, <2>1, <2>6 DEF FrameIntact, WholeFrame, Enclosed, InPlace, Payload
<1> QED
  BY <1>2, <1>3, <1>4, <1>5, <1>6, Steps
     DEF Turns, RejectHeader, RejectFragment, UseFragment

\* Every frame of plain units that the sink is given is whole, whatever packets are
\* lost, late, twice or given up, if the sender cuts its frames whole, with data
\* in each fragment, and no packet of it is rejected.
THEOREM FramesWhole == Spec => []FrameIntact
<1>1. Init => Requests /\ Past /\ Opened /\ Cut /\ FrameIntact
  <2> SUFFICES ASSUME Init PROVE Requests /\ Past /\ Opened /\ Cut /\ FrameIntact
    OBVIOUS
  <2>1. /\ frame = <<>> /\ delivered = <<>> /\ DOMAIN frame = {} /\ DOMAIN delivered = {}
        /\ DOMAIN queue = {} /\ ~fHaveSeenFirstPacket
    BY DEF Init
  <2>2. Requests
    BY DEF Init, Requests
  <2> QED
    BY <2>1, <2>2 DEF Past, Opened, Cut, FrameIntact
<1>2. TypeOK /\ TypeOK' /\ BufferInv /\ Requests /\ Past /\ Opened /\ Cut /\ FrameIntact
      /\ [Next]_vars => Requests' /\ Past' /\ Opened' /\ Cut' /\ FrameIntact'
  BY RequestsKept, PastKept, OpenedKept, CutKept, FrameIntactKept DEF BufferInv
<1> QED
  BY <1>1, <1>2, TypeCorrect, BufferInvInit, BufferInvKept, PTL DEF Spec

=============================================================================
