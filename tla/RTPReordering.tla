--------------------------- MODULE RTPReordering ----------------------------
(***************************************************************************)
(* liveMedia's MultiFramedRTPSource with its ReorderingPacketBuffer: RTP   *)
(* packets arrive late, twice, out of order or not at all; they are queued *)
(* by their 16-bit sequence numbers, given up after a threshold time, and  *)
(* put together to the frames that the sink asks for.                      *)
(*                                                                         *)
(* One action is one run of a callback of the event loop, except that each *)
(* turn of the loop in doGetNextFrame1() is an action of its own.          *)
(***************************************************************************)
EXTENDS Integers, Sequences, FiniteSets, H264Packets

CONSTANTS
  Sources,      \* what may come: streams of packets, by their payloads
  SeqNos,       \* 2^16 in the code: how many sequence numbers there are
  Bases         \* sequence numbers a stream may start from

\* The SSRC changes from each stream of a source to the next one.
ASSUME SourcesAssumption ==
  \A s \in Sources :
    /\ s # <<>> /\ s \in Seq(Seq(Payloads))
    /\ \A i \in DOMAIN s : \A n \in DOMAIN s[i] : WellFormed(s[i][n])
ASSUME SeqNosAssumption ==
  /\ SeqNos \in Nat /\ SeqNos % 2 = 0 /\ SeqNos > 2
  /\ Bases \subseteq 0..SeqNos - 1

VARIABLES
  source,                 \* the streams that come in this behaviour
  queue,                  \* the packets from fHeadPacket on
  fTailPacket,            \* the packet it points to, or NoPacket
  fNextExpectedSeqNo,
  fHaveSeenFirstPacket,
  saved,                  \* fSavedPacket: "null", "free" or "used"
  reading,                \* fPacketReadInProgress: "none", "saved" or "other"
  fAreDoingNetworkReads,
  fNeedDelivery,
  fCurrentPacketBeginsFrame,
  fCurrentPacketCompletesFrame,
  fCurPacketNALUnitType,
  fPacketLossInFragmentedFrame,
  frame,                  \* what the frame at fSavedTo has been put together from
  task,                   \* nextTask() is scheduled
  looping,                \* inside the loop of doGetNextFrame1()
  ssrc,                   \* fLastReceivedSSRC: a stream, or 0
  old,                    \* queued packets that wait longer than fThresholdTime
  base,                   \* the sequence number of each stream's packet 0
  awaited,                \* history: the packet that fNextExpectedSeqNo means
  delivered               \* history: what the last frame delivered is made of

list    == <<queue, fTailPacket, fNextExpectedSeqNo, fHaveSeenFirstPacket, awaited>>
pool    == <<saved, reading>>
request == <<fAreDoingNetworkReads, fNeedDelivery, task>>
header  == <<fCurrentPacketBeginsFrame, fCurrentPacketCompletesFrame,
             fCurPacketNALUnitType>>
framing == <<header, fPacketLossInFragmentedFrame, frame>>
state   == <<list, pool, request, framing, looping, ssrc, old, base, delivered>>
vars    == <<source, state>>

Streams == DOMAIN source
PacketsOf(src) == UNION {[stream : {s}, n : DOMAIN src[s]] : s \in DOMAIN src}
Packets == PacketsOf(source)
NoPacket == [stream |-> 0, n |-> 0]
Half == SeqNos \div 2

Payload(p) == source[p.stream][p.n]
SeqNo(p) == (base[p.stream] + p.n) % SeqNos

\* A queued packet p: is it the first one of its stream to arrive, is it in the
\* descriptor fSavedPacket, how often has it been used, what is left of it?
Entry(p, first, d) ==
  [packet |-> p, first |-> first, saved |-> (d = "saved"),
   useCount |-> 0, left |-> Payload(p).bytes]
Queued == {queue[i].packet : i \in DOMAIN queue}

Init ==
  /\ source \in Sources
  /\ queue = <<>> /\ fTailPacket = NoPacket
  /\ fNextExpectedSeqNo = 0 /\ fHaveSeenFirstPacket = FALSE /\ awaited = 0
  /\ saved = "null" /\ reading = "none"
  /\ fAreDoingNetworkReads = FALSE /\ fNeedDelivery = FALSE /\ task = FALSE
  /\ fCurrentPacketBeginsFrame = TRUE /\ fCurrentPacketCompletesFrame = TRUE
  /\ fCurPacketNALUnitType = 0
  /\ fPacketLossInFragmentedFrame = FALSE /\ frame = <<>>
  /\ looping = FALSE
  /\ ssrc = 0
  /\ old = {}
  /\ base \in [Streams -> Bases]
  /\ delivered = <<>>

\* Slip: sequence numbers do not wrap around.
SeqNumLTPlain(s1, s2) == s1 < s2

\* seqNumLT(): 'less-than' on sequence numbers.
SeqNumLT(s1, s2) ==
  LET diff == s2 - s1
  IN IF diff > 0 THEN diff < Half ELSE diff < -Half

SuccessorUnwrapped(s) == s + 1
Successor(s) == (s + 1) % SeqNos

(***************************************************************************)
(* Packet descriptors.                                                     *)
(***************************************************************************)

\* getFreePacket(), unless a read is in progress.
FreePacket ==
  IF reading # "none" THEN reading ELSE IF saved = "used" THEN "other" ELSE "saved"

\* The descriptor d is in use.
Take(d) == saved' = IF d = "saved" THEN "used" ELSE saved

\* freePacket()
Free(d) == saved' = IF d = "saved" THEN "free" ELSE saved

(***************************************************************************)
(* storePacket().                                                          *)
(***************************************************************************)

\* Slips: no search for the place of a packet; late packets are not ignored.
PositionLast(s) == Len(queue)
TooLateNever(s, next) == FALSE

\* How many queued packets a packet that is out of order goes behind.
Position(s) ==
  CHOOSE k \in 0..Len(queue) :
    /\ \A i \in 1..k : ~SeqNumLT(s, SeqNo(queue[i].packet))
    /\ k = Len(queue) \/ SeqNumLT(s, SeqNo(queue[k + 1].packet))

TooLate(s, next) == SeqNumLT(s, next)

\* A queued packet on the way to that place has the same sequence number.
Duplicate(s) ==
  \/ SeqNo(fTailPacket) = s
  \/ \E i \in 1..Position(s) : SeqNo(queue[i].packet) = s

\* The packet goes to the tail without a search.
InOrder(s) == IF queue = <<>> THEN TRUE ELSE SeqNumLT(SeqNo(fTailPacket), s)

\* The packet p in the descriptor d is queued: at the tail, or somewhere before
\* it, and then fTailPacket stays.
Link(p, d, first) ==
  LET s     == SeqNo(p)
      entry == Entry(p, first, d)
      k     == Position(s)
  IN \/ /\ InOrder(s)
        /\ queue' = Append(queue, entry)
        /\ fTailPacket' = p
     \/ /\ ~InOrder(s) /\ ~Duplicate(s)
        /\ queue' = SubSeq(queue, 1, k) \o <<entry>> \o SubSeq(queue, k + 1, Len(queue))
        /\ UNCHANGED fTailPacket

\* Is p refused, when `next' is the sequence number awaited?
Refused(p, next) ==
  \/ TooLate(SeqNo(p), next)
  \/ ~InOrder(SeqNo(p)) /\ Duplicate(SeqNo(p))

StorePacket(p, d, seen) ==
  LET next == IF seen THEN fNextExpectedSeqNo ELSE SeqNo(p)
  IN /\ fHaveSeenFirstPacket' = TRUE
     /\ fNextExpectedSeqNo' = next
     /\ awaited' = IF seen THEN awaited ELSE p.n
     /\ IF Refused(p, next)
        THEN Free(d) /\ UNCHANGED <<queue, fTailPacket>>
        ELSE Take(d) /\ Link(p, d, ~seen)

(***************************************************************************)
(* networkReadHandler1().                                                  *)
(***************************************************************************)

\* What may arrive: any packet less than Half away from the one awaited, as
\* often as the network likes.
MayArrive(p) ==
  p.stream = ssrc /\ fHaveSeenFirstPacket => p.n - awaited < Half /\ awaited - p.n < Half

\* A packet arrives in one piece.  Streams follow one another: the network does
\* not bring back a former SSRC.
PacketArrives(p) ==
  /\ fAreDoingNetworkReads /\ ~looping
  /\ p.stream \in {ssrc, ssrc + 1} /\ MayArrive(p)
  /\ reading' = "none"
  /\ ssrc' = p.stream
  /\ StorePacket(p, FreePacket, fHaveSeenFirstPacket /\ p.stream = ssrc)
  /\ looping' = TRUE
  /\ UNCHANGED <<request, framing, old, base, delivered>>

\* A part of a packet arrives over TCP.
PartArrives ==
  /\ fAreDoingNetworkReads /\ ~looping
  /\ Take(FreePacket)
  /\ reading' = FreePacket
  /\ UNCHANGED <<list, request, framing, looping, ssrc, old, base, delivered>>

\* What arrives cannot be read, or is no RTP packet of this stream.
JunkArrives ==
  /\ fAreDoingNetworkReads /\ ~looping
  /\ Free(FreePacket)
  /\ reading' = "none"
  /\ looping' = TRUE
  /\ UNCHANGED <<list, request, framing, ssrc, old, base, delivered>>

(***************************************************************************)
(* doGetNextFrame1().                                                      *)
(***************************************************************************)
Head1 == queue[1].packet
InSequence == SeqNo(Head1) = fNextExpectedSeqNo

\* Slips: the head packet is not given up for; a gap is not
\* reported as packet loss.
CompletedNever == queue # <<>> /\ InSequence
LossNever == InSequence /\ queue[1].first

\* getNextCompletedPacket() gives the head packet: it is the one awaited, or the
\* ones before it have been given up.
Completed == queue # <<>> /\ (InSequence \/ Head1 \in old)
PacketLossPreceded == InSequence => queue[1].first

\* releaseUsedPacket() of the head packet, whose number was awaited.
Release ==
  /\ queue' = Tail(queue)
  /\ fTailPacket' = IF Tail(queue) = <<>> THEN NoPacket ELSE fTailPacket
  /\ fNextExpectedSeqNo' = Successor(SeqNo(Head1))
  /\ awaited' = Head1.n + 1
  /\ Free(IF queue[1].saved THEN "saved" ELSE "other")
  /\ old' = old \ {Head1}

Turn ==
  /\ looping /\ fNeedDelivery /\ Completed
  /\ UNCHANGED <<fHaveSeenFirstPacket, reading, fAreDoingNetworkReads, ssrc, base>>

\* The loop comes to its end.
Break ==
  /\ looping /\ ~(fNeedDelivery /\ Completed)
  /\ looping' = FALSE
  /\ UNCHANGED <<list, pool, request, framing, ssrc, old, base, delivered>>

\* processSpecialHeader() is called before the first use of a packet.
Fresh == queue[1].useCount = 0
BadHeader == Fresh /\ HeaderRejected(Payload(Head1))

\* Slip: the loop is left when a packet is rejected.
RejectHeaderStops ==
  /\ Turn /\ BadHeader
  /\ Release
  /\ looping' = FALSE
  /\ UNCHANGED <<fNeedDelivery, task, framing, delivered>>

\* A payload of one byte is rejected when its type has been noted.
RejectHeader ==
  /\ Turn /\ BadHeader
  /\ Release
  /\ fCurPacketNALUnitType' =
       IF Payload(Head1).bytes > 0 THEN Payload(Head1).type ELSE fCurPacketNALUnitType
  /\ UNCHANGED <<fCurrentPacketBeginsFrame, fCurrentPacketCompletesFrame,
                 fPacketLossInFragmentedFrame, frame>>
  /\ UNCHANGED <<fNeedDelivery, task, looping, delivered>>

\* The head packet begins, completes a frame, as its header or an earlier one
\* says, and its type and its bytes behind that header.
Begins ==
  IF Fresh THEN BeginsFrame(Payload(Head1), fCurrentPacketBeginsFrame)
  ELSE fCurrentPacketBeginsFrame
Completes ==
  IF Fresh THEN CompletesFrame(Payload(Head1), fCurrentPacketCompletesFrame)
  ELSE fCurrentPacketCompletesFrame
NALUnitType == IF Fresh THEN Payload(Head1).type ELSE fCurPacketNALUnitType
Left == queue[1].left - (IF Fresh THEN HeaderBytes(Payload(Head1)) ELSE 0)

ProcessHeader ==
  /\ Turn /\ ~BadHeader
  /\ fCurrentPacketBeginsFrame' = Begins
  /\ fCurrentPacketCompletesFrame' = Completes
  /\ fCurPacketNALUnitType' = NALUnitType

\* The head packet is no part of a frame that can still be put together.
Unusable == ~Begins /\ (PacketLossPreceded \/ fPacketLossInFragmentedFrame)

RejectFragment ==
  /\ ProcessHeader /\ Unusable
  /\ fPacketLossInFragmentedFrame' = TRUE
  /\ Release
  /\ UNCHANGED <<fNeedDelivery, task, frame, looping, delivered>>

\* The bytes that use() takes next.
Stated ==
  LET sizes == Payload(Head1).sizes
  IN IF queue[1].useCount < Len(sizes) THEN sizes[queue[1].useCount + 1] ELSE 0
FrameBytes == EnclosedBytes(NALUnitType, Stated, Left)
LeftBehind == Left - SkippedBytes(NALUnitType, Left) - FrameBytes

\* The frame with those bytes added; what there was of a frame that cannot be
\* completed is forgotten.
FrameSoFar ==
  LET kept == IF Begins /\ (PacketLossPreceded \/ fPacketLossInFragmentedFrame)
              THEN <<>> ELSE frame
  IN IF FrameBytes = 0 THEN kept
     ELSE Append(kept, [packet |-> Head1, unit |-> queue[1].useCount])

\* The head packet is used, and released unless some of it is left.
Use ==
  /\ ProcessHeader /\ ~Unusable
  /\ fPacketLossInFragmentedFrame' = FALSE
  /\ IF LeftBehind <= 0
     THEN Release
     ELSE /\ queue' = [queue EXCEPT ![1].useCount = @ + 1, ![1].left = LeftBehind]
          /\ fNextExpectedSeqNo' = SeqNo(Head1)
          /\ awaited' = Head1.n
          /\ UNCHANGED <<fTailPacket, saved, old>>

\* All the data that the sink wants, and some (fFrameSize > 0).
FrameComplete == Completes /\ FrameSoFar # <<>>

UseFragment ==
  /\ Use /\ ~FrameComplete
  /\ frame' = FrameSoFar
  /\ UNCHANGED <<fNeedDelivery, task, looping, delivered>>

\* Slip: the task is scheduled only when nothing is left in the queue.
DeliverWithoutTask ==
  /\ Use /\ FrameComplete
  /\ delivered' = FrameSoFar
  /\ frame' = <<>>
  /\ fNeedDelivery' = (queue' = <<>>)
  /\ UNCHANGED task
  /\ looping' = (queue' = <<>>)

\* The frame is complete.  With nothing left in the queue the sink is called at
\* once, and asks for the next frame; else it is called by a task.
DeliverFrame ==
  /\ Use /\ FrameComplete
  /\ delivered' = FrameSoFar
  /\ frame' = <<>>
  /\ fNeedDelivery' = (queue' = <<>>)
  /\ task' = (queue' # <<>>)
  /\ looping' = (queue' = <<>>)

(***************************************************************************)
(* The sink, the event loop and the clock.                                 *)
(***************************************************************************)

\* doGetNextFrame(): the sink asks for its first frame.
GetNextFrame ==
  /\ ~fAreDoingNetworkReads
  /\ fAreDoingNetworkReads' = TRUE /\ fNeedDelivery' = TRUE
  /\ frame' = <<>> /\ looping' = TRUE
  /\ UNCHANGED <<list, pool, task, header, fPacketLossInFragmentedFrame, ssrc, old, base,
                 delivered>>

\* The task calls the sink, which asks for the next frame.
AfterGetting ==
  /\ task /\ ~looping
  /\ task' = FALSE
  /\ fNeedDelivery' = TRUE /\ frame' = <<>> /\ looping' = TRUE
  /\ UNCHANGED <<list, pool, fAreDoingNetworkReads, header, fPacketLossInFragmentedFrame,
                 ssrc, old, base, delivered>>

\* doStopGettingFrames(): both reset() functions; fSavedPacket is deleted
\* wherever it is.
StopGettingFrames ==
  /\ fAreDoingNetworkReads /\ ~looping
  /\ queue' = <<>> /\ fTailPacket' = NoPacket /\ fHaveSeenFirstPacket' = FALSE
  /\ saved' = "null" /\ reading' = "none"
  /\ fAreDoingNetworkReads' = FALSE /\ fNeedDelivery' = FALSE /\ task' = FALSE
  /\ fCurrentPacketBeginsFrame' = TRUE /\ fCurrentPacketCompletesFrame' = TRUE
  /\ fPacketLossInFragmentedFrame' = FALSE /\ frame' = <<>>
  /\ old' = {} /\ delivered' = <<>>
  /\ UNCHANGED <<fCurPacketNALUnitType, fNextExpectedSeqNo, awaited, looping, ssrc, base>>

\* A queued packet has waited for longer than fThresholdTime.  gettimeofday()
\* is a clock that may be set: packets may grow old in any order.
Age(p) ==
  /\ p \in Queued \ old
  /\ old' = old \cup {p}
  /\ UNCHANGED <<list, pool, request, framing, looping, ssrc, base, delivered>>

Loop == Break \/ RejectHeader \/ RejectFragment \/ UseFragment \/ DeliverFrame

Next ==
  /\ UNCHANGED source
  /\ \/ \E p \in Packets : PacketArrives(p) \/ Age(p)
     \/ PartArrives \/ JunkArrives
     \/ Loop \/ GetNextFrame \/ AfterGetting \/ StopGettingFrames

Spec == Init /\ [][Next]_vars

AllPackets == UNION {PacketsOf(src) : src \in Sources}

\* The loop is run to its end; time passes; the scheduler runs a task that is due
\* after each socket handler, at the end of SingleStep(); and something keeps
\* arriving: there is no timer that looks at the queue when nothing does.
FairSpec ==
  /\ Spec
  /\ WF_state(Loop) /\ SF_state(AfterGetting) /\ WF_state(JunkArrives)
  /\ \A p \in AllPackets : WF_state(Age(p))

(***************************************************************************)
(* Properties.                                                             *)
(***************************************************************************)

\* Every variable has its type; fNextExpectedSeqNo stays a 16-bit number.
TypeOK ==
  /\ queue \in Seq([packet : Packets, first : BOOLEAN, saved : BOOLEAN,
                      useCount : Nat, left : Nat])
  /\ fTailPacket \in Packets \cup {NoPacket}
  /\ fNextExpectedSeqNo \in 0..SeqNos - 1
  /\ awaited \in Nat
  /\ saved \in {"null", "free", "used"} /\ reading \in {"none", "saved", "other"}
  /\ {fHaveSeenFirstPacket, fAreDoingNetworkReads, fNeedDelivery,
      fCurrentPacketBeginsFrame, fCurrentPacketCompletesFrame,
      fPacketLossInFragmentedFrame, task, looping} \subseteq BOOLEAN
  /\ {frame, delivered} \subseteq Seq([packet : Packets, unit : Nat])
  /\ fCurPacketNALUnitType \in 0..31 /\ source \in Sources
  /\ ssrc \in {0} \cup Streams /\ base \in [Streams -> Bases]
  /\ old \subseteq Queued

\* The SSRC has not changed.
OneSource == ssrc <= 1

\* However the packets of one source arrive, also around the wrap of the
\* sequence numbers, the queue is in their order, without duplicates, and
\* fTailPacket is its last: what storePacket() relies on when it appends
\* without a search.  It does not fall behind the number awaited either, which is
\* an assertion in getNextCompletedPacket().
QueueOrdered ==
  OneSource =>
  /\ \A i \in 2..Len(queue) : SeqNumLT(SeqNo(queue[i - 1].packet), SeqNo(queue[i].packet))
  /\ fTailPacket = IF queue = <<>> THEN NoPacket ELSE queue[Len(queue)].packet
  /\ queue # <<>> => ~SeqNumLT(SeqNo(Head1), fNextExpectedSeqNo)

\* The descriptor that is kept "to avoid calling new/free in the common case" is
\* in the queue or in fPacketReadInProgress exactly when fSavedPacketFree is not
\* set, and never in two places: reset() deletes it once.
SavedOnce ==
  Cardinality({i \in DOMAIN queue : queue[i].saved})
    + (IF reading = "saved" THEN 1 ELSE 0) = (IF saved = "used" THEN 1 ELSE 0)

\* What storePacket(), releaseUsedPacket() and reset() rely on.
BufferSound == TypeOK /\ QueueOrdered /\ SavedOnce

\* One whole frame: consecutive packets of one stream, from one that begins a
\* frame to the next one that completes it; an aggregate is neither.
WholeFrame(pieces) ==
  \A i \in DOMAIN pieces :
    LET p == pieces[i].packet IN
    /\ p = [pieces[1].packet EXCEPT !.n = @ + i - 1]
    /\ i = 1 <=> BeginsFrame(Payload(p), FALSE)
    /\ i = Len(pieces) <=> CompletesFrame(Payload(p), FALSE)

\* No fragment of the first stream is without data.
AllHaveData ==
  \A n \in DOMAIN source[1] :
    LET h == source[1][n] IN IsFragment(h.type) => HeaderBytes(h) # h.bytes \/ HeaderRejected(h)

\* The packet n of the first stream is not rejected, and it begins a frame if and
\* only if the packet before it has completed one, or is rejected.
InPlace(n) ==
  LET before == source[1][n - 1] IN
  /\ ~HeaderRejected(source[1][n])
  /\ n - 1 \in DOMAIN source[1] =>
       (BeginsFrame(source[1][n], TRUE) <=> HeaderRejected(before) \/ CompletesFrame(before, TRUE))

\* "We didn't get all of the previous frame.  Forget any data that we used from
\* it" (MultiFramedRTPSource.cpp:161): whatever is lost, late or given up, the
\* sink is given whole frames, and the units of aggregates one by one.  That
\* holds if the sender cuts the frames whole and puts data in each fragment, if no
\* packet of the frame was rejected, which hides a loss, and if no aggregate came
\* behind a first fragment, whose flags it is then used with.
FrameIntact ==
  LET First == delivered[1].packet.n
      Last  == delivered[Len(delivered)].packet.n
      Enclosed(i) == IsAggregate(Payload(delivered[i].packet).type)
  IN OneSource /\ delivered # <<>> /\ AllHaveData
     /\ (\A n \in First..Last : InPlace(n))
     /\ (\A i \in DOMAIN delivered : ~Enclosed(i))
       => WholeFrame(delivered)

\* When the callback returns to the event loop, the sink's request is either
\* pending, and then the packet it waits for is not at the head of the queue, or
\* answered, and then the task that calls the sink is scheduled: nothing but the
\* next arrival would look at the queue again.
NoLostWakeup ==
  fAreDoingNetworkReads /\ ~looping =>
    /\ fNeedDelivery # task
    /\ fNeedDelivery /\ queue # <<>> => ~InSequence

\* Frames of one source are delivered in the order of the stream, and the units of
\* an aggregate in theirs, none of them twice.
DeliveredInOrder ==
  [][OneSource' /\ delivered # <<>> /\ delivered' \notin {delivered, <<>>} =>
       \A i \in DOMAIN delivered, j \in DOMAIN delivered' :
         \/ delivered[i].packet.n < delivered'[j].packet.n
         \/ /\ delivered[i].packet = delivered'[j].packet
            /\ delivered[i].unit < delivered'[j].unit]_vars

\* A packet does not stay in the queue for ever, though packets before it are
\* lost, if something keeps arriving.
Drains ==
  \A p \in AllPackets : p \in Queued ~> p \notin Queued
=============================================================================
