---------------------------- MODULE Interleaving ----------------------------
(***************************************************************************)
(* RTP and RTCP over the TCP connection of RTSP (liveMedia/RTPInterface).  *)
(* After the first SETUP a SocketDescriptor reads the socket in place of   *)
(* RTSPClient.  It takes `$', channel and size off the stream, has the     *)
(* interface of that channel read the packet itself, and hands every byte  *)
(* that is between packets to RTSPClient.  Handlers that it calls may stop *)
(* and close interfaces; when the last one has gone, the descriptor is     *)
(* deleted, and RTSPClient reads the socket again.                         *)
(***************************************************************************)
EXTENDS Integers, Sequences, FiniteSets

CONSTANTS
  Subsessions,   \* each with one channel for RTP and the next one for RTCP
  Radix,         \* what the high byte of a size counts (256)
  MaxRtcp,       \* maxRTCPPacketSize
  MaxCalls,      \* of tcpReadHandler1() in one call of tcpReadHandler() (2000)
  Worlds         \* what the server sends: wire, a sequence of units, each one a
                 \* packet [to |-> a channel, data |-> bytes] or [to |-> RTSP,
                 \* data |-> a byte, setup |-> the subsession whose SETUP it
                 \* answers]; early, before PLAY; and what else may happen: stops,
                 \* the application pauses and closes; breaks, the connection does;
                 \* stalls, the server does not read, so that a report is not sent

ASSUME SubsessionsAssumption == Subsessions \subseteq Nat
ASSUME SizesAssumption == {Radix, MaxRtcp, MaxCalls} \subseteq Nat \ {0}

Rtp(i)  == 2 * i
Rtcp(i) == 2 * i + 1
ChannelsOf(i) == {Rtp(i), Rtcp(i)}
Channels == UNION {ChannelsOf(i) : i \in Subsessions}
RtcpChannels == {Rtcp(i) : i \in Subsessions}
RTSP == -1
Dollar == 36
Signals == {254, 255}    \* 0xFE and 0xFF mean something else to RTSPClient

VARIABLES
  world,
  arrived, taken,          \* bytes that have come in; that have been read
  broken,                  \* the next read, with all bytes taken, fails
  reader,                  \* whose handler the socket has: "client",
                           \* "descriptor", "none"
  phase,                   \* "idle", the event loop; "loop", tcpReadHandler();
                           \* "callback", a handler called by it
  count,                   \* the calls of tcpReadHandler1() left; 0 after it has
                           \* returned False
  exists,                  \* the socket is in socketTable
  fSubChannelHashTable, fServerRequestAlternativeByteHandler,
  fTCPReadingState, fStreamChannelId, fSizeByte1,
  fReadErrorOccurred, fDeleteMyselfNext,
  fTCPStreams,             \* the channels whose interface has its record
  fReadHandlerProc,        \* those whose interface has a handler
  fNextTCPReadSize,
  fNextTCPReadStreamSocketNum,  \* the channels where it is not -1
  fInBuf,                  \* bytes of a packet that is not complete
  open, playing,           \* the subsessions that are set up; whose source reads
  given,                   \* history: what the handlers were given
  told,                    \* RTSPClient knows that the connection is lost
  detached                 \* history: an open subsession has lost an interface, or
                           \* will have when the loop ends

app        == <<open, playing, detached>>
interfaces == <<fTCPStreams, fReadHandlerProc>>
reading    == <<fNextTCPReadSize, fNextTCPReadStreamSocketNum, fInBuf>>
parsing    == <<fTCPReadingState, fStreamChannelId, fSizeByte1>>
descriptor == <<exists, fSubChannelHashTable, fServerRequestAlternativeByteHandler,
                fReadErrorOccurred, fDeleteMyselfNext>>
loop  == <<phase, count>>
wire  == <<arrived, broken>>
state == <<app, interfaces, reading, parsing, descriptor, loop, wire, taken, reader, given, told>>
vars  == <<world, state>>

Packets == [to : Channels, data : Seq(Nat)]
Texts   == {u \in [to : {RTSP}, data : Seq(Nat), setup : Subsessions \cup {RTSP}] : Len(u.data) = 1}
ASSUME WorldsAssumption ==
  \A w \in Worlds : w.wire \in Seq(Packets \cup Texts) /\ {w.early, w.stops, w.breaks, w.stalls} \subseteq BOOLEAN

\* What is sent for a unit, where its last byte is, and all that is sent.
Encoded(u) ==
  IF u.to = RTSP THEN u.data
  ELSE <<Dollar, u.to, Len(u.data) \div Radix, Len(u.data) % Radix>> \o u.data
EndOf == [w \in Worlds |->
  LET end[k \in 0..Len(w.wire)] == IF k = 0 THEN 0 ELSE end[k - 1] + Len(Encoded(w.wire[k]))
  IN end]
BytesOf == [w \in Worlds |->
  LET end  == EndOf[w]
      At(n) == CHOOSE k \in DOMAIN w.wire : n \in end[k - 1] + 1..end[k]
  IN [n \in 1..end[Len(w.wire)] |-> Encoded(w.wire[At(n)])[n - end[At(n) - 1]]]]
Bytes  == BytesOf[world]
End(k) == EndOf[world][k]

\* The SETUPs that the bytes between two places answer.
Answered(first, last) ==
  {world.wire[k].setup : k \in {j \in DOMAIN world.wire :
     world.wire[j].to = RTSP /\ End(j) \in first..last}} \cap Subsessions

InLoop == phase # "idle"      \* fAreInReadHandlerLoop
States == {"AWAITING_DOLLAR", "AWAITING_STREAM_CHANNEL_ID", "AWAITING_SIZE1",
           "AWAITING_SIZE2", "AWAITING_PACKET_DATA"}

Init ==
  /\ world \in Worlds
  /\ arrived = 0 /\ taken = 0 /\ broken = FALSE
  /\ reader = "client" /\ phase = "idle" /\ count = 0
  /\ exists = FALSE /\ fSubChannelHashTable = {}
  /\ fServerRequestAlternativeByteHandler = FALSE
  /\ fTCPReadingState = "AWAITING_DOLLAR" /\ fStreamChannelId = 0 /\ fSizeByte1 = 0
  /\ fReadErrorOccurred = FALSE /\ fDeleteMyselfNext = FALSE
  /\ fTCPStreams = {} /\ fReadHandlerProc = {}
  /\ fNextTCPReadSize = [c \in Channels |-> 0]
  /\ fNextTCPReadStreamSocketNum = {}
  /\ fInBuf = [c \in Channels |-> <<>>]
  /\ open = {} /\ playing = {}
  /\ given = <<>> /\ told = FALSE /\ detached = FALSE

(***************************************************************************)
(* The network.                                                            *)
(***************************************************************************)

\* The server sends for a subsession after PLAY, or, if early, after SETUP; it
\* answers a SETUP when the answer to the one before has been read.
MaySend(k) ==
  LET u == world.wire[k]
  IN IF u.to = RTSP THEN u.setup \in Subsessions => Answered(taken + 1, End(k) - 1) = {}
     ELSE \E i \in Subsessions : /\ u.to \in ChannelsOf(i)
                                 /\ Rtp(i) \in fReadHandlerProc \/ (world.early /\ i \in open)

\* Any number of bytes arrives.
Arrive ==
  /\ ~broken
  /\ \E n \in arrived + 1..Len(Bytes) :
       /\ \A k \in DOMAIN world.wire : End(k - 1) < n => MaySend(k)
       /\ arrived' = n
  /\ UNCHANGED <<world, broken, app, interfaces, reading, parsing, descriptor, loop, taken,
                 reader, given, told>>

Break ==
  /\ world.breaks /\ ~broken
  /\ broken' = TRUE
  /\ UNCHANGED <<world, arrived, app, interfaces, reading, parsing, descriptor, loop, taken,
                 reader, given, told>>

(***************************************************************************)
(* Interfaces register and deregister.                                     *)
(***************************************************************************)

\* lookupSocketDescriptor() creates a descriptor if there is none; its first
\* interface makes it the reader of the socket.  If they were `emptied' out of the
\* table just before, within the loop, the descriptor is still to be deleted.
Register(S, emptied) ==
  /\ exists' = TRUE
  /\ fSubChannelHashTable' = fSubChannelHashTable \cup S
  /\ reader' = IF fSubChannelHashTable = {} \/ emptied THEN "descriptor" ELSE reader
  /\ IF exists
     THEN /\ fDeleteMyselfNext' = (fDeleteMyselfNext \/ emptied)
          /\ UNCHANGED <<parsing, fReadErrorOccurred>>
     ELSE /\ fTCPReadingState' = "AWAITING_DOLLAR"
          /\ fReadErrorOccurred' = FALSE /\ fDeleteMyselfNext' = FALSE
          /\ UNCHANGED <<fStreamChannelId, fSizeByte1>>

\* ~SocketDescriptor(), with an interface for each channel in S, whose record of
\* the socket goes.  RTSPClient takes the socket back, or learns of the error and
\* closes it.
Delete(S, error) ==
  /\ exists' = FALSE /\ fSubChannelHashTable' = {}
  /\ fServerRequestAlternativeByteHandler' = FALSE
  /\ fReadErrorOccurred' = FALSE /\ fDeleteMyselfNext' = FALSE
  /\ fTCPStreams' = fTCPStreams \ S
  /\ reader' = IF fServerRequestAlternativeByteHandler /\ ~error THEN "client" ELSE "none"
  /\ told' = (told \/ (fServerRequestAlternativeByteHandler /\ error))

\* Slip: a descriptor without an interface is deleted at once.
DeregisterAtOnce(S, gone) ==
  LET left == fSubChannelHashTable \ S
  IN IF exists /\ left = {} THEN Delete(gone, FALSE)
     ELSE /\ fSubChannelHashTable' = left
          /\ fTCPStreams' = fTCPStreams \ gone
          /\ UNCHANGED <<exists, fServerRequestAlternativeByteHandler, fReadErrorOccurred,
                         fDeleteMyselfNext, reader, told>>

\* deregisterSocket() for some channels, while the records `gone' go: a descriptor
\* that is left without an interface is deleted, now or when its loop ends.
Deregister(S, gone) ==
  LET left == fSubChannelHashTable \ S
  IN IF exists /\ left = {} /\ ~InLoop THEN Delete(gone, FALSE)
     ELSE /\ fSubChannelHashTable' = left
          /\ fTCPStreams' = fTCPStreams \ gone
          /\ fDeleteMyselfNext' = (fDeleteMyselfNext \/ (exists /\ left = {}))
          /\ UNCHANGED <<exists, fServerRequestAlternativeByteHandler, fReadErrorOccurred,
                         reader, told>>

(***************************************************************************)
(* RTSPClient and the application.                                         *)
(***************************************************************************)
InHandler == phase \in {"idle", "callback"}

\* handleSETUPResponse(): a source gets a record unless it has one.  The interface of an
\* RTCP instance, in its setStreamSocket() (RTCP.cpp:382), deregisters, gets a record unless
\* it has one, and registers; if the table was empty in between, its descriptor will go.
\* (Outside of the loop there is no descriptor yet.)  Bytes between packets come to
\* RTSPClient from now on.
Setup(S) ==
  LET rtcp    == {Rtcp(i) : i \in S}
      new     == {Rtp(i) : i \in S} \ fTCPStreams
      emptied == exists /\ rtcp \cap fTCPStreams # {} /\ (fSubChannelHashTable \cup new) \ rtcp = {}
  IN /\ open' = open \cup S /\ UNCHANGED playing
     /\ fTCPStreams' = fTCPStreams \cup new \cup rtcp
     /\ fReadHandlerProc' = fReadHandlerProc \cup rtcp
     /\ detached' = (detached \/ emptied)
     /\ IF S = {}
        THEN UNCHANGED <<exists, fSubChannelHashTable, reader, parsing, fReadErrorOccurred,
                         fDeleteMyselfNext>>
        ELSE Register(new \cup rtcp, emptied)
     /\ fServerRequestAlternativeByteHandler' =
          (fServerRequestAlternativeByteHandler \/ (S # {} /\ exists'))

\* doGetNextFrame() for a source that is not reading: startNetworkReading().
Play(i) ==
  /\ InHandler /\ i \in open \ playing
  /\ playing' = playing \cup {i}
  /\ fReadHandlerProc' = fReadHandlerProc \cup {Rtp(i)}
  /\ IF Rtp(i) \in fTCPStreams
     THEN /\ Register({Rtp(i)}, FALSE)
          /\ fServerRequestAlternativeByteHandler' = (exists /\ fServerRequestAlternativeByteHandler)
     ELSE UNCHANGED <<parsing, descriptor, reader>>
  /\ UNCHANGED <<world, open, detached, fTCPStreams, reading, loop, wire, taken, given, told>>

\* doStopGettingFrames(): stopNetworkReading(), and the packet that is being read
\* is dropped.
Pause(i) ==
  /\ world.stops
  /\ InHandler /\ i \in open \cap playing
  /\ playing' = playing \ {i}
  /\ fInBuf' = [fInBuf EXCEPT ![Rtp(i)] = <<>>]
  /\ Deregister({Rtp(i)} \cap fTCPStreams, {})
  /\ UNCHANGED <<world, open, detached, fReadHandlerProc, parsing, fNextTCPReadSize,
                 fNextTCPReadStreamSocketNum, loop, wire, taken, given>>

\* deInitiate() closes the RTCP instance and the source, with their interfaces; a
\* later SETUP makes new ones.
Close(i) ==
  /\ world.stops
  /\ InHandler /\ i \in open
  /\ open' = open \ {i} /\ playing' = playing \ {i}
  /\ Deregister(ChannelsOf(i) \cap fTCPStreams, ChannelsOf(i))
  /\ fReadHandlerProc' = fReadHandlerProc \ ChannelsOf(i)
  /\ fNextTCPReadSize' = [c \in Channels |-> IF c \in ChannelsOf(i) THEN 0 ELSE fNextTCPReadSize[c]]
  /\ fNextTCPReadStreamSocketNum' = fNextTCPReadStreamSocketNum \ ChannelsOf(i)
  /\ fInBuf' = [c \in Channels |-> IF c \in ChannelsOf(i) THEN <<>> ELSE fInBuf[c]]
  /\ UNCHANGED <<world, detached, parsing, loop, wire, taken, given>>

\* A report cannot be sent, since the connection is lost, or the rest of it not within
\* half a second: removeStreamSocket() for the RTCP instance.
SendFails(i) ==
  /\ broken \/ world.stalls
  /\ phase = "idle" /\ i \in open /\ Rtcp(i) \in fTCPStreams
  /\ Deregister({Rtcp(i)}, {Rtcp(i)})
  /\ detached' = TRUE
  /\ UNCHANGED <<world, open, playing, fReadHandlerProc, reading, parsing, loop, wire, taken, given>>

\* incomingDataHandler(): RTSPClient reads all that is there.
ClientReads ==
  /\ phase = "idle" /\ reader = "client"
  /\ taken < arrived
  /\ taken' = arrived
  /\ given' = given \o [k \in 1..arrived - taken |-> [to |-> RTSP, data |-> <<Bytes[taken + k]>>]]
  /\ Setup(Answered(taken + 1, arrived))
  /\ UNCHANGED <<world, reading, loop, wire, told>>

ClientReadFails ==
  /\ phase = "idle" /\ reader = "client"
  /\ broken /\ taken = arrived
  /\ told' = TRUE /\ reader' = "none"
  /\ UNCHANGED <<world, app, interfaces, reading, parsing, descriptor, loop, wire, taken, given>>

(***************************************************************************)
(* tcpReadHandler(), one step for each call of tcpReadHandler1().          *)
(***************************************************************************)
Readable ==
  /\ phase = "idle" /\ reader = "descriptor"
  /\ taken < arrived \/ broken
  /\ phase' = "loop" /\ count' = MaxCalls
  /\ UNCHANGED <<world, app, interfaces, reading, parsing, descriptor, wire, taken, reader, given, told>>

Reading == phase = "loop" /\ count > 0 /\ ~fDeleteMyselfNext
Again == count' = count - 1
ReadingHeader == Reading /\ fTCPReadingState # "AWAITING_PACKET_DATA"
ReadingData   == Reading /\ fTCPReadingState = "AWAITING_PACKET_DATA"
Byte == Bytes[taken + 1]
chan == fStreamChannelId

\* A byte between packets, or the `$' of the next one.
AwaitingDollar ==
  /\ ReadingHeader /\ taken < arrived /\ taken' = taken + 1 /\ Again
  /\ fTCPReadingState = "AWAITING_DOLLAR"
  /\ UNCHANGED <<world, reading, wire, told>>
  /\ \/ /\ Byte = Dollar
        /\ fTCPReadingState' = "AWAITING_STREAM_CHANNEL_ID"
        /\ UNCHANGED <<app, interfaces, fStreamChannelId, fSizeByte1, descriptor, phase, reader, given>>
     \/ /\ Byte # Dollar
        /\ Byte \in Signals \/ ~fServerRequestAlternativeByteHandler
        /\ UNCHANGED <<app, interfaces, parsing, descriptor, phase, reader, given>>
     \/ /\ Byte # Dollar
        /\ Byte \notin Signals /\ fServerRequestAlternativeByteHandler
        /\ given' = Append(given, [to |-> RTSP, data |-> <<Byte>>])
        /\ phase' = "callback"
        /\ Setup(Answered(taken + 1, taken + 1))

AwaitingChannel ==
  /\ ReadingHeader /\ taken < arrived /\ taken' = taken + 1 /\ Again
  /\ fTCPReadingState = "AWAITING_STREAM_CHANNEL_ID"
  /\ IF Byte \in fSubChannelHashTable
     THEN fTCPReadingState' = "AWAITING_SIZE1" /\ fStreamChannelId' = Byte
     ELSE fTCPReadingState' = "AWAITING_DOLLAR" /\ UNCHANGED fStreamChannelId
  /\ UNCHANGED <<world, app, interfaces, reading, fSizeByte1, descriptor, phase, wire, reader,
                 given, told>>

AwaitingSize1 ==
  /\ ReadingHeader /\ taken < arrived /\ taken' = taken + 1 /\ Again
  /\ fTCPReadingState = "AWAITING_SIZE1"
  /\ fTCPReadingState' = "AWAITING_SIZE2" /\ fSizeByte1' = Byte
  /\ UNCHANGED <<world, app, interfaces, reading, fStreamChannelId, descriptor, phase, wire,
                 reader, given, told>>

\* The interface learns what it will read next, if it is still there.
AwaitingSize2 ==
  /\ ReadingHeader /\ taken < arrived /\ taken' = taken + 1 /\ Again
  /\ fTCPReadingState = "AWAITING_SIZE2"
  /\ fTCPReadingState' = "AWAITING_PACKET_DATA"
  /\ IF chan \in fSubChannelHashTable
     THEN /\ fNextTCPReadSize' = [fNextTCPReadSize EXCEPT ![chan] = fSizeByte1 * Radix + Byte]
          /\ fNextTCPReadStreamSocketNum' = fNextTCPReadStreamSocketNum \cup {chan}
     ELSE UNCHANGED <<fNextTCPReadSize, fNextTCPReadStreamSocketNum>>
  /\ UNCHANGED <<world, app, interfaces, fInBuf, fStreamChannelId, fSizeByte1, descriptor,
                 phase, wire, reader, given, told>>

\* One byte is to be read, of a header or of a packet that nobody reads.
Skipping == ReadingData /\ chan \in fSubChannelHashTable \ fReadHandlerProc /\ fNextTCPReadSize[chan] > 0

NothingToRead ==
  /\ ReadingHeader \/ Skipping
  /\ taken = arrived /\ ~broken
  /\ count' = 0
  /\ UNCHANGED <<world, app, interfaces, reading, parsing, descriptor, phase, wire, taken, reader,
                 given, told>>

\* Slip: the descriptor is not deleted.
ReadFailsOnly ==
  /\ ReadingHeader \/ Skipping
  /\ taken = arrived /\ broken
  /\ fReadErrorOccurred' = TRUE
  /\ fTCPReadingState' = IF Skipping THEN "AWAITING_DOLLAR" ELSE fTCPReadingState
  /\ count' = 0
  /\ UNCHANGED <<world, app, interfaces, reading, fStreamChannelId, fSizeByte1, exists, fDeleteMyselfNext,
                 fSubChannelHashTable, fServerRequestAlternativeByteHandler, phase, wire, taken,
                 reader, given, told>>

ReadFails ==
  /\ ReadingHeader \/ Skipping
  /\ taken = arrived /\ broken
  /\ fReadErrorOccurred' = TRUE /\ fDeleteMyselfNext' = TRUE
  /\ fTCPReadingState' = IF Skipping THEN "AWAITING_DOLLAR" ELSE fTCPReadingState
  /\ count' = 0
  /\ UNCHANGED <<world, app, interfaces, reading, fStreamChannelId, fSizeByte1, exists,
                 fSubChannelHashTable, fServerRequestAlternativeByteHandler, phase, wire, taken,
                 reader, given, told>>

SkipByte ==
  /\ Skipping
  /\ taken < arrived /\ taken' = taken + 1 /\ Again
  /\ fNextTCPReadSize' = [fNextTCPReadSize EXCEPT ![chan] = @ - 1]
  /\ UNCHANGED <<world, app, interfaces, fNextTCPReadStreamSocketNum, fInBuf, parsing, descriptor,
                 phase, wire, reader, given, told>>

\* The packet has been read, or its interface has gone.
PacketDone ==
  /\ ReadingData
  /\ chan \in fSubChannelHashTable => fNextTCPReadSize[chan] = 0
  /\ fTCPReadingState' = "AWAITING_DOLLAR" /\ count' = 0
  /\ UNCHANGED <<world, app, interfaces, reading, fStreamChannelId, fSizeByte1, descriptor,
                 phase, wire, taken, reader, given, told>>

\* The buffer of the RTCP instance is full, for good; that of a source holds any
\* packet.
HitLimit == chan \in RtcpChannels /\ Len(fInBuf[chan]) >= MaxRtcp

Smaller(m, n) == IF m < n THEN m ELSE n

\* How much handleRead() asks for, and gets.
Asked == IF chan \in RtcpChannels THEN Smaller(fNextTCPReadSize[chan], MaxRtcp - Len(fInBuf[chan]))
         ELSE fNextTCPReadSize[chan]
Got   == Smaller(Asked, arrived - taken)

\* Slip: the rest of a packet is read over what was there of it.
DataAnew == SubSeq(Bytes, taken + 1, taken + Got)

Data == fInBuf[chan] \o SubSeq(Bytes, taken + 1, taken + Got)

\* Slip: handleRead() does not return early when more is to come.
ForgetsAlways(whole, fails) == TRUE

\* Whether handleRead() ends with fNextTCPReadStreamSocketNum = -1.
Forgets(whole, fails) == whole \/ fails

\* The interface reads: the whole rest of its packet, or what is there.  After an
\* error it forgets the socket, but not the size; from then on it reads its
\* datagram socket, which is closed.
ReadPacket ==
  /\ ReadingData /\ chan \in fSubChannelHashTable \cap fReadHandlerProc
  /\ fNextTCPReadSize[chan] > 0
  /\ count' = 0
  /\ IF HitLimit \/ chan \notin fNextTCPReadStreamSocketNum
     THEN UNCHANGED <<reading, taken, given, phase>>
     ELSE LET whole == Got = fNextTCPReadSize[chan]
              fails == ~whole /\ Got < Asked /\ broken
          IN /\ taken' = taken + Got
             /\ fNextTCPReadSize' = [fNextTCPReadSize EXCEPT ![chan] = @ - Got]
             /\ fInBuf' = [fInBuf EXCEPT ![chan] = IF whole \/ fails THEN <<>> ELSE Data]
             /\ fNextTCPReadStreamSocketNum' =
                  fNextTCPReadStreamSocketNum \ (IF Forgets(whole, fails) THEN {chan} ELSE {})
             /\ given' = IF whole THEN Append(given, [to |-> chan, data |-> Data]) ELSE given
             /\ phase' = IF whole THEN "callback" ELSE phase
  /\ UNCHANGED <<world, app, interfaces, parsing, descriptor, wire, reader, told>>

HandlerReturns ==
  /\ phase = "callback" /\ phase' = "loop"
  /\ UNCHANGED <<world, app, interfaces, reading, parsing, descriptor, count, wire, taken,
                 reader, given, told>>

LoopEnds ==
  /\ phase = "loop" /\ ~Reading
  /\ phase' = "idle"
  /\ count' = 0
  /\ IF fDeleteMyselfNext THEN Delete(fSubChannelHashTable, fReadErrorOccurred)
     ELSE UNCHANGED <<descriptor, reader, fTCPStreams, told>>
  /\ UNCHANGED <<world, app, fReadHandlerProc, reading, parsing, wire, taken, given>>

Step ==
  \/ Readable \/ AwaitingDollar \/ AwaitingChannel \/ AwaitingSize1 \/ AwaitingSize2
  \/ NothingToRead \/ ReadFails \/ SkipByte \/ PacketDone \/ ReadPacket
  \/ HandlerReturns \/ LoopEnds \/ ClientReads \/ ClientReadFails

Next ==
  \/ Arrive \/ Break \/ Step
  \/ \E i \in Subsessions : Play(i) \/ Pause(i) \/ Close(i) \/ SendFails(i)

Spec == Init /\ [][Next]_vars

\* The event loop runs, handlers return, the server sends, and the application
\* plays what it has set up.
FairSpec ==
  /\ Spec
  /\ WF_state(Step) /\ WF_state(Arrive)
  /\ \A i \in Subsessions : WF_state(Play(i))
-----------------------------------------------------------------------------
(***************************************************************************)
(* Properties.                                                             *)
(***************************************************************************)

\* The values the variables may have.
TypeOK ==
  /\ world \in Worlds
  /\ arrived \in 0..Len(Bytes) /\ taken \in 0..arrived
  /\ broken \in BOOLEAN /\ told \in BOOLEAN /\ count \in 0..MaxCalls
  /\ reader \in {"client", "descriptor", "none"}
  /\ phase \in {"idle", "loop", "callback"}
  /\ exists \in BOOLEAN /\ fSubChannelHashTable \subseteq Channels
  /\ fServerRequestAlternativeByteHandler \in BOOLEAN
  /\ fTCPReadingState \in States /\ fStreamChannelId \in Nat /\ fSizeByte1 \in Nat
  /\ fReadErrorOccurred \in BOOLEAN /\ fDeleteMyselfNext \in BOOLEAN
  /\ fTCPStreams \subseteq Channels /\ fReadHandlerProc \subseteq Channels
  /\ fNextTCPReadSize \in [Channels -> Nat]
  /\ fNextTCPReadStreamSocketNum \subseteq Channels
  /\ fInBuf \in [Channels -> Seq(Nat)]
  /\ open \subseteq Subsessions /\ playing \subseteq open /\ detached \in BOOLEAN
  /\ given \in Seq([to : Channels \cup {RTSP}, data : Seq(Nat)])

\* Nobody stops; there is no packet before PLAY; no text has bytes that mean something
\* to the descriptor; and where the connection breaks or stalls no SETUP is answered again,
\* which would attach an interface that has lost the connection.
Calm ==
  LET texts == {k \in DOMAIN world.wire : world.wire[k].to = RTSP}
  IN /\ ~world.stops /\ ~world.early
     /\ \A k \in texts : world.wire[k].data[1] \notin {Dollar} \cup Signals
     /\ world.breaks \/ world.stalls =>
          \A j, k \in texts : world.wire[j].setup = world.wire[k].setup /\ world.wire[j].setup \in Subsessions
                                => j = k

\* The interfaces that were set up are there, and were before their packets.
Steady == Calm /\ \A i \in open : ChannelsOf(i) \subseteq fTCPStreams

\* How many of the first `k' units are not empty; and the handlers were given just these,
\* in their order.
Place(k) == Cardinality({j \in 1..k : world.wire[j].data # <<>>})
GivenUpTo(k) ==
  /\ Len(given) = Place(k)
  /\ \A j \in 1..k : LET u == world.wire[j]
                     IN u.data # <<>> => given[Place(j)] = [to |-> u.to, data |-> u.data]

\* However the bytes arrive, and wherever the loop is left and entered again: each
\* interface is given the packets of its channel, whole and in order, and
\* RTSPClient the bytes between them, no matter who reads the socket.
Framed == TypeOK /\ (Steady => \E k \in 0..Len(world.wire) : GivenUpTo(k))

\* The socket has one reader: the descriptor, as long as somebody listens, which is not
\* deleted within its own loop.  And that one knows all who listen: RTSPClient, for the
\* bytes between packets; of the subsessions that are open all, and of those that pause
\* RTCP only.  If nobody listens, RTSPClient reads.  Two things come in between: a
\* connection that is lost, and an interface that was `detached'.
Attended ==
  /\ InLoop => exists
  /\ reader = "descriptor" <=> exists
  /\ phase = "idle" => (exists <=> fSubChannelHashTable # {})
  /\ ~broken /\ ~detached =>
       /\ exists => fServerRequestAlternativeByteHandler
       /\ phase = "idle" =>
            /\ fSubChannelHashTable = {Rtcp(i) : i \in open} \cup {Rtp(i) : i \in playing} \cup
                                      {Rtp(i) : i \in {j \in open : Rtp(j) \notin fReadHandlerProc}}
            /\ reader = IF exists THEN "descriptor" ELSE "client"

\* All that was sent is read, if no packet overruns the buffer for RTCP.
AllRead ==
  (~world.stops /\ ~world.early /\ ~world.breaks /\ ~world.stalls /\ \A k \in DOMAIN world.wire :
                                world.wire[k].to \in RtcpChannels => Len(world.wire[k].data) <= MaxRtcp)
    ~> GivenUpTo(Len(world.wire))

\* The interface that a packet is for has met an error in it, and no longer reads.
GivenUp ==
  /\ fTCPReadingState = "AWAITING_PACKET_DATA" /\ chan \in fSubChannelHashTable \cap fReadHandlerProc
  /\ fNextTCPReadSize[chan] > 0 /\ chan \notin fNextTCPReadStreamSocketNum

\* When the connection breaks, RTSPClient hears of it (RTPInterface.cpp:461), whoever has
\* the socket then and whatever is half read, but for the data of a packet.
ErrorTold == broken /\ ~world.stops ~> told \/ GivenUp

\* The connection is read to its end, and its end is told.
ReadToTheEnd == AllRead /\ ErrorTold
=============================================================================
