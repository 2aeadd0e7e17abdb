# TLA+ models of myRtspPlayer

myRtspPlayer pulls an RTSP/RTP stream with a copy of the live555 libraries
(`liveMedia`, `groupsock`, `UsageEnvironment`, `BasicUsageEnvironment`), hands
the video frames to a second thread through a buffer, decodes them with FFmpeg
and renders them with Direct3D.  This directory holds TLA+ models of the parts
whose correctness depends on the order of events, TLC configurations that check
them on small instances, and TLAPS proofs for all values of the constants.

Paths below are relative to `src/`.

## 1. The system

    main() --play(url)--> RTSPClientWrapper --spawns--> pull thread, decode thread
                              _url, atomic _run              |            |
    pull thread: BasicTaskScheduler event loop               |            |
      ourRTSPClient callbacks  <-- responses --  RTSPClient --TCP-- server
      MediaSession/initiate    <-- SETUP              ^      |            |
                                                      | bytes between     |
      RTCPInstance, RTPSource  <-- packets --  RTPInterface (RTP over TCP)|
      MultiFramedRTPSource     <-- UDP packets --------------- server     |
        processSpecialHeader() of H264VideoRTPSource         |            |
      DummySink --PushFrame--> FrameBuffer (mutex) --PopFrame--> decode, render

| Component | State | Operations | Meets | What is hard | What makes it correct | Model |
|---|---|---|---|---|---|---|
| Session control: `RTSPClient/ourRTSPClient.cpp`, `StreamClientState.cpp` | the iterator and `scs.subsession`, `session`, `duration`, `streamTimerTask`; per subsession `sink`, `readSource`, BYE handler, `miscPtr` | `continueAfterDESCRIBE/SETUP/PLAY`, `setupNextSubsession`, `subsessionAfterPlaying`, `subsessionByeHandler`, `streamTimerHandler`, `shutdownStream` | RTSPClient (requests and their handlers), MediaSession, RTCP, sinks, the scheduler | BYEs, closures, lost connections and the timer between any two answers; requests that fail at once call their handler recursively; destruction from within a callback | no callback meets a deleted object; the dialog with the server is legal; the client neither outlives its streams nor stops early | `StreamClient`, abstractly `RtspDialog` |
| Request machinery: `liveMedia/RTSPClient.cpp` | three queues of `RequestRecord`, `fCSeq`, the socket, `fResponseBuffer` | `sendRequest`, `openConnection`, `connectionHandler1`, `handleResponseBytes`, `resendCommand`, `resetTCPSockets` | callers' handlers, which may submit from inside the loops | reconnection, pipelining, partial responses, 401 and redirection, a server that skips, repeats or omits the CSeq | one owner per record, one call per handler, no success that the server did not give, each handler its own answer, nothing waits for ever | `RTSPClientRequests`, `MCRequests`, abstractly `RequestService`; the bytes: `ResponseBuffer`, `MCResponses` |
| Event loop: `BasicUsageEnvironment/BasicTaskScheduler*.cpp`, `DelayQueue.cpp` | handler list, fd_sets, `fMaxNumSockets`, rotation, triggers; the list of deltas, `fLastSyncTime` | `SingleStep`, `setBackgroundHandling`, `moveSocketHandling`, `createEventTrigger`, `triggerEvent`, `scheduleDelayedTask`, `unscheduleDelayedTask`, `synchronize` | everything in the pull thread | handlers that change the tables the loop rotates over; deltas; a clock that is set | the tables agree, no ready handler or event is starved, tasks run in order, not early, and once | `TaskScheduler`, `DelayQueue` |
| Reordering and frames: `liveMedia/MultiFramedRTPSource.cpp`, `seqNumLT()` in `RTPSource.cpp` | the packet list with `fTailPacket`, `fNextExpectedSeqNo`, `fSavedPacket`, `fPacketReadInProgress`, the frame under construction | `networkReadHandler1`, `storePacket`, `getNextCompletedPacket`, `doGetNextFrame1`, `use`, `reset` | the sink's `getNextFrame()`, the scheduler's tasks | loss, duplication, reordering, wrap of the numbers, a change of SSRC, no timer of its own | the queue is ordered; frames are whole and in order; nothing is stuck | `RTPReordering`, `MCReordering` |
| H.264 depacketiser: `liveMedia/H264VideoRTPSource.cpp` | `fCurPacketNALUnitType`, and the two flags of MultiFramedRTPSource | `processSpecialHeader`, `nextEnclosedFrameSize` | the loop of `doGetNextFrame1()` | flags that outlive the packet that set them; aggregates used in several turns | what it says of a packet is true of that packet | `H264Packets`, used by `RTPReordering` |
| RTP over TCP: `liveMedia/RTPInterface.cpp` | per socket the state of de-interleaving and the table of channels; per interface `fNextTCPReadSize` and its streams; who reads the socket | `tcpReadHandler1`, `handleRead`, `registerRTPInterface`, `deregisterRTPInterface`, `startNetworkReading`, `stopNetworkReading` | RTSPClient, which reads the same socket before and after; RTPSource, RTCPInstance | bytes in any pieces; handlers that close the last interface from within the loop; a broken connection | it stays in step with the `$` framing; one reader of the socket at any time | `Interleaving`, `MCInterleaving` |
| RTCP: `liveMedia/RTCP.cpp`, `rtcp_from_spec.c` | members and when they were noted, `fPrevNumMembers`, the report times, the BYE handler | `OnExpire`, `OnReceive`, `reapOldMembers`, `noteMembership` | the scheduler, the BYE handler | timer reconsideration both ways, reaping, a BYE by somebody unknown | the count is right, reports keep their distance and go on | `RTCPReports`; the BYE handler in `StreamClient` |
| Frame buffer: `RTSPClient/FrameBuffer.cpp` | `_tempFrameBuffer`, `_mtx` | `PushFrame`, `PopFrame` | both threads | interleaving; an unfair mutex under a busy loop | it is a FIFO queue | `FrameBuffer`, abstractly `FrameQueue` |
| Process and threads: `RTSPClient/main.cpp`, `RTSPClientWrapper.cpp`, `DummySink.cpp` | `_url`, `_run`, two `std::thread` | `play`, the two thread functions, `afterGettingFrame` | FrameBuffer, `exit()` | members shared by threads, of which only `_run` is atomic; `std::terminate` by assignment to or destruction of a joinable thread | one call of `play()` wins, nothing aborts before the end | `Player` |
| SDP and initiation: `liveMedia/MediaSession.cpp`, with `groupsock/GroupsockHelper.cpp` | the list of subsessions; `fClientPortNum`, `fRTPSocket`, `fRTCPSocket`, `reuseFlag` | `initializeWithSDP`, `initiate`, `deInitiate` | session control; the kernel, and other processes that bind ports | the search for an even/odd pair of ports while ports are taken and left, clean-up on failure | no socket is lost or closed too early, the server is told the right port, the search ends | `PortPairs`, `MCPorts`; its outcomes in `StreamClient`; SDP parsing not |
| H.264 frame states: `RTSPClient/H264Analyzer.cpp`, `bs.h` | a frame-state machine without callers | `UpdateH264CurrentState` | nothing | | | planned |
| Decoder and renderer: `FFmpegDecoder.cpp`, `D3DRender.cpp` and their factories | FFmpeg and Direct3D objects | `Decode`, `Render` | the decode thread | lifetimes of frames | | not modelled: foreign libraries, no frame reaches them (see 6) |
| The rest of sockets, hash tables, TLS/SRTP/MIKEY, servers, file formats, other payloads, FFmpeg headers | | | | | | not modelled: I/O, cryptography, or not linked into the player's path |

`PROJECT.json` lists the same components, the source lines that each definition
translates (`map`) and the hazards, each at its line with the properties that
watch it.

## 2. The modules and the code

**StreamClient** has one action per callback of `ourRTSPClient.cpp`, and the
action is the whole callback, with the recursion through
`setupNextSubsession()` that failed `initiate()` calls and failed requests
cause.  `SetupNext` is that recursion in closed form: the new cursor is any
`j` behind the old one, and the subsessions before it were given up, some of
them (`half`) after they had got a source.  `Shutdown` is `shutdownStream()`:
TEARDOWN if some sink is active, then `Medium::close()` with everything it
destroys, then `exit()`.  `cursor` is `scs.subsession` (0 before the first call
of `next()`, `Subs + 1` for NULL), `bye` the registered BYE handlers, `timer`
the time of the delayed task.  `ToUnsigned` is the conversion of line 189: exact
within the range of an unsigned, and beyond it what builds do with undefined
behaviour (wrap or saturate).  `link` abstracts RTSPClient's connection to what
decides whether TEARDOWN is written.  `started`, `ended`, `malformed`, `range`
and `playedAt` are history variables.

**RtspDialog** is what the server may rely on.  The mapping reads `stage` off
`client` and `cursor`, and `waiting` off `pending`.

**RTSPClientRequests** has the three queues and the loops over them.  A
callback is one action, except that the two loops which call handlers are one
action per request (`ResendOne`, `FailOne`), because a handler may call
`sendRequest()` there: that is `Submit` while `inHandler`.  `Match` is the CSeq
matching of lines 1760-1860, with what it dequeues on the way; `ReceivePart` and
`ReceiveRest` are an incomplete body, which puts the request back and parses
again.  The server (`Serve`, `ServerSkips`, `Reply`) is external: it answers in
order, and in worlds with faults it skips, repeats, or omits the CSeq.  A request
is its number, a response its CSeq, its code class and two flags.  What the
callers and the server may do is a record, `world`, chosen by `Init` from the
constant `Worlds`; **MCRequests** has five of them.  `nested` of a world says whether
a handler that hears of a failure while requests are being resent on a new connection
may submit one there and then.

**RequestService** is what a caller of `send...Command()` may rely on.
`mayForget` and `mayConfuse` say what is not promised to a caller that pipelines,
and to the client of a server that answers twice or without a CSeq.

**ResponseBuffer** is `handleResponseBytes()` seen from the bytes, where
RTSPClientRequests sees it from the queues.  The bytes of a connection are
numbered; since `fResponseBuffer` is filled at its end and emptied from its front
or all together, it always holds the last `fResponseBytesAlreadySeen` of the
`read` bytes, and needs no variable.  A turn of the loop is an
action; `numExtraBytesAfterResponse` is the local variable of that name, which the
turns share.  `ReadTooMuch` is the read that fills the buffer.  What is sent, an
`exchange`, is chosen by `Init` from the constant `Exchanges`: messages with the
places where header and body end, and whether requests are pipelined.  The server
answers in the order of the requests, each at most once (`ExchangesAssumption`; a
server that repeats is in RTSPClientRequests), and may skip requests, send requests
of its own, and responses that cannot be read, are not accepted, or are too long.
**MCResponses** gives the exchanges.  A response that belongs to no request is taken
as success, as the code does, whose checks are of what a request needs.

**TaskScheduler** is `SingleStep()` from `select()` to the delayed task, with the
handlers as actions between its parts: whatever handler runs, it may set, clear
and move socket handlers (`Assign`, `Clear`, `Move`) and create, delete and set
triggers.  The list of handlers is a sequence with its newest element first, as in
the code; `fdSets` and `fMaxNumSockets` are kept apart, since the code adjusts
them apart.  Which sockets are ready is `select()`'s choice.  `passed` and
`passedBy` are history: who was served while another one waited.

**DelayQueue** is the list of deltas with `synchronize()`, `addEntry()`,
`removeEntry()` and `handleAlarm()`, and the part of `SingleStep()` that sleeps
until the first task is due.  `time` is time as it passes, `clock` what
`gettimeofday()` says; `SetClock` sets it once by one of `Steps`, forward or back.

**RTPReordering** has the linked list as a sequence, with `fTailPacket` apart,
since the code appends after `fTailPacket` without a search.  `PacketArrives` is
`networkReadHandler1()` up to its call of `doGetNextFrame1()`; each turn of the
loop of that function is an action, so that frames complete, are rejected or are
given up one by one.  Packets are `[stream, n]`; their numbers on the wire are
`(base + n) % SeqNos`, and the code compares those numbers only.  `Age` is
`gettimeofday()` passing the threshold, in any order.  **H264Packets** has what
`processSpecialHeader()` and `nextEnclosedFrameSize()` make of a payload, as
operators; the flags they set are variables of RTPReordering, since an aggregate
leaves them as they were.  `useCount` and `left` of a queue entry are the
descriptor's `fUseCount` and `fTail - fHead`.  **MCReordering** gives the streams.

**Interleaving** has one TCP connection from the first SETUP on.  `Step` is a
call of `tcpReadHandler1()` within the loop of `tcpReadHandler()`; what that loop
calls (the handler of an interface, RTSPClient's handler of a byte) is an action
of its own, in which the application may pause or close a subsession, also the
last one.  `reader` is whose handler the scheduler has for the socket.  What the
server sends is a `world` again; **MCInterleaving** has seven.  A closed subsession
may be set up again: its interfaces are new ones, with empty buffers and no handler.  The
SETUP of one that is open may be answered again: `Setup` then has the stop and start of
reading in `RTCPInstance::setStreamSocket()` (`liveMedia/RTCP.cpp:382`), which may empty
the table within the loop (`emptied`).  `SendFails` is a report that is not sent, since
the connection is lost or, in a world that `stalls`, the server does not read.  After either
an open subsession may be without an interface, which is what `detached` records.

**RTCPReports** is `OnExpire()` and `OnReceive()` of `rtcp_from_spec.c` with the
member table of `RTCP.cpp`.  Times are relative to the present, so that the state
space is finite without a bound on time: `sinceReport` is now less
`fPrevReportTime`, `untilReport` is `fNextReportTime` less now.  The counts of
reports in the table are relative to `fOutgoingReportCount` likewise.

**PortPairs** is `initiate()` of several subsessions, one after the other.  The call
is cut into actions at its binds, since other processes bind and close ports between
any two of them (`OthersBind`, `OthersClose`): the turn of the loop up to the RTCP
socket (`OpenRTP`), that socket (`OpenRTCP`), and what comes behind the loop
(`CreateSources`, which may fail).  A `Groupsock` is the port it is bound to, or
`Dead`, which is what `new Groupsock` gives when the bind fails; it is never NULL.
`open` and `reusable` are the kernel's view of the same sockets.  Which free port
the kernel gives is its choice, and any bind may fail.

**FrameBuffer** splits each `deque` operation into a read and a write, so that
it is the mutex that makes it atomic and not the model.  **FrameQueue** is the
atomic queue it implements.

**Player** composes the process: `main()`, `play()` step by step, and the two
threads.  Of FrameBuffer it keeps the counts (FrameBuffer is shown to be a queue),
of StreamClient the frames delivered and the `exit()`.

The modules `..._proofs` hold the theorems (section 7).

Definitions whose comment begins with "Slip" are wrong variants of the one that
follows them: a guard dropped, a reset forgotten, an order swapped.  Nothing uses
them; each is known to break a property when it takes the place of the right one,
which shows that the property can fail (`mutants` in `PROJECT.json`).

### Abstractions to know of

- A response that carries `Connection: Close` is the last one read from that
  connection, and arrives in one piece.
- RTSP over HTTP, TLS and `changeResponseHandler()` are not modelled.  Requests from
  the server and a response that overruns the 20000-byte buffer are in
  ResponseBuffer only, which in turn leaves out reconnection, redirection and 401.
- ResponseBuffer: no part of a header or a body looks like a message of its own;
  handlers may send, but do not run the event loop themselves.
- `MayArrive` keeps arriving packets less than half the number space away from
  the one awaited.  At exactly half, `seqNumLT()` is false both ways; that hazard
  is listed without a property.
- Truncation to the sink's buffer, SRTP, and reception statistics are left out of
  RTPReordering.  Payloads are well formed (`WellFormed`): the sizes an aggregate
  gives are those of its units, and nothing follows the last one (see 6).
- Streams follow one another: a former SSRC does not come back.
- TaskScheduler: triggers are set by handlers only, not by another thread, and one at
  a time, by an id that `createEventTrigger()` gave; `triggerEvent()` and
  `deleteEventTrigger()` would take any mask.  A socket is ready or not, whatever for.
- DelayQueue: each task is in the queue once; the clock is set at most once.
- Interleaving: one connection, no TLS.  Sending is reduced to the removal of a
  stream when it fails or times out; after a timeout the socket is left blocking
  (`liveMedia/RTPInterface.cpp:396`), and is read as if it were not.  Packets are as
  long as two binary digits can say.
- PortPairs: unicast only, no port 1 (whose even neighbour would be 0, which stands
  for none).  A port that is in use can be bound again with SO_REUSEADDR, or not, as
  systems differ.  `setClientPortNum()` has no callers.  `initiateByMediaType()` gives up
  an initiated subsession whose source is not what it wants; that is `DeInitiate`.
- RTCPReports: an instance that only receives (no RTP sink), as in this player.
  The average packet size is one of `Costs` at each calculation.

## 3. The runs

| Run | Instance | Shows |
|---|---|---|
| `session` | 3 subsessions, ranges 0/2/9 s with an unsigned that holds 8, clock to 4; 90653 states | the invariants of StreamClient, `PlaysOutIfFits`, refinement of `RtspDialog`, and under fairness `Settles` |
| `requests` | five worlds: 3 requests one at a time, CSeq to 5, all codes, reconnections; 3 requests at once, CSeq to 4; 3 at once with a server that skips; 2 with one that repeats and omits the CSeq; 4, up to 3 at once, also submitted from within the loop that resends; 372826 states | `QueuesSound`, `NothingLost`, `EveryRequestAnswered`, refinement of `RequestService` |
| `reordering` | one SSRC with 7 packets (three fragments, an MTAP16 of three units, one of them empty, a packet to reject, two fragments), and two SSRCs with fragments, STAP-As, a single NAL unit and an empty packet, and one SSRC of 5 packets that are cut badly; 8 numbers, two bases, one of which wraps; 32390 states | `BufferSound`, `FrameIntact`, `NoLostWakeup`, `DeliveredInOrder`, `Drains` |
| `responses` | 3 requests, one at a time or pipelined, a buffer of 8 bytes; responses of one or two bytes, at most one of them malformed or not accepted; of one or five, at most one of eight; or one of ten; or a request of the server before the second response; 59376 states | `OwnAnswer`, `InStep`, `AllAnswered` |
| `delay_queue` | 3 tasks with delays 0, 1, 3, time to 3, the clock set by 2 either way; 113010 states | `DeltasTell`, `WakesInTime`, `NeverEarly`, `DueTasksRun` |
| `task_scheduler` | 3 sockets, 3 triggers; 268380 states | `SelectCovers`, `FairToSockets`, `FairToEvents` |
| `interleaving` | 2 subsessions (4 channels), sizes in base 2, 3 turns of the loop per call, 2 bytes of RTCP; seven worlds: nothing happens, the application pauses and closes, it sets up again what is open or closed, the connection breaks, it breaks while the application acts, reports time out, they do while the application acts and a SETUP is answered again; 54874 states | `Framed`, `Attended`, `ReadToTheEnd` |
| `rtcp` | 2 other participants, a reaping period of 3 reports, the timer up to 1 late; 107496 states | `MembersCurrent`, `ReportsApart`, `ReportsGoOn` |
| `ports` | 2 subsessions of every kind, without a port or with port 5; ports 2 to 7, of which the kernel gives 4 to 7; other processes hold up to 2; 146686 states | `Accounted`, `ListensAsTold`, `FreshPorts`, `InitiateEnds` |
| `buffer` | 2 pushing and 2 popping threads, 4 pushes; 59695 states | `MutexSound`, refinement of `FrameQueue`, `DrainsWhenQuiet` |
| `player` | 0 to 3 URLs, 4 frames; 902 states | `ThreadsSafe` |
| `session_shutdown` | 2 subsessions | `ShutdownWhenAllClosed` violated, see section 6 |

Why the bounds are enough:

- *Subsessions*: three give a first, a middle and a last one, so that failures
  skip one, two or all, and one can end while another plays and a third is set
  up.  The proofs cover every number.
- *Ranges*: 0 (open-ended), one that fits the unsigned and one that does not.
- *Requests*: three are the least for a queue with a head, a middle and a tail
  during a resend loop.  The server that repeats needs two, the overtaken and the
  overtaking; a third one is out of TLC's reach there.  `maxCSeq` leaves room for
  two resends of a single request, and one among pipelined requests.  Where handlers
  submit from within the resend loop, four requests are the least by which an answer
  comes to the wrong handler (section 6).
- *Responses*: bytes of a message that are handled alike are one byte, so that a
  header of one byte and a body of none or one are enough; the long response is
  longer than the buffer and shorter than two, and its header may be read alone.
  Three small ones fill the buffer to within a byte or two, with every way of
  cutting them into reads.  Two of five bytes do not fit together, and one of eight
  just fills it, which is already too much: the buffer overruns between responses
  and in the middle of one, in exchanges that are `Tame`.
- *Packets*: eight sequence numbers make `Half` 4, and seven packets from base 5
  wrap.  Each kind of payload occurs, and each can follow a loss, of which any
  number occur.  The badly cut stream has a frame that goes on behind a packet that
  ended one, and a packet that is rejected in the middle of one.
- *Tasks*: three are the least for a neighbour on both sides of one that is
  removed.  Delays 1 and 3 lie on both sides of `MaxSleep`, 0 is the delay of a
  task that is to run at once, and a step of 2 is longer than some deltas and
  shorter than others.
- *Sockets and triggers*: of three, one is served, one waits, and one is added,
  removed or moved; triggers wrap at three.
- *Interleaving*: sizes of two digits make the two size bytes differ in weight;
  payloads contain `$`, bytes that look like a header, and the signal 0xFE;
  three turns are fewer than a packet has bytes, so that the loop is
  left in every state.
- *RTCP*: with `MinTime` 3 and `Costs` 2 and 3 the interval is ruled by the
  minimum for few members and by their number for more; two members, one of whom
  leaves, are the least for reverse reconsideration to have an effect; `LongAgo`
  is beyond the longest interval, which `LongAgoAssumption` checks.
- *Ports*: of four ports that the kernel gives, two pairs, one may have both its
  ports, only the even one or only the odd one left by two of other processes, and
  the other subsession may hold the rest; an odd port that is asked for (5) is the
  neighbour of one that a search finds.
- *Threads*: two on each side contend with their own kind and with the other.

Deadlock is checked where the system never rests (the reordering, delay queue,
scheduler, RTCP, ports and buffer runs); the other configurations turn it off because a
client that has exited, callers without more requests, a wire that is at its end
and an ended process really stop.

## 4. The properties

- StreamClient: `NothingDangles` (the answer to SETUP meets the subsession it was
  sent for, though the handler reads `scs.subsession`; sinks, BYE handlers and the
  delayed task have something alive to work on),
  `HasStreams` (a client that has started a stream has one or has shut down),
  `TeardownOnlyIfLive`, `PlaysOutIfFits`, `ImplementsDialog`, `Settles`
  (neither the set-up nor a stream that has a duration hangs).
- RTSPClientRequests: `QueuesSound` says, whatever the server does, that a record
  is in at most one place and its handler called at most once, and that requests
  wait for a connection if and only if one is being opened, which is what
  `sendRequest()` relies on without saying so; `NothingLost` says, as long as CSeqs
  tell the requests apart and answers follow the queue (not `Confusing`), that a record
  is in exactly one place, and that every request under way to the server has its
  record, with the CSeq it was sent with, in a queue that is in the order of the wire;
  the server may skip what it likes;
  `EveryRequestAnswered` is for callers that wait for each answer, as the player
  does; `ImplementsService`.
- ResponseBuffer: `OwnAnswer` (a handler that is told of success has the response
  to its own request, with just its body), `InStep` (the buffer begins where a
  response does, and those that wait are the requests whose responses are not out
  of it yet), `AllAnswered`.
- TaskScheduler: `SelectCovers` relates the three records of what is handled;
  `FairToSockets` and `FairToEvents` say that nobody is served twice while another
  waits.
- DelayQueue: `DeltasTell` relates the deltas to the due times that history keeps;
  `NeverEarly`, `WakesInTime` and `DueTasksRun` are what a caller of
  `scheduleDelayedTask()` sees, and in which direction the clock may spoil it.
- RTPReordering: `BufferSound` is what the append without a search and the
  deletion of `fSavedPacket` rely on, `NoLostWakeup` the reason why no packet is
  forgotten in the queue; `FrameIntact`, `DeliveredInOrder`, `Drains` are what the
  sink sees.
- Interleaving: `Framed` (everybody is given what was sent to them, whole and in
  order, and the bytes between packets go to RTSPClient), `Attended` (the socket
  has one reader, who knows all that listen), `ReadToTheEnd`: `AllRead`, and
  `ErrorTold` (a loss of the connection reaches RTSPClient, whoever reads the socket
  then).
- PortPairs: `Accounted` (sockets that are open, and those that the objects refer to,
  are the same), `ListensAsTold` (what SETUP tells the server is where the subsession
  listens), `FreshPorts` (what NoReuse is for), `InitiateEnds`.
- RTCPReports: `MembersCurrent`, `ReportsApart`, `ReportsGoOn`.
- FrameBuffer: `MutexSound` (`ExclusiveAndFresh`), `ImplementsQueue`, `DrainsWhenQuiet`.
- Player: `ThreadsSafe` (`_run` guards what the threads share).

The type invariant of each module is a conjunct of its first invariant.

What is promised has its limits.  `FrameIntact`, `DeliveredInOrder` and the order
of the queue hold for one SSRC only.  `FrameIntact` holds for frames whose packets the
sender cut whole (`InPlace`: a packet begins a frame if and only if the one before it
ended one) and put data in (`AllHaveData`), none of them rejected or an aggregate:
section 6 says what happens otherwise.  With pipelined requests `OwnAnswer` needs
messages of which each buffer's length contains the beginning of a response (`Tame`), so
that overruns cost no more requests than responses; without, it needs nothing.
`InStep` and `AllAnswered` need messages that fit into the buffer together (`Fits`),
from a server that answers every request in its turn; the two say nothing
of malformed responses, and `AllAnswered` nothing of those that are not accepted,
since they leave what was read with them where it is until more is read.
`NeverEarly` needs a clock that is not set forward, `WakesInTime` one
that is not set back.  `Framed` needs interfaces that stay set up (`Steady`), from a
server that waits for PLAY and sends no `$` or signal between packets, and that, where the
connection may break or stall, answers no SETUP again (`Calm`): an interface that lost its record
when a report could not be sent would get a new one from the second answer, after packets for it
were dropped (found when `Framed`, as it once was, could not be proved; the player sends each
SETUP once).  Of who listens, `Attended` says nothing any more when the connection is lost,
or an interface was `detached` (by a report that was not sent, or by the deletion that
section 6 tells of); that the reader is the descriptor just as long as there is one, and that
it outlives its loop, it says always.  `AllRead` needs a connection that neither breaks nor
stalls, `ErrorTold` an application
that does not pause or close interfaces, and a connection that is not lost within the data
of a packet (`GivenUp`, section 6).  `ListensAsTold` excepts sockets that could not be bound
when their port was given.
`DrainsWhenQuiet` speaks of a time when no frame comes any more: while the others go on
taking it, a `std::mutex` promises itself to nobody, neither to a thread that pops nor to one
that pushes.  In the run no frame comes once `MaxPushes` frames came; the property asks for
a pause and not for that bound.
`ReportsGoOn` excepts members that leave again and again, as each BYE moves the
time from which the interval counts.

## 5. Fairness

- StreamClient: weak fairness of the callbacks, of the connection attempt, of the
  timer task and of time.  That the event loop serves them is what `FairToSockets`
  and `DueTasksRun` show.  That the server answers, or its connection breaks, is
  an assumption on the environment: the player sets no timeout on a request.
- RTSPClientRequests: weak fairness of the client's callbacks and of the server,
  and only for patient callers.  None for a connection that breaks or for
  `Submit`.
- ResponseBuffer: weak fairness of the event loop's reading and of the network,
  which delivers what was sent; none for `Submit`.
- DelayQueue: weak fairness of the loop, which `doEventLoop()` runs for ever; none
  for time, sockets or the scheduling of tasks.  TaskScheduler needs none: its
  properties are safety, "nobody twice before me".
- RTPReordering: weak fairness of the loop (it is straight-line code), of ageing
  and of arrivals (`JunkArrives` is the least that can arrive), strong fairness
  of the sink's task: `SingleStep()` handles at most one socket before it looks at
  the delay queue, so that a task scheduled with delay 0 is not overtaken for
  ever although arrivals disable it again and again (`DueTasksRun`).
- Interleaving: weak fairness of the event loop and the handlers (`Step`), of the
  arrival of bytes that were sent, and of the application playing what it has set
  up.  None for pausing, closing and the loss of the connection.
- PortPairs: weak fairness of what is left of a call of `initiate()`, which is
  straight-line code with one loop; none for callers and other processes.
- RTCPReports: weak fairness of time and of `Expire`; none for other participants.
- FrameBuffer: weak fairness of the decode threads' busy loop, and of a pushing thread
  within `PushFrame()` only: no frame need come.  A `std::mutex` is not fair: a thread
  that waits for it may be passed over by others for ever.
- Player: none; its properties are safety.

## 6. Where code and text disagree

Shown by a run:

- `session_shutdown`: a BYE for the first subsession while the second is still
  being set up finds no other sink and shuts everything down, though line 155 of
  `RTSPClient/ourRTSPClient.cpp` says that "All subsessions' streams have now been
  closed".

Seen while modelling, without a run of their own:

- A subsession, the only one, pauses, so that its RTCP channel is all that the table has.
  Its SETUP is answered again, within the loop of the descriptor.
  `RTCPInstance::setStreamSocket()` stops reading, which empties the table and sets
  `fDeleteMyselfNext` (`liveMedia/RTPInterface.cpp:503`), and starts it again, which does
  not reset that; at the end of the loop the descriptor is deleted (line 516).  The
  RTCP instance is read for no more, although the comment in `liveMedia/RTCP.cpp:391` is
  "Turn background reading back on".  A later PLAY makes a new descriptor, which does not
  know RTSPClient, since `setServerRequestAlternativeByteHandler()` is called by the answer
  to SETUP only: responses between packets are dropped, and nobody takes the socket back
  when that descriptor goes.  So it is after a report that was not sent, when it had the
  last interface.  In `Interleaving` it is `Setup` with `emptied`; without `~detached`,
  TLC finds `Attended` violated, also where no report fails.
- `main()` returns when `play()` has spawned its threads (`RTSPClient/main.cpp:28`), and
  the destruction of `rtspClientWrapper` with two `std::thread` that can be joined is
  `std::terminate()`: the process is aborted while the stream is played, or before it is
  opened, unless `exit()` in the pull thread comes first.  `README.md:2` of the repository
  speaks of a player, and `RTSPClient/ourRTSPClient.cpp:88` of a process that ends with its
  last client.  In `Player` it is `Leave`.
- `(unsigned)(scs.duration*1000000)` (`RTSPClient/ourRTSPClient.cpp:189`) does not
  hold a range of more than about 71 minutes, and the stream is shut down long
  before "the end of the stream's expected duration" (line 182); `PlaysOutIfFits`
  is the part that holds.
- `numExtraBytesAfterResponse` is reset before the loop
  (`liveMedia/RTSPClient.cpp:1700`), not in each turn.  A request of the server
  read together with the response before it is answered with 405 under the comment
  "we're done with this data" (line 1752), and kept: line 1938 still sees the extra
  bytes of the turn before.  With the next read it is answered once more, and the
  response behind it is dropped, so that its request waits for ever (in
  ResponseBuffer, `NoResponse` behind `Complete`).
- `processSpecialHeader()` does not set `fCurrentPacketBeginsFrame` and
  `fCurrentPacketCompletesFrame` for an aggregate
  (`liveMedia/H264VideoRTPSource.cpp:76`), which is used with the flags of the last
  fragment.  After the end of a fragmented frame and a loss, an aggregate, which
  often holds the parameter sets, is thrown away under the comment "We're in a
  multi-packet frame, with preceding packet loss"
  (`liveMedia/MultiFramedRTPSource.cpp:168`; in RTPReordering, `RejectFragment` with
  an aggregate at the head).
- When the connection breaks within the data of a packet, `handleRead()`
  (`liveMedia/RTPInterface.cpp:310`) keeps `fNextTCPReadSize` above 0, the state machine
  waits for that data for ever, and RTSPClient is not told, though the comments at
  lines 461-463 and 621 say so; `ErrorTold` is the part that holds.
- `initiate()` with a port from the SDP description tests `new Groupsock` for NULL
  (`liveMedia/MediaSession.cpp:740`, "Failed to create RTP socket"), which it never is:
  when the port cannot be bound, the call succeeds with a dead socket.  Its search for
  a pair looks at `socketNum()` instead (line 814).  And two subsessions that were
  given one port may both listen on it.
- A response that comes twice takes the next waiting request off the queue and
  settles it, or loses it, though `liveMedia/RTSPClient.cpp:1790` says that such a
  response is ignored; `RequestService` allows it with `mayConfuse`.
- A handler that submits a request while `connectionHandler1()` is still sending older
  ones on its new connection (`liveMedia/RTSPClient.cpp:1618`; a send that fails calls
  its handler) puts it before them on the wire and in the response queue, with a CSeq
  above theirs.  If its answer is lost then, because the answer before it has a request
  resent, which empties the buffer (line 1926), the next answer finds a larger CSeq at
  the head of the queue: under the comment "No handler was registered for this
  response, so ignore it" (line 1790) that record is taken off the queue, and the answer
  is given to the request behind it (line 1854).  It takes four requests, three of them
  at once; found when `NothingLost`, as it once was, could not be proved.  The player
  does not pipeline; `Confusing` has the case.
- A response that overruns the buffer fails the oldest request, whoever it was for
  (`liveMedia/RTSPClient.cpp:1678`), and responses dropped with it leave their
  requests waiting.  A response longer than the buffer may fail two requests, though
  "the first response handler only" (line 1675) is to hear of it: once for what its
  header announces (line 1865), which empties the buffer, and once more when the rest
  of it fills the buffer.  So do requests of the server as long as the buffer.  With
  pipelined requests the response to the second one then finds its request gone: it
  takes the next record off the queue (line 1854) instead of being ignored, and from
  there on handlers may be given the responses of other requests.  It takes four
  requests; found when `OwnAnswer`, as it once was, could not be proved, hence `Tame`.
- `Connection: Close` closes the socket at once (`liveMedia/RTSPClient.cpp:1846`); if
  the body is not complete by then, line 1879 puts the request back into a queue
  that nothing will read for.
- After a first fragment whose frame is lost, the flags left behind have the units
  of an aggregate joined to one another and to what follows; `FrameIntact` leaves
  such frames out.
- A packet rejected by `processSpecialHeader()` is released before
  `packetLossPrecededThis` is looked at (`liveMedia/MultiFramedRTPSource.cpp:150`),
  and the loss it would have reported is forgotten: the packets of two frames end
  up in one.  `FrameIntact` leaves these frames out too.
- The end of a frame is what the flags of a packet say, and nobody compares it with
  the beginning of the next one: of a single NAL unit, a first fragment that is lost,
  a fragment of one byte that is rejected and a last fragment, the last one reaches
  the sink as a frame of its own, although "We didn't get all of the previous frame.
  Forget any data that we used from it" (`liveMedia/MultiFramedRTPSource.cpp:161`).
  Found when `FrameIntact`, as it once was, could not be proved; hence `InPlace`.
- When fewer bytes are left of an aggregate than a unit's header takes,
  `nextEnclosedFrameSize()` returns 0 and moves nothing
  (`liveMedia/H264VideoRTPSource.cpp:168`): the packet is never used up, and the
  loop of `doGetNextFrame1()` goes on for ever.
- `FrameBuffer::CreateFrameSample()` (`RTSPClient/FrameBuffer.cpp:91`) returns an
  empty `shared_ptr`, and `DummySink` (`DummySink.cpp:64`) then drops the frame:
  in `Player`, `queued` stays 0.
- `ClearReadyBufferWhileFull()` looks at `_readyBuffer`, which nothing fills;
  `_maxDelayCapacity` (`FrameBuffer.h:38`) therefore bounds nothing.
- The usage text (`RTSPClientWrapper.cpp:26`) speaks of URLs 1 to N; every call
  of `play()` but the first is refused, and has overwritten `_url` by then.
- A response without a CSeq is given to the oldest request, not to "our most
  recent request" (`liveMedia/RTSPClient.cpp:1853`).
- After a change of the SSRC, packets of the old source stay queued under numbers
  that mean something else; the assertion of
  `liveMedia/MultiFramedRTPSource.cpp:609` may then fail, and a packet of the old
  source may be joined to its frame across a gap, or go on being taken apart with
  the NAL unit type of a packet that came before it.

## 7. What is proved

For every value of the constants, from the named assumptions of the modules (a
positive number of subsessions, ranges and limits that are natural numbers, and
the like).

`StreamClient_proofs`:

- `Invariant`: `IInv` is inductive.  The invariants of the runs are not: they
  say nothing of where the client is in its dialog.  `IInv` adds `Phase` (what
  `client` and `cursor` say of `pending`, `hasSession`, `sessionId`, `playedAt`),
  `Visited` (subsessions with a sink are behind the cursor), `Live` (a sink
  belongs to a stream that has not ended) and `Session` (where the session id
  comes from).  The proof has a lemma per action; `ShutdownLemma` and
  `SetupNextLemma` carry the two operations that the actions share.
- `TypeCorrect`, `AnswersMatch`, `OwnersAlive`, `StreamsRemain`, `TeardownIsDue`:
  consequences.
- `PlayedOut`: the action property `PlaysOutIfFits`, from `IInv` and the further
  invariant `Timed`, which ties `timer` to `playedAt`, `range` and `duration`.
- `FollowsDialog`: the refinement of `RtspDialog`, step by step.

`Player_proofs` proves both Player and FrameBuffer, which share no variable.  Of
Player: `TypeCorrect` and `RunGuards` (`ThreadsSafe`), for any number of
URLs.  The inductive invariant ties `_run` and the two threads to where `main()` is in
its only accepted call of `play()`.  Of FrameBuffer: `MutexWorks`, `BufferIsQueue` (the
refinement of FrameQueue, for any threads and frames), and from it `BufferIsFifo`.
`Fifo` alone is not inductive, since a step writes back the deque that its thread has
read some steps before; `ExclusiveAndFresh` is what it needs.

`TaskScheduler_proofs` proves both parts of the event loop.  Of TaskScheduler:
`AllCovered` (`SelectCovers`), `SocketsNotStarved` and `EventsNotStarved`, for any
sockets and any number of triggers.  Beside `SelectCovers`, the invariant says
(`SocketsInTurn`) that in the circular order of the list the sockets that were served
while another one waited lie behind that one, up to the one handled last, so that the
rotation comes to the waiting one before any of them; and the same of the bits of the
triggers (`EventsInTurn`).  Of DelayQueue, for any tasks, delays, `MaxSleep` and
setting of the clock:

- `ListTells` (`DeltasTell`).  `Tells` adds to it that no task is queued twice.
  `ElapsedTells`, `InsertedTells` and `RemovedTells` say what the three operations do to
  the sums `Until`: take time off them, put one between them, take one out.  `Until` is
  a recursive function; that there is one, and what it is, is shown by way of the least
  counterexample (`Least`, `UntilExists`, `UntilIs`), since the induction theorems of
  the library are out of reach.
- `RunsInTime` (`NeverEarly`) and `SleepsInTime` (`WakesInTime`).  Both rest on the `Lag`,
  the time that passed and that `synchronize()` will never count: a task was given the
  lag of the moment when it was scheduled (`LagThen`), and `TimeInv` says that the lag
  is no smaller than that unless the clock was set forward, no larger unless it was set
  back.  All steps but `Tick` and `SetClock` leave it alone (`Quiet`).

`RTCPReports_proofs`: `MembersCounted` (`MembersCurrent`) and `KeepApart`
(`ReportsApart`), for any participants, periods and costs.  The invariant is
`MembersCurrent` with `ReportTimesAgree`: `fPrevReportTime` is never before the
last report, since a BYE only brings it closer.

`RTSPClientRequests_proofs`, for any number of requests, any callers and servers, with
all faults:

- `TypeCorrect` and `QueuesKept` (`QueuesSound`).  `QueuesSound` counts places; the
  invariant `IInv` says instead that the three queues have no repetition and no record
  in common, with one another or with those deleted (`Owned`), that a handler was called
  only for a deleted record (`Once`), and how the connection and the loop in progress
  stand to the queues.  `MatchTakesApart` says that the matching of a CSeq takes the
  queue apart into the record found, those skipped, and the rest; `SendOwned` that
  `sendRequest()`, wherever it is called from, gives the record to one queue.
- `OrderInvariant` and `NothingIsLost` (`NothingLost`).  Places alone do not say which
  record an answer finds.  `OInv` adds that the CSeqs rise along the response queue and
  on along the requests to be sent (`Queued`), and from the client's end of the
  connection to the server's, every message on it being that of a record in the queue
  (`Wire`); so the records that `Match()` skips are those whose messages are gone
  (`MatchHits`).  `Steady` and `OneAtATime` say the same of callers that wait.
- `RequestsServed` (`ImplementsService`): every step settles some requests, none twice
  (`Settle`), which is a step or a stutter of RequestService.

`RTPReordering_proofs`, for any streams of well-formed payloads, any even number of
sequence numbers and any arrivals:

- `NoWakeupLost` (`NoLostWakeup`), from `Requests`: a request is pending or answered, and
  while it is pending between calls the head of the queue is not in sequence.
- `BufferKept` (`BufferSound`), from `Owner` (`fSavedPacket` is in one place of the queue,
  being read into, or free), `Seen` (nothing before the first packet) and `Line`: the
  queue holds packets of the stream from the awaited one on, within half of the number
  space, in order, and `fTailPacket` is its last.  Within that window `seqNumLT()` is the
  order of the stream (`Compare`), whence the search of `storePacket()` and its append
  without a search find the same place.
- `FramesInOrder` (`DeliveredInOrder`), from `Past`: what was delivered or joined to the
  frame is behind the packet awaited, or is a unit of it that was used before.
- `FramesWhole` (`FrameIntact`), from `Opened` (what has been used of a packet) and `Cut`:
  while no packet is missing, the frame is a chain of packets up to the one awaited, of
  which none but the first begins a frame and none ends it, and if there is no frame,
  the packet before the one awaited ended one.

`Interleaving_proofs`, for any number of subsessions, any units that the server sends, in
whatever pieces they arrive:

- `OneReader` (`Attended`).  `Attended` speaks of the times between calls only; the
  invariant says what holds within the loop: as long as the connection stands and no
  interface was detached (`Undisturbed`), the table of the descriptor has just the channels
  that somebody listens on, and the descriptor is to be deleted only when all subsessions
  were closed (`Connected`); and, whatever happens, that the descriptor is the reader just
  as long as it exists, and that an empty table is one to be deleted (`Descriptor`).
- `BytesFramed` (`Framed`).  `Framed` says what was given, and not where the descriptor is.
  The invariant `FInv` adds `Parsed(k)`: the handlers were given the first `k` units, and
  the descriptor is at the end of unit `k` (`Between`), or within the packet that follows,
  at the byte that `fTCPReadingState`, `fNextTCPReadSize` and `fInBuf` tell (`Header`,
  `Inside`); an interface that has met an error stays there.  It also adds `Ruled`, for
  worlds where nobody stops: the table and the records of the interfaces agree, only where
  the connection may break or stall is an interface detached, whoever a packet is for that
  has come has a handler, and a subsession that is open has had its answer; so an interface that has lost the
  connection does not get it back (`SteadyBefore`).  Where units end, and what their bytes
  are, is a recursive function; that there is one, and that units neither overlap nor leave
  gaps, is shown by way of the least counterexample (`EndExists`, `EndsApart`, `UnitAt`).

The second part of `Interleaving_proofs` is ResponseBuffer, which reads the same
socket: `OwnResponse` (`OwnAnswer`) and `StaysInStep` (`InStep`), for any size of the
buffer, any number of requests, and any messages in any pieces.  `OwnAnswer` says
nothing of the queue, by which an answer finds its handler; the invariant `RInv` adds

- `AskedBefore` (no response comes before its request is sent), and `Waiting`: the
  queue is in the order of the CSeqs, nobody in it has been told anything, and without
  pipelining there is at most one in it;
- `Kept`: within the loop `numExtraBytesAfterResponse` is 0 or all that is in the
  buffer, so that a message that is no response leaves the buffer where it was or empty;
- `Expected`, for a tame exchange: a response that does not begin before the buffer has
  its request in the queue.  It is what an overrun could break, and does not, because
  the oldest request is one whose response begins in what is dropped.

`MatchCuts` says what the matching of a CSeq does to an ordered queue: it takes off the
smaller ones, and then the request itself if it is there, or else one more.
`TurnIsTheNext` says that with a server that answers in turn the next response is at
the front of the buffer.

`PortPairs_proofs`: `NoSocketLost` (`Accounted`), `ToldTruly` (`ListensAsTold`) and
`NoReuseWorks` (`FreshPorts`), for any subsessions, ports and offers, and whatever other
processes bind.  The invariant adds `Call`: at each place within `initiate()`, what
`fRTPSocket` and `fRTCPSocket` of its subsession are, that its table holds sockets only
while it searches, and that NoReuse is in force just then.

Every safety invariant of the runs, and every action property that they check, is stated
by a theorem; `Calm` and the other premises are those of section 4.  Only model-checked is
what is out of the prover's reach: liveness (`ReadToTheEnd`, `AllAnswered` and the like),
and `ENABLED`.

## 8. Not modelled, and the plan

In this order; abstract specifications and theorems in brackets.

1. `FrameRequests`: the protocol of `FramedSource` and `MediaSink`
   (`getNextFrame`, `afterGetting`, `stopGettingFrames`, `handleClosure`)
   [one request at a time, one answer to each], composed with RTPReordering.
2. The frame states of `UpdateH264CurrentState()` as a pure function against a
   reference.
3. `PlayerSystem`: Player with FrameBuffer in place of its counts, as a refinement.

Left out for good: decoder and renderer (foreign libraries), SDP and header
parsing (text), sockets, cryptography, and the rest of liveMedia, which the player
does not call.  That rest, with the headers of FFmpeg, is most of this repository:
a server, file formats and some thirty payload formats lie beside the few files
that the player's path runs through, so that a model of the player covers only a
small share of all lines.

## 9. Running the checks

    tlc -config StreamClient.cfg StreamClient
    tlc -config Reordering.cfg MCReordering
    tlapm StreamClient_proofs.tla

and likewise for each run of `PROJECT.json`; the violation run ends with the
counterexample that it is for.
