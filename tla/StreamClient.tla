---------------------------- MODULE StreamClient ----------------------------
(***************************************************************************)
(* The control plane of the player: the callbacks of ourRTSPClient.cpp,    *)
(* run one at a time by the event loop of the pull thread.  They drive one *)
(* RTSP session from DESCRIBE through one SETUP per subsession and PLAY to *)
(* shutdownStream(), and share the StreamClientState, the subsessions'     *)
(* sinks and sources, their RTCP BYE handlers and one delayed task.        *)
(***************************************************************************)
EXTENDS Integers, FiniteSets

CONSTANTS
  Subs,           \* number of subsessions ("m=" lines) of the SDP description
  Durations,      \* play ranges, in timer units; 0: open-ended or absolute
  DelaySlop,      \* the slop added to the range, in timer units
  UnsignedLimit,  \* 2^32 in the code: how many values an unsigned has
  MaxTime         \* bound on the clock

ASSUME SubsAssumption == Subs \in Nat \ {0}
ASSUME DurationsAssumption == Durations \subseteq Nat
ASSUME TimerAssumption ==
  /\ DelaySlop \in Nat \ {0}
  /\ UnsignedLimit \in Nat \ {0}
  /\ MaxTime \in Nat

VARIABLES
  client,         \* "idle", "open", or "exited" once shutdownStream() ran
  link,           \* the TCP connection: "down", "connecting", "up"
  pending,        \* the unanswered request: its command and its subsession
  sessionId,      \* fLastSessionId # NULL
  torn,           \* a TEARDOWN was written to the connection
  hasSession,     \* scs.session # NULL
  cursor,         \* scs.subsession: 0 before the first, Subs + 1 for NULL
  source,         \* read source of each subsession
  rtcp,           \* subsessions with an RTCPInstance
  sinks,          \* subsessions whose sink # NULL
  bye,            \* subsessions whose BYE handler is registered
  duration,       \* scs.duration
  timer,          \* when scs.streamTimerTask is due, or NoTimer
  now,            \* the clock
  started,        \* history: subsessions that were given a sink
  ended,          \* history: subsessions that sent BYE or closed
  malformed,      \* history: a 200 answer to SETUP was rejected
  range,          \* history: the play range the server was asked for
  playedAt        \* history: when the PLAY answer came, or NoTimer

dialog  == <<client, link, pending, sessionId, torn, hasSession, cursor>>
media   == <<source, rtcp, sinks, bye>>
clock   == <<duration, timer, now>>
history == <<started, ended, malformed, range, playedAt>>
vars    == <<dialog, media, clock, history>>

Subsessions == 1..Subs
NoTimer     == -1
NoRequest   == [cmd |-> "none", sub |-> 0]
Request(c, i) == [cmd |-> c, sub |-> i]

\* The requests that can be unanswered; the answer to TEARDOWN is ignored.
Requests ==
  [cmd : {"none", "DESCRIBE", "PLAY"}, sub : {0}] \cup [cmd : {"SETUP"}, sub : Subsessions]

Init ==
  /\ client = "idle"
  /\ link = "down"
  /\ pending = NoRequest
  /\ sessionId = FALSE
  /\ torn = FALSE
  /\ hasSession = FALSE
  /\ cursor = 0
  /\ source = [i \in Subsessions |-> "none"]
  /\ rtcp = {} /\ sinks = {} /\ bye = {}
  /\ duration = 0 /\ timer = NoTimer /\ now = 0
  /\ started = {} /\ ended = {} /\ malformed = FALSE
  /\ range = 0 /\ playedAt = NoTimer

(***************************************************************************)
(* sendRequest(), seen from its callers: the request is written at once,   *)
(* or waits for a connection to open (there is none yet, or the answer     *)
(* just handled carried "Connection: Close").  A request that fails at     *)
(* once (no connection, a failed write, PLAY without a session id) calls   *)
(* its handler before it returns; the callers of Issue give the outcome of *)
(* that recursion.                                                         *)
(***************************************************************************)
Issue(req) ==
  /\ pending' = req
  /\ link' \in {"connecting", "up"}

\* Slip: the delayed task is forgotten.
UnscheduleTimerNever == UNCHANGED timer

\* ~StreamClientState(): with a session, the delayed task goes before it.
UnscheduleTimer == timer' = IF hasSession THEN NoTimer ELSE timer

\* shutdownStream() when the subsessions in `active' still have a sink and
\* fLastSessionId is set iff `sid'.  TEARDOWN is tried only if some sink was
\* active, and is lost when it must wait for a connection.  Closing the
\* client deletes its requests and the StreamClientState, and with it the
\* session, its sources and its RTCP instances.  Then exit().
Shutdown(active, sid) ==
  /\ client' = "exited"
  /\ torn' \in (IF active # {} /\ sid /\ link # "connecting" THEN BOOLEAN ELSE {FALSE})
  /\ pending' = NoRequest
  /\ link' = "down"
  /\ hasSession' = FALSE
  /\ source' = [i \in Subsessions |-> "none"]
  /\ rtcp' = {} /\ sinks' = {} /\ bye' = {}
  /\ UnscheduleTimer

\* rtspClient->sendDescribeCommand(continueAfterDESCRIBE)
SendDescribe ==
  /\ client = "idle"
  /\ \/ /\ client' = "open"
        /\ Issue(Request("DESCRIBE", 0))
        /\ UNCHANGED <<torn, hasSession, media, timer>>
     \/ Shutdown({}, FALSE)
  /\ UNCHANGED <<sessionId, cursor, duration, now, history>>

\* What initiate() leaves behind for the subsessions in `up': a read source
\* and, when the protocol is RTP, an RTCP instance.
Initiate(up) ==
  /\ source' = [i \in Subsessions |-> IF i \in up THEN "open" ELSE source[i]]
  /\ \E r \in SUBSET up : rtcp' = rtcp \cup r

\* The client goes on, with `snk' open and the BYE handlers `handlers'.
GoOn(snk, handlers) ==
  /\ client' = "open" /\ hasSession' = TRUE
  /\ sinks' = snk /\ bye' = handlers
  /\ UNCHANGED <<torn, timer>>

SendSETUP(j, half, snk, handlers) ==
  /\ j <= Subs
  /\ Initiate(half \cup {j})
  /\ Issue(Request("SETUP", j))
  /\ UNCHANGED <<duration, range>>
  /\ GoOn(snk, handlers)

\* Slip: PLAY is sent whether or not there is a session id.
SendPLAYAnyway(half, snk, handlers, sid) ==
  /\ range' \in Durations /\ duration' = range'
  /\ Initiate(half)
  /\ Issue(Request("PLAY", 0))
  /\ GoOn(snk, handlers)

\* PLAY is sent inside a session; or fails, and continueAfterPLAY() hears of it
\* at once.
SendPLAY(half, snk, handlers, sid) ==
  /\ range' \in Durations /\ duration' = range'
  /\ \/ /\ sid
        /\ Initiate(half)
        /\ Issue(Request("PLAY", 0))
        /\ GoOn(snk, handlers)
     \/ Shutdown(snk, sid)

\* setupNextSubsession() with the iterator before `i', the sinks `snk', the BYE
\* handlers `handlers', and fLastSessionId set iff `sid'.  Every subsession
\* before the new cursor is given up, because initiate() failed or (those in
\* `half') because its SETUP failed at once.
SetupNext(i, snk, handlers, sid) ==
  \E j \in i..Subs + 1 : \E half \in SUBSET (i..j - 1) :
    /\ cursor' = j
    /\ \/ SendSETUP(j, half, snk, handlers)
       \/ j = Subs + 1 /\ SendPLAY(half, snk, handlers, sid)

\* The answer to DESCRIBE: an SDP description with subsessions, or an error, a
\* bad description, or one without subsessions.
ContinueAfterDESCRIBE ==
  /\ pending.cmd = "DESCRIBE"
  /\ \/ /\ link = "up"
        /\ SetupNext(1, {}, {}, sessionId)
     \/ /\ Shutdown({}, sessionId)
        /\ UNCHANGED <<cursor, duration, range>>
  /\ UNCHANGED <<sessionId, now, started, ended, malformed, playedAt>>

\* Slip: the iterator is not advanced past the subsession just set up.
SetupSucceedsTwice ==
  /\ link = "up"
  /\ sessionId' = TRUE
  /\ started' = started \cup {cursor}
  /\ UNCHANGED malformed
  /\ SetupNext(cursor, sinks \cup {cursor}, bye \cup (rtcp \cap {cursor}), TRUE)

\* A 200 answer to SETUP that handleSETUPResponse() accepts: the subsession
\* that scs.subsession names gets its sink and its BYE handler.
SetupSucceeds ==
  /\ link = "up"
  /\ sessionId' = TRUE
  /\ started' = started \cup {cursor}
  /\ UNCHANGED malformed
  /\ SetupNext(cursor + 1, sinks \cup {cursor}, bye \cup (rtcp \cap {cursor}), TRUE)

\* A 200 answer with a "Session:" but no usable "Transport:" header has set
\* fLastSessionId by the time it is reported as an error.
SetupMalformed ==
  /\ link = "up"
  /\ sessionId' = TRUE
  /\ malformed' = TRUE
  /\ UNCHANGED started
  /\ SetupNext(cursor + 1, sinks, bye, TRUE)

\* Slip: a failed SETUP is the end of the road.
SetupFailsForGood ==
  /\ pending' = NoRequest
  /\ UNCHANGED <<client, link, sessionId, torn, hasSession, cursor, media, duration, timer,
                 started, malformed, range>>

\* An error status, or the connection broke or never opened.
SetupFails ==
  /\ UNCHANGED <<sessionId, started, malformed>>
  /\ SetupNext(cursor + 1, sinks, bye, sessionId)

ContinueAfterSETUP ==
  /\ pending.cmd = "SETUP"
  /\ SetupSucceeds \/ SetupMalformed \/ SetupFails
  /\ UNCHANGED <<now, ended, playedAt>>

\* (unsigned)x for a double x >= 0: beyond the range of unsigned the result is
\* undefined; the builds either drop the high bits or saturate.
ToUnsigned(x) ==
  IF x < UnsignedLimit THEN {x} ELSE {x % UnsignedLimit, UnsignedLimit - 1}

\* Slip: the slop is forgotten.
ScheduleEndBare ==
  IF duration > 0
  THEN /\ UNCHANGED duration
       /\ \E delay \in ToUnsigned(duration) : timer' = now + delay
  ELSE UNCHANGED <<duration, timer>>

\* The slop is added and the delayed task scheduled if the range is known.
ScheduleEnd ==
  IF duration > 0
  THEN /\ duration' = duration + DelaySlop
       /\ \E delay \in ToUnsigned(duration + DelaySlop) : timer' = now + delay
  ELSE UNCHANGED <<duration, timer>>

ContinueAfterPLAY ==
  /\ pending.cmd = "PLAY"
  /\ \/ /\ link = "up"
        /\ pending' = NoRequest
        /\ ScheduleEnd
        /\ playedAt' = now
        /\ UNCHANGED <<client, link, torn, hasSession, media>>
     \/ /\ Shutdown(sinks, sessionId)
        /\ UNCHANGED <<duration, playedAt>>
  /\ UNCHANGED <<sessionId, cursor, now, started, ended, malformed, range>>

Answer == ContinueAfterDESCRIBE \/ ContinueAfterSETUP \/ ContinueAfterPLAY

\* connectionHandler1(): the connection opened, the waiting request is sent.
Connected ==
  /\ link = "connecting"
  /\ link' = "up"
  /\ UNCHANGED <<client, pending, sessionId, torn, hasSession, cursor, media, clock, history>>

\* handleResponseBytes() with nothing pending: the socket is closed, and no
\* handler hears of it.
ConnectionLost ==
  /\ link = "up" /\ pending = NoRequest
  /\ link' = "down"
  /\ UNCHANGED <<client, pending, sessionId, torn, hasSession, cursor, media, clock, history>>

\* Slips: the closed sink is not set to NULL; the client waits for a pending
\* answer before it looks whether streams remain; the client is shut down
\* before the sink is set to NULL.
AfterPlayingKeepsSink(i) ==
  \/ /\ sinks \ {i} # {}
     /\ UNCHANGED <<client, link, pending, torn, hasSession, rtcp, sinks, timer>>
  \/ /\ sinks \ {i} = {}
     /\ Shutdown({}, sessionId)
AfterPlayingWaits(i) ==
  \/ /\ sinks \ {i} # {} \/ pending # NoRequest
     /\ sinks' = sinks \ {i}
     /\ bye' = bye \ {i} /\ UNCHANGED source
     /\ UNCHANGED <<client, link, pending, torn, hasSession, rtcp, timer>>
  \/ /\ sinks \ {i} = {} /\ pending = NoRequest
     /\ Shutdown({}, sessionId)
AfterPlayingTooEarly(i) ==
  \/ /\ sinks \ {i} # {}
     /\ sinks' = sinks \ {i}
     /\ UNCHANGED <<client, link, pending, torn, hasSession, rtcp, timer>>
  \/ /\ sinks \ {i} = {}
     /\ Shutdown(sinks, sessionId)

\* subsessionAfterPlaying(): the subsession's sink is closed; when no other
\* subsession has a sink, the client is shut down.
SubsessionAfterPlaying(i) ==
  \/ /\ sinks \ {i} # {}
     /\ sinks' = sinks \ {i}
     /\ UNCHANGED <<client, link, pending, torn, hasSession, rtcp, timer>>
  \/ /\ sinks \ {i} = {}
     /\ Shutdown({}, sessionId)

\* An RTCP BYE; its handler is taken out before it is called.
SubsessionBye(i) ==
  /\ i \in bye
  /\ ended' = ended \cup {i}
  /\ SubsessionAfterPlaying(i)
  /\ sinks \ {i} # {} => bye' = bye \ {i} /\ UNCHANGED source
  /\ UNCHANGED <<sessionId, cursor, duration, now, started, malformed, range, playedAt>>

\* The source reports that it is exhausted (for instance a transport stream
\* that lost its sync byte) to the sink that waits for its next frame.
SourceClosure(i) ==
  /\ i \in sinks
  /\ ended' = ended \cup {i}
  /\ SubsessionAfterPlaying(i)
  /\ sinks \ {i} # {} => source' = [source EXCEPT ![i] = "closed"] /\ UNCHANGED bye
  /\ UNCHANGED <<sessionId, cursor, duration, now, started, malformed, range, playedAt>>

\* Slip: the handler forgets the token of its task, and no more.
StreamTimerForgets ==
  /\ timer # NoTimer /\ now >= timer
  /\ timer' = NoTimer
  /\ UNCHANGED <<dialog, media, duration, now, history>>

\* The delayed task, once it is due.
StreamTimerHandler ==
  /\ timer # NoTimer /\ now >= timer
  /\ client = "open"
  /\ Shutdown(sinks, sessionId)
  /\ UNCHANGED <<sessionId, cursor, duration, now, history>>

Tick ==
  /\ client = "open" /\ now < MaxTime
  /\ now' = now + 1
  /\ UNCHANGED <<dialog, media, duration, timer, history>>

Next ==
  \/ SendDescribe \/ Answer \/ Connected \/ ConnectionLost
  \/ \E i \in Subsessions : SubsessionBye(i) \/ SourceClosure(i)
  \/ StreamTimerHandler \/ Tick

Spec == Init /\ [][Next]_vars

\* The event loop serves its sockets and delayed tasks for ever, time passes,
\* and the server answers every request or its connection breaks.
Fairness ==
  /\ WF_vars(SendDescribe) /\ WF_vars(Connected) /\ WF_vars(Answer)
  /\ WF_vars(StreamTimerHandler) /\ WF_vars(Tick)

FairSpec == Spec /\ Fairness

-----------------------------------------------------------------------------
(***************************************************************************)
(* Properties.                                                             *)
(***************************************************************************)
\* The values the variables may have.
TypeOK ==
  /\ client \in {"idle", "open", "exited"}
  /\ link \in {"down", "connecting", "up"}
  /\ pending \in Requests
  /\ sessionId \in BOOLEAN /\ torn \in BOOLEAN /\ hasSession \in BOOLEAN
  /\ cursor \in 0..Subs + 1
  /\ source \in [Subsessions -> {"none", "open", "closed"}]
  /\ rtcp \subseteq Subsessions
  /\ sinks \subseteq Subsessions
  /\ bye \subseteq Subsessions
  /\ duration \in Nat /\ now \in Nat
  /\ timer \in Nat \cup {NoTimer}
  /\ started \subseteq Subsessions
  /\ ended \subseteq Subsessions
  /\ malformed \in BOOLEAN
  /\ range \in Nat
  /\ playedAt \in Nat \cup {NoTimer}

\* continueAfterSETUP() works on scs.subsession, not on the subsession its
\* request was sent for: they are the same one, it has its source and never
\* had a sink, whatever was given up, answered or closed in between.
SetupTargetsCursor ==
  pending.cmd = "SETUP" =>
    /\ pending.sub = cursor
    /\ source[cursor] = "open"
    /\ cursor \notin started

\* Whatever a callback reaches is alive: a sink reads from an open source of
\* the session, a BYE handler belongs to a live RTCP instance and to a
\* subsession that was given a sink (and so its miscPtr), and both are gone
\* once the client is closed.
CallbacksAlive ==
  /\ \A i \in sinks : source[i] = "open"
  /\ bye \subseteq rtcp \cap started
  /\ sinks \cup bye # {} => client = "open" /\ hasSession

\* The client never outlives its streams: once some subsession was given a
\* sink, either some sink is still open or shutdownStream() has run.  BYEs and
\* closures may come in any order and between any two answers.
NoOrphanClient ==
  client = "open" /\ started # {} => sinks # {}

\* A client plays with nothing to play only after a SETUP answer that set the
\* session id was rejected; otherwise PLAY is refused for want of a session.
PlaysSomething ==
  client = "open" /\ playedAt # NoTimer => sinks # {} \/ malformed

\* streamTimerHandler() has a client to work on: the delayed task is pending
\* only while the client is open and playing.
TimerOwned ==
  timer # NoTimer => client = "open" /\ hasSession /\ playedAt # NoTimer

\* A callback finds what it works on: the answer to a SETUP its subsession, and
\* nothing is left behind for an object that is gone, neither the callbacks of the
\* streams nor the delayed task, whichever way the client or a stream ends.
NothingDangles == TypeOK /\ SetupTargetsCursor /\ CallbacksAlive /\ TimerOwned

\* A client that was given a stream has one that is open until it shuts down, and
\* so has a client that plays, whatever order the streams end in.
HasStreams == NoOrphanClient /\ PlaysSomething

\* TEARDOWN goes out only inside a session of the server, while a stream that
\* was started has not ended.
TeardownOnlyIfLive ==
  torn => sessionId /\ started \ ended # {}

\* The client stops although no stream has just ended.
StopsByItself ==
  /\ client = "open" /\ playedAt # NoTimer
  /\ client' = "exited" /\ ended' = ended

\* The delayed task is "handled at the end of the stream's expected duration"
\* (ourRTSPClient.cpp:182): a client that plays stops by itself only after the
\* range it asked for and the slop, if an unsigned can hold that delay.
PlaysOutIfFits ==
  [][StopsByItself /\ range + DelaySlop < UnsignedLimit
       => range > 0 /\ now >= playedAt + range + DelaySlop]_vars

\* "All subsessions' streams have now been closed, so shutdown the client"
\* (ourRTSPClient.cpp:155): the end of a stream shuts the client down only
\* when every subsession of the session has had its turn.
ShutdownWhenAllClosed ==
  [][client = "open" /\ client' = "exited" /\ ended' # ended
       => cursor = Subs + 1]_vars

\* If the server answers, the client gets to play or gives up.
PlaysOrEnds == <>(client = "exited" \/ playedAt # NoTimer)

\* A stream of known duration does not hold the client for ever.
TimedStreamEnds ==
  (timer # NoTimer /\ timer <= MaxTime) ~> (client = "exited")

\* The client does not hang, in the set-up or in a stream that has a duration.
Settles == PlaysOrEnds /\ TimedStreamEnds

\* The commands that reach the server follow RtspDialog.
Stage ==
  CASE client = "idle"   -> "idle"
    [] client = "exited" -> "over"
    [] client = "open"   -> IF cursor = 0 THEN "describe"
                            ELSE IF cursor <= Subs THEN "setup" ELSE "play"

Dialog == INSTANCE RtspDialog WITH
  stage <- Stage, last <- cursor, waiting <- pending # NoRequest,
  established <- sessionId, torn <- torn

\* One command at a time, SETUPs in the order of the description, PLAY and
\* TEARDOWN at most once and inside a session (see RtspDialog).
ImplementsDialog == Dialog!Spec

=============================================================================
