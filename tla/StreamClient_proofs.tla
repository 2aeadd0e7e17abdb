------------------------ MODULE StreamClient_proofs ------------------------
(***************************************************************************)
(* For any number of subsessions, any play ranges, any width of unsigned   *)
(* and any bound on the clock: the safety invariants of StreamClient, and  *)
(* that its commands follow RtspDialog.                                    *)
(*                                                                         *)
(* One inductive invariant carries all of them.  What it adds to the       *)
(* invariants is where the client is in its dialog (Phase), that           *)
(* subsessions are visited in order (Visited), that a sink belongs to a    *)
(* stream that has not ended (Live), and where the session id comes from   *)
(* (Session).                                                              *)
(***************************************************************************)
EXTENDS StreamClient, TLAPS

Phase ==
  /\ client = "idle" => cursor = 0 /\ pending = NoRequest /\ playedAt = NoTimer
  /\ client = "exited" => pending = NoRequest
  /\ hasSession <=> client = "open" /\ cursor # 0
  /\ client = "open" => /\ cursor = 0 => pending.cmd = "DESCRIBE"
                        /\ cursor \in Subsessions => pending = Request("SETUP", cursor)
                        /\ cursor = Subs + 1 => pending.cmd \in {"none", "PLAY"} /\ sessionId
                        /\ playedAt # NoTimer => cursor = Subs + 1
  /\ pending.cmd = "SETUP" => source[cursor] = "open"

Visited ==
  /\ \A i \in started : i < cursor
  /\ client # "exited" /\ cursor = 0 => ~sessionId

Live ==
  /\ sinks \subseteq started \ ended
  /\ ended \subseteq started

Session ==
  /\ sessionId => started # {} \/ malformed
  /\ client # "exited" => ~torn

IInv ==
  /\ TypeOK /\ Phase /\ Visited /\ Live /\ Session
  /\ CallbacksAlive /\ NoOrphanClient /\ TimerOwned /\ TeardownOnlyIfLive

-----------------------------------------------------------------------------
(***************************************************************************)
(* Facts about the parts of a step.                                        *)
(***************************************************************************)

\* A delay computed from a range is a natural number, even where the
\* conversion to unsigned is undefined.
LEMMA DelayType ==
  ASSUME NEW x \in Nat
  PROVE  ToUnsigned(x) \subseteq Nat
<1>1. x % UnsignedLimit \in Nat
  BY TimerAssumption
<1>. QED
  BY <1>1, TimerAssumption DEF ToUnsigned

\* shutdownStream() keeps the invariant: whoever calls it, with whatever
\* history, as long as the streams it believes active were started and have
\* not ended.
LEMMA ShutdownLemma ==
  ASSUME IInv, NEW active, NEW sid, Shutdown(active, sid),
         cursor' \in 0..Subs + 1, sessionId' \in BOOLEAN,
         started' \subseteq Subsessions, ended' \subseteq started',
         \A i \in started' : i < cursor',
         malformed' \in BOOLEAN, sessionId' => started' # {} \/ malformed',
         duration' \in Nat, now' \in Nat, range' \in Nat, playedAt' \in Nat \cup {NoTimer},
         client # "exited",
         active # {} /\ sid => sessionId' /\ started' \ ended' # {}
  PROVE  IInv'
<1>1. /\ client' = "exited" /\ pending' = NoRequest /\ link' = "down"
      /\ hasSession' = FALSE
      /\ source' = [i \in Subsessions |-> "none"]
      /\ rtcp' = {} /\ sinks' = {} /\ bye' = {}
  BY DEF Shutdown
<1>2. timer' = NoTimer
  BY DEF Shutdown, UnscheduleTimer, IInv, TimerOwned
<1>3. torn' \in BOOLEAN /\ (torn' => active # {} /\ sid)
  BY DEF Shutdown
<1>4. NoRequest \in Requests
  BY DEF NoRequest, Requests
<1>5. TypeOK'
  BY <1>1, <1>2, <1>3, <1>4 DEF TypeOK
<1>6. Phase'
  BY <1>1 DEF Phase, NoRequest
<1>7. Visited' /\ Live' /\ Session'
  BY <1>1 DEF Visited, Live, Session
<1>8. CallbacksAlive' /\ NoOrphanClient' /\ TimerOwned'
  BY <1>1, <1>2 DEF CallbacksAlive, NoOrphanClient, TimerOwned
<1>9. TeardownOnlyIfLive'
  BY <1>3 DEF TeardownOnlyIfLive
<1>. QED
  BY <1>5, <1>6, <1>7, <1>8, <1>9 DEF IInv

\* What initiate() leaves in the subsessions.
LEMMA InitiateLemma ==
  ASSUME TypeOK, NEW up \in SUBSET Subsessions, Initiate(up)
  PROVE  /\ source' \in [Subsessions -> {"none", "open", "closed"}]
         /\ \A i \in Subsessions : source'[i] = IF i \in up THEN "open" ELSE source[i]
         /\ rtcp \subseteq rtcp' /\ rtcp' \subseteq Subsessions
<1>1. source' = [i \in Subsessions |-> IF i \in up THEN "open" ELSE source[i]]
  BY DEF Initiate
<1>2. rtcp \subseteq rtcp' /\ rtcp' \subseteq Subsessions
  BY DEF Initiate, TypeOK
<1>. QED
  BY <1>1, <1>2 DEF TypeOK

\* setupNextSubsession() keeps the invariant, whatever the answer that it
\* follows has added to the sinks and the BYE handlers.
LEMMA SetupNextLemma ==
  ASSUME IInv, pending.cmd \in {"DESCRIBE", "SETUP"},
         NEW snk, NEW handlers, NEW sid, SetupNext(cursor + 1, snk, handlers, sid),
         sid = sessionId', sessionId' \in BOOLEAN, sessionId => sessionId',
         started' \subseteq Subsessions, \A i \in started' : i <= cursor,
         malformed' \in BOOLEAN, sessionId' => started' # {} \/ malformed',
         UNCHANGED <<now, ended, playedAt>>,
         started \subseteq started', snk \subseteq started' \ ended,
         \A i \in snk : source[i] = "open",
         handlers \subseteq rtcp \cap started',
         started' # {} => snk # {}
  PROVE  IInv'
<1>. USE SubsAssumption
<1>1. TypeOK /\ client = "open" /\ cursor \in 0..Subs + 1 /\ cursor # Subs + 1
  BY DEF IInv, TypeOK, Phase, NoRequest
<1>2. playedAt = NoTimer /\ timer = NoTimer /\ torn = FALSE
  BY <1>1 DEF IInv, Phase, TimerOwned, Session, TypeOK
<1>3. PICK j \in cursor + 1..Subs + 1 : \E half \in SUBSET (cursor + 1..j - 1) :
        /\ cursor' = j
        /\ \/ SendSETUP(j, half, snk, handlers)
           \/ j = Subs + 1 /\ SendPLAY(half, snk, handlers, sid)
  BY DEF SetupNext
<1>4. PICK half \in SUBSET (cursor + 1..j - 1) :
        /\ cursor' = j
        /\ \/ SendSETUP(j, half, snk, handlers)
           \/ j = Subs + 1 /\ SendPLAY(half, snk, handlers, sid)
  BY <1>3
<1>5. /\ j \in 1..Subs + 1 /\ cursor < j /\ cursor' \in 0..Subs + 1 /\ cursor' # 0
      /\ \A i \in started' : i < cursor'
      /\ half \subseteq Subsessions
  BY <1>1, <1>4 DEF Subsessions
<1>6. ended' \subseteq started' /\ ended \subseteq Subsessions
  BY <1>1 DEF IInv, Live, TypeOK
<1>7. \* the client goes on
  ASSUME NEW req \in {Request("SETUP", j), Request("PLAY", 0)},
         NEW up \in SUBSET Subsessions, Initiate(up), Issue(req), GoOn(snk, handlers),
         req = Request("SETUP", j) => j <= Subs /\ j \in up,
         req = Request("PLAY", 0) => j = Subs + 1 /\ sessionId',
         duration' \in Nat, range' \in Nat
  PROVE  IInv'
  <2>1. /\ client' = "open" /\ hasSession' = TRUE /\ sinks' = snk /\ bye' = handlers
        /\ torn' = FALSE /\ timer' = NoTimer /\ playedAt' = NoTimer /\ cursor' = j
        /\ pending' = req /\ link' \in {"connecting", "up"}
        /\ now' = now /\ ended' = ended
    BY <1>2, <1>4, <1>7 DEF GoOn, Issue
  <2>2. /\ source' \in [Subsessions -> {"none", "open", "closed"}]
        /\ \A i \in Subsessions : source'[i] = IF i \in up THEN "open" ELSE source[i]
        /\ rtcp \subseteq rtcp' /\ rtcp' \subseteq Subsessions
    BY <1>1, <1>7, InitiateLemma
  <2>3. pending' \in Requests
    BY <1>5, <1>7, <2>1 DEF Request, Requests, Subsessions
  <2>4. TypeOK'
    BY <1>1, <1>5, <1>6, <1>7, <2>1, <2>2, <2>3 DEF TypeOK, NoTimer
  <2>5. Phase'
    <3>1. CASE req = Request("SETUP", j)
      <4>1. j \in Subsessions /\ j # Subs + 1 /\ source'[j] = "open"
        BY <1>5, <1>7, <2>2, <3>1 DEF Subsessions
      <4>. QED
        BY <1>5, <2>1, <3>1, <4>1 DEF Phase, Request
    <3>2. CASE req = Request("PLAY", 0)
      <4>1. j \notin Subsessions /\ j = Subs + 1 /\ sessionId'
        BY <1>5, <1>7, <3>2 DEF Subsessions
      <4>. QED
        BY <1>5, <2>1, <3>2, <4>1 DEF Phase, Request
    <3>. QED
      BY <3>1, <3>2
  <2>6. Visited' /\ Live' /\ Session'
    BY <1>5, <1>6, <2>1 DEF Visited, Live, Session
  <2>7. CallbacksAlive'
    <3>1. \A i \in sinks' : source'[i] = "open"
      BY <2>1, <2>2
    <3>. QED
      BY <2>1, <2>2, <3>1 DEF CallbacksAlive
  <2>8. NoOrphanClient' /\ TimerOwned' /\ TeardownOnlyIfLive'
    BY <2>1 DEF NoOrphanClient, TimerOwned, TeardownOnlyIfLive
  <2>. QED
    BY <2>4, <2>5, <2>6, <2>7, <2>8 DEF IInv
<1>8. CASE SendSETUP(j, half, snk, handlers)
  <2>1. /\ j <= Subs /\ Initiate(half \cup {j}) /\ Issue(Request("SETUP", j))
        /\ UNCHANGED <<duration, range>> /\ GoOn(snk, handlers)
    BY <1>8 DEF SendSETUP
  <2>2. half \cup {j} \in SUBSET Subsessions
    BY <1>5, <2>1 DEF Subsessions
  <2>3. Request("SETUP", j) # Request("PLAY", 0)
    BY DEF Request
  <2>4. duration' \in Nat /\ range' \in Nat
    BY <1>1, <2>1 DEF TypeOK
  <2>. QED
    BY <1>7, <2>1, <2>2, <2>3, <2>4
<1>9. CASE j = Subs + 1 /\ SendPLAY(half, snk, handlers, sid)
  <2>1. duration' \in Nat /\ range' \in Nat
    BY <1>9, DurationsAssumption DEF SendPLAY
  <2>2. CASE sid /\ Initiate(half) /\ Issue(Request("PLAY", 0)) /\ GoOn(snk, handlers)
    <3>1. Request("SETUP", j) # Request("PLAY", 0)
      BY DEF Request
    <3>. QED
      BY <1>5, <1>7, <1>9, <2>1, <2>2, <3>1
  <2>3. CASE Shutdown(snk, sid)
    <3>1. now' \in Nat /\ playedAt' \in Nat \cup {NoTimer} /\ client # "exited"
      BY <1>1 DEF TypeOK
    <3>2. snk # {} /\ sid => sessionId' /\ started' \ ended' # {}
      OBVIOUS
    <3>. QED
      BY <1>5, <1>6, <2>1, <2>3, <3>1, <3>2, ShutdownLemma
  <2>. QED
    BY <1>9, <2>2, <2>3 DEF SendPLAY
<1>. QED
  BY <1>4, <1>8, <1>9

-----------------------------------------------------------------------------
(***************************************************************************)
(* The steps.                                                              *)
(***************************************************************************)

\* The invariant holds initially.
LEMMA InitLemma == Init => IInv
<1>. SUFFICES ASSUME Init PROVE IInv
  OBVIOUS
<1>. USE SubsAssumption
<1>1. TypeOK
  <2>1. NoRequest \in Requests
    BY DEF NoRequest, Requests
  <2>2. cursor \in 0..Subs + 1 /\ source \in [Subsessions -> {"none", "open", "closed"}]
    BY DEF Init
  <2>. QED
    BY <2>1, <2>2 DEF Init, TypeOK
<1>2. Phase
  BY DEF Init, Phase, NoRequest
<1>3. Visited /\ Live /\ Session
  BY DEF Init, Visited, Live, Session
<1>4. CallbacksAlive /\ NoOrphanClient /\ TimerOwned /\ TeardownOnlyIfLive
  BY DEF Init, CallbacksAlive, NoOrphanClient, TimerOwned, TeardownOnlyIfLive
<1>. QED
  BY <1>1, <1>2, <1>3, <1>4 DEF IInv

\* The first request.
LEMMA DescribeLemma == IInv /\ SendDescribe => IInv'
<1>. SUFFICES ASSUME IInv, SendDescribe PROVE IInv'
  OBVIOUS
<1>. USE SubsAssumption
<1>1. /\ client = "idle" /\ cursor = 0 /\ playedAt = NoTimer /\ hasSession = FALSE
      /\ sessionId = FALSE /\ torn = FALSE /\ timer = NoTimer
      /\ UNCHANGED <<sessionId, cursor, duration, now, history>>
  BY DEF SendDescribe, IInv, TypeOK, Phase, Visited, Session, TimerOwned
<1>2. CASE Shutdown({}, FALSE)
  BY <1>1, <1>2, ShutdownLemma DEF IInv, TypeOK, Visited, Live, Session, history
<1>3. CASE /\ client' = "open"
           /\ Issue(Request("DESCRIBE", 0))
           /\ UNCHANGED <<torn, hasSession, media, timer>>
  <2>1. Request("DESCRIBE", 0) \in Requests /\ Request("DESCRIBE", 0).cmd = "DESCRIBE"
    BY DEF Request, Requests
  <2>2. TypeOK'
    BY <1>1, <1>3, <2>1 DEF IInv, TypeOK, Issue, media, history
  <2>4. Phase' /\ Visited' /\ Live' /\ Session'
    BY <1>1, <1>3, <2>1 DEF IInv, Phase, Visited, Live, Session, Issue, media, history, Subsessions
  <2>5. started = {} /\ sinks = {} /\ bye = {}
    BY <1>1 DEF IInv, TypeOK, Visited, Live, CallbacksAlive, Subsessions
  <2>6. CallbacksAlive' /\ NoOrphanClient' /\ TimerOwned' /\ TeardownOnlyIfLive'
    BY <1>1, <1>3, <2>5 DEF CallbacksAlive, NoOrphanClient, TimerOwned, TeardownOnlyIfLive, media, history
  <2>. QED
    BY <2>2, <2>4, <2>6 DEF IInv
<1>. QED
  BY <1>2, <1>3 DEF SendDescribe

\* continueAfterDESCRIBE() finds nothing set up yet.
LEMMA AfterDescribeLemma == IInv /\ ContinueAfterDESCRIBE => IInv'
<1>. SUFFICES ASSUME IInv, ContinueAfterDESCRIBE PROVE IInv'
  OBVIOUS
<1>. USE SubsAssumption
<1>1. /\ pending.cmd = "DESCRIBE"
      /\ UNCHANGED <<sessionId, now, started, ended, malformed, playedAt>>
  BY DEF ContinueAfterDESCRIBE
<1>2. client = "open" /\ cursor = 0
  BY <1>1 DEF IInv, TypeOK, Phase, NoRequest, Request, Subsessions
<1>3. CASE SetupNext(1, {}, {}, sessionId)
  <2>1. started = {}
    BY <1>2 DEF IInv, TypeOK, Visited, Subsessions
  <2>2. SetupNext(cursor + 1, {}, {}, sessionId)
    BY <1>2, <1>3
  <2>. QED
    BY <1>1, <2>1, <2>2, SetupNextLemma DEF IInv, TypeOK, Session
<1>4. CASE Shutdown({}, sessionId) /\ UNCHANGED <<cursor, duration, range>>
  BY <1>1, <1>2, <1>4, ShutdownLemma DEF IInv, TypeOK, Visited, Live, Session
<1>. QED
  BY <1>3, <1>4 DEF ContinueAfterDESCRIBE

\* The subsession that continueAfterSETUP() works on is the one its request was
\* sent for; it is new, and its source is open.
LEMMA CursorLemma ==
  ASSUME IInv, pending.cmd = "SETUP"
  PROVE  /\ client = "open" /\ hasSession
         /\ cursor \in Subsessions /\ pending.sub = cursor
         /\ source[cursor] = "open" /\ cursor \notin started
<1>. USE SubsAssumption
<1>1. client = "open"
  BY DEF IInv, TypeOK, Phase, NoRequest
<1>2. cursor \in Subsessions
  BY <1>1 DEF IInv, TypeOK, Phase, Subsessions
<1>3. pending.sub = cursor
  BY <1>1, <1>2 DEF IInv, Phase, Request
<1>4. cursor \notin started /\ hasSession
  BY <1>1, <1>2 DEF IInv, Phase, Visited, Subsessions
<1>. QED
  BY <1>1, <1>2, <1>3, <1>4 DEF IInv, Phase

\* continueAfterSETUP(), for each kind of answer.
LEMMA AfterSetupLemma == IInv /\ ContinueAfterSETUP => IInv'
<1>. SUFFICES ASSUME IInv, ContinueAfterSETUP PROVE IInv'
  OBVIOUS
<1>1. pending.cmd = "SETUP" /\ UNCHANGED <<now, ended, playedAt>>
  BY DEF ContinueAfterSETUP
<1>2. /\ client = "open" /\ hasSession /\ cursor \in Subsessions
      /\ source[cursor] = "open" /\ cursor \notin started
  BY <1>1, CursorLemma
<1>3. /\ started \subseteq Subsessions /\ malformed \in BOOLEAN /\ sessionId \in BOOLEAN
      /\ \A i \in started : i <= cursor
      /\ \A i \in sinks : source[i] = "open"
      /\ bye \subseteq rtcp \cap started
      /\ sinks \subseteq started \ ended /\ ended \subseteq started
      /\ sessionId => started # {} \/ malformed
      /\ started # {} => sinks # {}
  BY <1>2, SubsAssumption DEF IInv, TypeOK, CallbacksAlive, Live, Session, NoOrphanClient, Visited, Subsessions
<1>4. CASE SetupSucceeds
  <2>1. /\ sessionId' = TRUE /\ started' = started \cup {cursor} /\ malformed' = malformed
        /\ SetupNext(cursor + 1, sinks \cup {cursor}, bye \cup (rtcp \cap {cursor}), TRUE)
    BY <1>4 DEF SetupSucceeds
  <2>2. started' \subseteq Subsessions /\ \A i \in started' : i <= cursor
    BY <1>2, <1>3, <2>1, SubsAssumption DEF Subsessions
  <2>3. /\ sinks \cup {cursor} \subseteq started' \ ended
        /\ \A i \in sinks \cup {cursor} : source[i] = "open"
        /\ bye \cup (rtcp \cap {cursor}) \subseteq rtcp \cap started'
    BY <1>2, <1>3, <2>1
  <2>. QED
    BY <1>1, <1>3, <2>1, <2>2, <2>3, SetupNextLemma
<1>5. CASE SetupMalformed
  <2>1. /\ sessionId' = TRUE /\ malformed' = TRUE /\ started' = started
        /\ SetupNext(cursor + 1, sinks, bye, TRUE)
    BY <1>5 DEF SetupMalformed
  <2>. QED
    BY <1>1, <1>3, <2>1, SetupNextLemma
<1>6. CASE SetupFails
  <2>1. /\ UNCHANGED <<sessionId, started, malformed>>
        /\ SetupNext(cursor + 1, sinks, bye, sessionId)
    BY <1>6 DEF SetupFails
  <2>. QED
    BY <1>1, <1>3, <2>1, SetupNextLemma
<1>. QED
  BY <1>4, <1>5, <1>6 DEF ContinueAfterSETUP

\* continueAfterPLAY(): the delayed task is scheduled only while the client is
\* open, so that it goes with the client.
LEMMA AfterPlayLemma == IInv /\ ContinueAfterPLAY => IInv'
<1>. SUFFICES ASSUME IInv, ContinueAfterPLAY PROVE IInv'
  OBVIOUS
<1>. USE SubsAssumption
<1>1. /\ pending.cmd = "PLAY"
      /\ UNCHANGED <<sessionId, cursor, now, started, ended, malformed, range>>
  BY DEF ContinueAfterPLAY
<1>2. client = "open" /\ cursor = Subs + 1 /\ hasSession /\ sessionId
  BY <1>1 DEF IInv, TypeOK, Phase, NoRequest, Request, Subsessions
<1>3. CASE /\ link = "up"
           /\ pending' = NoRequest
           /\ ScheduleEnd
           /\ playedAt' = now
           /\ UNCHANGED <<client, link, torn, hasSession, media>>
  <2>1. duration' \in Nat /\ timer' \in Nat \cup {NoTimer}
    <3>1. duration \in Nat /\ now \in Nat /\ timer \in Nat \cup {NoTimer}
      BY DEF IInv, TypeOK
    <3>2. duration + DelaySlop \in Nat
      BY <3>1, TimerAssumption
    <3>. QED
      BY <1>3, <3>1, <3>2, DelayType DEF ScheduleEnd
  <2>2. NoRequest \in Requests /\ NoRequest.cmd = "none"
    BY DEF NoRequest, Requests
  <2>3. now \in Nat /\ playedAt' # NoTimer
    BY <1>3 DEF IInv, TypeOK, NoTimer
  <2>4. TypeOK'
    BY <1>1, <1>3, <2>1, <2>2, <2>3 DEF IInv, TypeOK, media
  <2>5. cursor \notin Subsessions /\ cursor # 0
    BY <1>2 DEF Subsessions
  <2>6. Phase' /\ Visited' /\ Live' /\ Session'
    BY <1>1, <1>2, <1>3, <2>2, <2>5 DEF IInv, Phase, Visited, Live, Session, media
  <2>7. CallbacksAlive' /\ NoOrphanClient' /\ TimerOwned' /\ TeardownOnlyIfLive'
    BY <1>1, <1>2, <1>3, <2>3 DEF IInv, CallbacksAlive, NoOrphanClient, TimerOwned, TeardownOnlyIfLive, media
  <2>. QED
    BY <2>4, <2>6, <2>7 DEF IInv
<1>4. CASE Shutdown(sinks, sessionId) /\ UNCHANGED <<duration, playedAt>>
  BY <1>1, <1>2, <1>4, ShutdownLemma DEF IInv, TypeOK, Visited, Live, Session
<1>. QED
  BY <1>3, <1>4 DEF ContinueAfterPLAY

\* A stream that ends, by a BYE or because its source closed, takes its sink
\* with it, and the last one the client.
LEMMA AfterPlayingLemma ==
  ASSUME IInv, NEW i \in Subsessions, SubsessionBye(i) \/ SourceClosure(i)
  PROVE  IInv'
<1>. USE SubsAssumption
<1>1. /\ i \in started /\ client = "open" /\ hasSession
      /\ ended' = ended \cup {i} /\ SubsessionAfterPlaying(i)
      /\ UNCHANGED <<sessionId, cursor, duration, now, started, malformed, range, playedAt>>
  BY DEF SubsessionBye, SourceClosure, IInv, CallbacksAlive, Live
<1>2. CASE /\ sinks \ {i} # {}
           /\ sinks' = sinks \ {i}
           /\ UNCHANGED <<client, link, pending, torn, hasSession, rtcp, timer>>
  <2>1. \/ bye' = bye \ {i} /\ UNCHANGED source
        \/ source' = [source EXCEPT ![i] = "closed"] /\ UNCHANGED bye
    BY <1>2 DEF SubsessionBye, SourceClosure
  <2>2. TypeOK'
    BY <1>1, <1>2, <2>1 DEF IInv, TypeOK
  <2>3. Phase'
    <3>1. pending.cmd = "SETUP" => cursor # i
      BY <1>1, CursorLemma
    <3>2. pending.cmd = "SETUP" => source'[cursor] = "open"
      BY <2>1, <3>1, CursorLemma DEF IInv, TypeOK
    <3>. QED
      BY <1>1, <1>2, <3>2 DEF IInv, Phase
  <2>4. Visited' /\ Live' /\ Session'
    BY <1>1, <1>2 DEF IInv, Visited, Live, Session
  <2>5. CallbacksAlive'
    BY <1>1, <1>2, <2>1 DEF IInv, CallbacksAlive, TypeOK
  <2>6. NoOrphanClient' /\ TimerOwned' /\ TeardownOnlyIfLive'
    BY <1>1, <1>2 DEF IInv, NoOrphanClient, TimerOwned, TeardownOnlyIfLive, Session
  <2>. QED
    BY <2>2, <2>3, <2>4, <2>5, <2>6 DEF IInv
<1>3. CASE Shutdown({}, sessionId)
  <2>1. ended' \subseteq started'
    BY <1>1 DEF IInv, Live
  <2>. QED
    BY <1>1, <1>3, <2>1, ShutdownLemma DEF IInv, TypeOK, Visited, Session
<1>. QED
  BY <1>1, <1>2, <1>3 DEF SubsessionAfterPlaying

\* The delayed task shuts down a client that is still there.
LEMMA TimerLemma == IInv /\ StreamTimerHandler => IInv'
<1>. SUFFICES ASSUME IInv, StreamTimerHandler PROVE IInv'
  OBVIOUS
<1>1. /\ client = "open" /\ Shutdown(sinks, sessionId)
      /\ UNCHANGED <<sessionId, cursor, duration, now, started, ended, malformed, range, playedAt>>
  BY DEF StreamTimerHandler, history
<1>. QED
  BY <1>1, ShutdownLemma DEF IInv, TypeOK, Visited, Live, Session

\* The connection and the clock change nothing that the invariant speaks of.
LEMMA LinkAndClockLemma == IInv /\ (Connected \/ ConnectionLost \/ Tick) => IInv'
<1>. SUFFICES ASSUME IInv, Connected \/ ConnectionLost \/ Tick PROVE IInv'
  OBVIOUS
<1>1. /\ link' \in {"down", "connecting", "up"} /\ now' \in Nat
      /\ UNCHANGED <<client, pending, sessionId, torn, hasSession, cursor, source, rtcp, sinks, bye,
                     duration, timer, started, ended, malformed, range, playedAt>>
  BY DEF Connected, ConnectionLost, Tick, dialog, media, clock, history, IInv, TypeOK
<1>2. TypeOK' /\ Phase' /\ Visited' /\ Live' /\ Session'
  BY <1>1 DEF IInv, TypeOK, Phase, Visited, Live, Session
<1>3. CallbacksAlive' /\ NoOrphanClient' /\ TimerOwned' /\ TeardownOnlyIfLive'
  BY <1>1 DEF IInv, CallbacksAlive, NoOrphanClient, TimerOwned, TeardownOnlyIfLive
<1>. QED
  BY <1>2, <1>3 DEF IInv

\* Every step keeps the invariant.
LEMMA NextLemma == IInv /\ [Next]_vars => IInv'
<1>. SUFFICES ASSUME IInv, [Next]_vars PROVE IInv'
  OBVIOUS
<1>1. CASE UNCHANGED vars
  <2>1. UNCHANGED <<client, link, pending, sessionId, torn, hasSession, cursor, source, rtcp, sinks,
                    bye, duration, timer, now, started, ended, malformed, range, playedAt>>
    BY <1>1 DEF vars, dialog, media, clock, history
  <2>2. TypeOK' /\ Phase' /\ Visited' /\ Live' /\ Session'
    BY <2>1 DEF IInv, TypeOK, Phase, Visited, Live, Session
  <2>3. CallbacksAlive' /\ NoOrphanClient' /\ TimerOwned' /\ TeardownOnlyIfLive'
    BY <2>1 DEF IInv, CallbacksAlive, NoOrphanClient, TimerOwned, TeardownOnlyIfLive
  <2>. QED
    BY <2>2, <2>3 DEF IInv
<1>2. CASE Next
  BY <1>2, DescribeLemma, AfterDescribeLemma, AfterSetupLemma, AfterPlayLemma, AfterPlayingLemma,
     TimerLemma, LinkAndClockLemma DEF Next, Answer
<1>. QED
  BY <1>1, <1>2

-----------------------------------------------------------------------------
(***************************************************************************)
(* The safety invariants.                                                  *)
(***************************************************************************)

\* The inductive invariant of the control plane.
THEOREM Invariant == Spec => []IInv
  BY InitLemma, NextLemma, PTL DEF Spec

\* The variables always have values of their types; the one that is in doubt is
\* the due time of the delayed task, whatever the conversion to unsigned gives.
THEOREM TypeCorrect == Spec => []TypeOK
<1>1. IInv => TypeOK
  BY DEF IInv
<1>. QED
  BY <1>1, Invariant, PTL

\* The answer to a SETUP is applied to the subsession it was asked for, which
\* has its source and never had a sink.
THEOREM AnswersMatch == Spec => []SetupTargetsCursor
<1>1. IInv => SetupTargetsCursor
  BY CursorLemma DEF SetupTargetsCursor
<1>. QED
  BY <1>1, Invariant, PTL

\* No callback of a sink, of an RTCP instance or of a subsession is left behind
\* for an object that is gone, nor is the delayed task.
THEOREM OwnersAlive == Spec => []NothingDangles
<1>1. IInv => NothingDangles
  BY CursorLemma DEF IInv, NothingDangles, SetupTargetsCursor
<1>. QED
  BY <1>1, Invariant, PTL

\* The client is shut down with its last stream, never later; and only a rejected
\* SETUP answer that had set the session id makes it play nothing.
THEOREM StreamsRemain == Spec => []HasStreams
<1>1. IInv => NoOrphanClient
  BY DEF IInv
<1>2. IInv => PlaysSomething
  BY SubsAssumption DEF IInv, Phase, Session, NoOrphanClient, PlaysSomething
<1>3. IInv => HasStreams
  BY <1>1, <1>2 DEF HasStreams
<1>. QED
  BY <1>3, Invariant, PTL

\* TEARDOWN is sent only in a session with a live stream.
THEOREM TeardownIsDue == Spec => []TeardownOnlyIfLive
<1>1. IInv => TeardownOnlyIfLive
  BY DEF IInv
<1>. QED
  BY <1>1, Invariant, PTL

-----------------------------------------------------------------------------
(***************************************************************************)
(* The end of a stream of known duration.                                  *)
(***************************************************************************)

\* How the delayed task, the range and the answer to PLAY are related.
Timed ==
  /\ pending.cmd = "PLAY" => duration = range /\ playedAt = NoTimer
  /\ timer # NoTimer =>
       /\ range > 0
       /\ range + DelaySlop < UnsignedLimit => timer = playedAt + range + DelaySlop

\* A step that only closes the client, or leaves the timer and what it was
\* computed from alone, keeps Timed.
LEMMA TimedKept ==
  ASSUME IInv', Timed,
         \/ client' = "exited"
         \/ /\ UNCHANGED <<timer, playedAt, range, duration>>
            /\ pending'.cmd = "PLAY" => pending' = pending
  PROVE  Timed'
<1>1. CASE client' = "exited"
  BY <1>1 DEF IInv, Phase, TimerOwned, Timed, NoRequest
<1>2. CASE /\ UNCHANGED <<timer, playedAt, range, duration>>
           /\ pending'.cmd = "PLAY" => pending' = pending
  BY <1>2 DEF Timed
<1>. QED
  BY <1>1, <1>2

\* setupNextSubsession() finds no task pending, and leaves none.
LEMMA TimedSetupNext ==
  ASSUME IInv, IInv', Timed, pending.cmd \in {"DESCRIBE", "SETUP"}, playedAt' = playedAt,
         NEW i, NEW snk, NEW handlers, NEW sid, SetupNext(i, snk, handlers, sid)
  PROVE  Timed'
<1>1. playedAt = NoTimer /\ timer = NoTimer
  BY SubsAssumption DEF IInv, TypeOK, Phase, TimerOwned, NoRequest
<1>2. PICK j, half : SendSETUP(j, half, snk, handlers) \/ SendPLAY(half, snk, handlers, sid)
  BY DEF SetupNext
<1>3. CASE SendSETUP(j, half, snk, handlers)
  <2>1. pending' = Request("SETUP", j) /\ UNCHANGED timer
    BY <1>3 DEF SendSETUP, Issue, GoOn
  <2>. QED
    BY <1>1, <2>1 DEF Timed, Request
<1>4. CASE SendPLAY(half, snk, handlers, sid)
  <2>1. duration' = range'
    BY <1>4 DEF SendPLAY
  <2>2. CASE GoOn(snk, handlers)
    BY <1>1, <2>1, <2>2 DEF GoOn, Timed
  <2>3. CASE Shutdown(snk, sid)
    BY <2>3, TimedKept DEF Shutdown
  <2>. QED
    BY <1>4, <2>2, <2>3 DEF SendPLAY
<1>. QED
  BY <1>2, <1>3, <1>4

\* The answer to PLAY schedules the task at the end of the range.
LEMMA TimedAfterPlay ==
  ASSUME IInv, IInv', Timed, ContinueAfterPLAY
  PROVE  Timed'
<1>1. CASE Shutdown(sinks, sessionId)
  BY <1>1, TimedKept DEF Shutdown
<1>2. CASE pending' = NoRequest /\ ScheduleEnd /\ playedAt' = now
  <2>1. /\ duration = range /\ playedAt = NoTimer /\ timer = NoTimer /\ range' = range
        /\ range \in Nat /\ now \in Nat /\ DelaySlop \in Nat
    BY TimerAssumption DEF ContinueAfterPLAY, Timed, IInv, TypeOK, TimerOwned
  <2>2. CASE duration > 0
    <3>1. PICK delay \in ToUnsigned(range + DelaySlop) : timer' = now + delay
      BY <1>2, <2>1, <2>2 DEF ScheduleEnd
    <3>2. range + DelaySlop < UnsignedLimit => delay = range + DelaySlop
      BY <3>1 DEF ToUnsigned
    <3>3. range + DelaySlop < UnsignedLimit => timer' = now + range + DelaySlop
      BY <2>1, <3>1, <3>2
    <3>. QED
      BY <1>2, <2>1, <2>2, <3>3 DEF Timed, NoRequest
  <2>3. CASE ~(duration > 0)
    BY <1>2, <2>1, <2>3 DEF ScheduleEnd, Timed, NoRequest
  <2>. QED
    BY <2>2, <2>3
<1>. QED
  BY <1>1, <1>2 DEF ContinueAfterPLAY

\* Every step keeps Timed.
LEMMA TimedStep == IInv /\ IInv' /\ Timed /\ [Next]_vars => Timed'
<1>. SUFFICES ASSUME IInv, IInv', Timed, [Next]_vars PROVE Timed'
  OBVIOUS
<1>1. CASE UNCHANGED vars
  BY <1>1, TimedKept DEF vars, dialog, clock, history
<1>2. CASE SendDescribe
  <2>1. CASE Shutdown({}, FALSE)
    BY <2>1, TimedKept DEF Shutdown
  <2>2. CASE Issue(Request("DESCRIBE", 0)) /\ UNCHANGED timer
    <3>1. pending'.cmd # "PLAY" /\ UNCHANGED <<timer, playedAt, range, duration>>
      BY <1>2, <2>2 DEF SendDescribe, Issue, Request, history
    <3>. QED
      BY <3>1, TimedKept
  <2>. QED
    BY <1>2, <2>1, <2>2 DEF SendDescribe
<1>3. CASE ContinueAfterDESCRIBE
  <2>1. CASE SetupNext(1, {}, {}, sessionId)
    BY <1>3, <2>1, TimedSetupNext DEF ContinueAfterDESCRIBE
  <2>2. CASE Shutdown({}, sessionId)
    BY <2>2, TimedKept DEF Shutdown
  <2>. QED
    BY <1>3, <2>1, <2>2 DEF ContinueAfterDESCRIBE
<1>4. CASE ContinueAfterSETUP
  BY <1>4, TimedSetupNext DEF ContinueAfterSETUP, SetupSucceeds, SetupMalformed, SetupFails
<1>5. CASE ContinueAfterPLAY
  BY <1>5, TimedAfterPlay
<1>6. ASSUME NEW i \in Subsessions, SubsessionBye(i) \/ SourceClosure(i) PROVE Timed'
  <2>1. UNCHANGED <<duration, range, playedAt>> /\ SubsessionAfterPlaying(i)
    BY <1>6 DEF SubsessionBye, SourceClosure
  <2>2. client' = "exited" \/ UNCHANGED <<pending, timer>>
    BY <2>1 DEF SubsessionAfterPlaying, Shutdown
  <2>. QED
    BY <2>1, <2>2, TimedKept
<1>7. CASE StreamTimerHandler
  BY <1>7, TimedKept DEF StreamTimerHandler, Shutdown
<1>8. CASE Connected \/ ConnectionLost \/ Tick
  BY <1>8, TimedKept DEF Connected, ConnectionLost, Tick, dialog, clock, history
<1>. QED
  BY <1>1, <1>2, <1>3, <1>4, <1>5, <1>6, <1>7, <1>8 DEF Next, Answer

\* A client that plays stops by itself only when its delayed task is due.
LEMMA OnlyTimerStops ==
  ASSUME IInv, Timed, Next, StopsByItself
  PROVE  StreamTimerHandler
<1>1. /\ client = "open" /\ client' = "exited" /\ ended' = ended
      /\ playedAt # NoTimer /\ cursor = Subs + 1 /\ pending.cmd \in {"none", "PLAY"}
  BY DEF StopsByItself, IInv, Phase
<1>2. ~SendDescribe
  BY <1>1 DEF SendDescribe
<1>3. ~ContinueAfterDESCRIBE /\ ~ContinueAfterSETUP
  BY <1>1 DEF ContinueAfterDESCRIBE, ContinueAfterSETUP
<1>4. ~ContinueAfterPLAY
  BY <1>1 DEF ContinueAfterPLAY, Timed
<1>5. ASSUME NEW i \in Subsessions, SubsessionBye(i) \/ SourceClosure(i) PROVE FALSE
  <2>1. i \in started /\ i \in ended
    BY <1>1, <1>5 DEF SubsessionBye, SourceClosure, IInv, CallbacksAlive, Live
  <2>2. sinks # {} /\ i \notin sinks
    BY <1>1, <2>1 DEF IInv, NoOrphanClient, Live
  <2>3. sinks \ {i} # {}
    BY <2>2
  <2>4. UNCHANGED client
    BY <1>5, <2>3 DEF SubsessionBye, SourceClosure, SubsessionAfterPlaying
  <2>. QED
    BY <1>1, <2>4
<1>6. ~(Connected \/ ConnectionLost \/ Tick)
  BY <1>1 DEF Connected, ConnectionLost, Tick, dialog
<1>. QED
  BY <1>2, <1>3, <1>4, <1>5, <1>6 DEF Next, Answer

\* A client that plays is not stopped before the range it asked for and the
\* slop are over, unless that delay is beyond an unsigned.
THEOREM PlayedOut == Spec => PlaysOutIfFits
<1>. DEFINE Early == StopsByItself /\ range + DelaySlop < UnsignedLimit
                       => range > 0 /\ now >= playedAt + range + DelaySlop
<1>1. Init => Timed
  BY DEF Init, Timed, NoRequest
<1>2. IInv /\ Timed /\ [Next]_vars => [Early]_vars
  <2>. SUFFICES ASSUME IInv, Timed, Next, StopsByItself, range + DelaySlop < UnsignedLimit
                PROVE  range > 0 /\ now >= playedAt + range + DelaySlop
    OBVIOUS
  <2>1. timer # NoTimer /\ now >= timer
    BY OnlyTimerStops DEF StreamTimerHandler
  <2>. QED
    BY <2>1 DEF Timed
<1>. QED
  BY <1>1, <1>2, Invariant, TimedStep, PTL DEF Spec, PlaysOutIfFits

-----------------------------------------------------------------------------
(***************************************************************************)
(* Refinement: the commands follow RtspDialog.                             *)
(***************************************************************************)

\* shutdownStream() closes the dialog.
LEMMA ShutdownIsClose ==
  ASSUME IInv, NEW active, NEW sid, Shutdown(active, sid), client # "exited",
         sid = sessionId', sessionId' \in BOOLEAN, sessionId => sessionId',
         cursor' \in cursor..Subs + 1
  PROVE  Dialog!Close
<1>1. /\ client' = "exited" /\ pending' = NoRequest
      /\ torn' \in BOOLEAN /\ (torn' => sid)
  BY DEF Shutdown
<1>2. client \in {"idle", "open"}
  BY DEF IInv, TypeOK
<1>3. Stage # "over" /\ Stage' = "over"
  BY <1>1, <1>2 DEF Stage
<1>4. ~(pending # NoRequest)'
  BY <1>1
<1>. QED
  BY <1>1, <1>3, <1>4 DEF Dialog!Close

\* setupNextSubsession() goes on to a later SETUP or to PLAY, or closes.
LEMMA SetupNextIsDialog ==
  ASSUME IInv, IInv', pending.cmd \in {"DESCRIBE", "SETUP"},
         NEW snk, NEW handlers, NEW sid, SetupNext(cursor + 1, snk, handlers, sid),
         sid = sessionId', sessionId => sessionId', pending.cmd = "DESCRIBE" => ~sessionId'
  PROVE  Dialog!Setup \/ Dialog!Play \/ Dialog!Close
<1>. USE SubsAssumption
<1>1. /\ client = "open" /\ cursor \in 0..Subs /\ pending # NoRequest
      /\ (pending.cmd = "DESCRIBE") <=> (cursor = 0)
  BY DEF IInv, TypeOK, Phase, NoRequest, Request, Subsessions
<1>2. Stage = IF cursor = 0 THEN "describe" ELSE "setup"
  BY <1>1 DEF Stage
<1>3. PICK j \in cursor + 1..Subs + 1 : \E half \in SUBSET (cursor + 1..j - 1) :
        /\ cursor' = j
        /\ \/ SendSETUP(j, half, snk, handlers)
           \/ j = Subs + 1 /\ SendPLAY(half, snk, handlers, sid)
  BY DEF SetupNext
<1>4. PICK half : /\ cursor' = j
                  /\ \/ SendSETUP(j, half, snk, handlers)
                     \/ j = Subs + 1 /\ SendPLAY(half, snk, handlers, sid)
  BY <1>3
<1>5. sessionId' \in BOOLEAN /\ cursor' > cursor /\ cursor' # 0 /\ cursor' \in cursor..Subs + 1
  BY <1>1, <1>4 DEF IInv, TypeOK
<1>6. CASE SendSETUP(j, half, snk, handlers)
  <2>1. /\ client' = "open" /\ UNCHANGED torn /\ pending' = Request("SETUP", j)
        /\ cursor' \in 1..Subs
    BY <1>1, <1>4, <1>5, <1>6 DEF SendSETUP, GoOn, Issue
  <2>2. Stage' = "setup"
    BY <2>1 DEF Stage
  <2>3. (pending # NoRequest)'
    BY <2>1 DEF Request, NoRequest
  <2>. QED
    BY <1>1, <1>2, <1>5, <2>1, <2>2, <2>3 DEF Dialog!Setup
<1>7. CASE j = Subs + 1 /\ SendPLAY(half, snk, handlers, sid)
  <2>1. CASE sid /\ Issue(Request("PLAY", 0)) /\ GoOn(snk, handlers)
    <3>1. /\ client' = "open" /\ UNCHANGED torn /\ pending' = Request("PLAY", 0)
          /\ cursor' = Subs + 1 /\ sessionId' = TRUE
      BY <1>4, <1>5, <1>7, <2>1 DEF GoOn, Issue
    <3>2. Stage' = "play" /\ Stage = "setup"
      BY <1>1, <1>2, <3>1 DEF Stage
    <3>3. (pending # NoRequest)'
      BY <3>1 DEF Request, NoRequest
    <3>. QED
      BY <1>1, <3>1, <3>2, <3>3 DEF Dialog!Play
  <2>2. CASE Shutdown(snk, sid)
    BY <1>1, <1>5, <2>2, ShutdownIsClose
  <2>. QED
    BY <1>7, <2>1, <2>2 DEF SendPLAY
<1>. QED
  BY <1>4, <1>6, <1>7

\* Every step of the client is a step of the dialog, or none.
LEMMA DialogStep == IInv /\ IInv' /\ Timed /\ [Next]_vars => [Dialog!Next]_Dialog!dvars
<1>. SUFFICES ASSUME IInv, IInv', Timed, [Next]_vars PROVE [Dialog!Next]_Dialog!dvars
  OBVIOUS
<1>. USE SubsAssumption
<1>1. \* steps that the dialog does not see
  ASSUME UNCHANGED <<client, cursor, pending, sessionId, torn>>
  PROVE  UNCHANGED Dialog!dvars
  BY <1>1 DEF Dialog!dvars, Stage
<1>2. \* shutdownStream() outside setupNextSubsession()
  ASSUME NEW active, NEW sid, Shutdown(active, sid), client # "exited", sid = sessionId,
         UNCHANGED <<sessionId, cursor>>
  PROVE  Dialog!Close
  BY <1>2, ShutdownIsClose DEF IInv, TypeOK
<1>3. CASE UNCHANGED vars
  BY <1>1, <1>3 DEF vars, dialog
<1>4. CASE SendDescribe
  <2>1. client = "idle" /\ cursor = 0 /\ sessionId = FALSE /\ UNCHANGED <<sessionId, cursor>>
    BY <1>4 DEF SendDescribe, IInv, TypeOK, Phase, Visited
  <2>2. CASE Shutdown({}, FALSE)
    BY <1>2, <2>1, <2>2 DEF Dialog!Next
  <2>3. CASE client' = "open" /\ Issue(Request("DESCRIBE", 0)) /\ UNCHANGED torn
    <3>1. Stage = "idle" /\ Stage' = "describe"
      BY <2>1, <2>3 DEF Stage
    <3>2. (pending # NoRequest)'
      BY <2>3 DEF Issue, Request, NoRequest
    <3>. QED
      BY <2>1, <2>3, <3>1, <3>2 DEF Dialog!Describe, Dialog!Next
  <2>. QED
    BY <1>4, <2>2, <2>3 DEF SendDescribe
<1>5. CASE ContinueAfterDESCRIBE
  <2>1. /\ client = "open" /\ cursor = 0 /\ ~sessionId /\ UNCHANGED sessionId
        /\ pending.cmd = "DESCRIBE"
    BY <1>5 DEF ContinueAfterDESCRIBE, IInv, TypeOK, Phase, Visited, NoRequest, Request, Subsessions
  <2>2. CASE SetupNext(1, {}, {}, sessionId)
    <3>1. SetupNext(cursor + 1, {}, {}, sessionId)
      BY <2>1, <2>2
    <3>. QED
      BY <2>1, <3>1, SetupNextIsDialog DEF Dialog!Next
  <2>3. CASE Shutdown({}, sessionId) /\ UNCHANGED cursor
    BY <1>2, <2>1, <2>3 DEF Dialog!Next
  <2>. QED
    BY <1>5, <2>2, <2>3 DEF ContinueAfterDESCRIBE
<1>6. CASE ContinueAfterSETUP
  <2>1. pending.cmd = "SETUP"
    BY <1>6 DEF ContinueAfterSETUP
  <2>2. CASE SetupSucceeds
    <3>1. /\ SetupNext(cursor + 1, sinks \cup {cursor}, bye \cup (rtcp \cap {cursor}), TRUE)
          /\ sessionId' = TRUE
      BY <2>2 DEF SetupSucceeds
    <3>. QED
      BY <2>1, <3>1, SetupNextIsDialog DEF Dialog!Next
  <2>3. CASE SetupMalformed
    <3>1. SetupNext(cursor + 1, sinks, bye, TRUE) /\ sessionId' = TRUE
      BY <2>3 DEF SetupMalformed
    <3>. QED
      BY <2>1, <3>1, SetupNextIsDialog DEF Dialog!Next
  <2>4. CASE SetupFails
    <3>1. SetupNext(cursor + 1, sinks, bye, sessionId) /\ sessionId' = sessionId
      BY <2>4 DEF SetupFails
    <3>. QED
      BY <2>1, <3>1, SetupNextIsDialog DEF Dialog!Next
  <2>. QED
    BY <1>6, <2>2, <2>3, <2>4 DEF ContinueAfterSETUP
<1>7. CASE ContinueAfterPLAY
  <2>1. /\ client = "open" /\ cursor = Subs + 1 /\ pending # NoRequest
        /\ UNCHANGED <<sessionId, cursor>>
    BY <1>7 DEF ContinueAfterPLAY, IInv, TypeOK, Phase, NoRequest, Request, Subsessions
  <2>2. CASE pending' = NoRequest /\ UNCHANGED <<client, torn>>
    <3>1. Stage = "play" /\ Stage' = "play"
      BY <2>1, <2>2 DEF Stage
    <3>2. ~(pending # NoRequest)'
      BY <2>2
    <3>. QED
      BY <2>1, <2>2, <3>1, <3>2 DEF Dialog!Started, Dialog!Next
  <2>3. CASE Shutdown(sinks, sessionId)
    BY <1>2, <2>1, <2>3 DEF Dialog!Next
  <2>. QED
    BY <1>7, <2>2, <2>3 DEF ContinueAfterPLAY
<1>8. ASSUME NEW i \in Subsessions, SubsessionBye(i) \/ SourceClosure(i)
      PROVE  [Dialog!Next]_Dialog!dvars
  <2>1. client = "open" /\ UNCHANGED <<sessionId, cursor>> /\ SubsessionAfterPlaying(i)
    BY <1>8 DEF SubsessionBye, SourceClosure, IInv, CallbacksAlive
  <2>2. CASE UNCHANGED <<client, pending, torn>>
    BY <1>1, <2>1, <2>2
  <2>3. CASE Shutdown({}, sessionId)
    BY <1>2, <2>1, <2>3 DEF Dialog!Next
  <2>. QED
    BY <2>1, <2>2, <2>3 DEF SubsessionAfterPlaying
<1>9. CASE StreamTimerHandler
  BY <1>2, <1>9 DEF StreamTimerHandler, Dialog!Next
<1>10. CASE Connected \/ ConnectionLost \/ Tick
  BY <1>1, <1>10 DEF Connected, ConnectionLost, Tick, dialog
<1>. QED
  BY <1>3, <1>4, <1>5, <1>6, <1>7, <1>8, <1>9, <1>10 DEF Next, Answer

\* The player's commands follow the dialog with the server: one at a time, in
\* order, PLAY and TEARDOWN at most once and only inside a session.
THEOREM FollowsDialog == Spec => ImplementsDialog
<1>1. Init => Dialog!Init
  BY DEF Init, Dialog!Init, Stage
<1>2. Init => Timed
  BY DEF Init, Timed, NoRequest
<1>. QED
  BY <1>1, <1>2, Invariant, TimedStep, DialogStep, PTL DEF Spec, ImplementsDialog, Dialog!Spec
=============================================================================
