------------------------- MODULE RTSPClientRequests -------------------------
(***************************************************************************)
(* The request machinery of liveMedia's RTSPClient: the queues of requests *)
(* that await a connection and a response, the TCP connection that opens,  *)
(* fails, is closed by the server and opened again, the matching of        *)
(* responses to requests by CSeq, and the resending of requests after a    *)
(* 401 or a redirection.                                                   *)
(*                                                                         *)
(* One action is one run of a callback of the event loop, except that the  *)
(* two loops that call handlers (connectionHandler1(), and                 *)
(* handleResponseBytes() after a read error) are one action per request:   *)
(* a handler may submit new requests in the middle of such a loop.         *)
(***************************************************************************)
EXTENDS Naturals, Sequences, FiniteSets

\* Response codes.  ok: 200.  bad: 200, but handleSETUPResponse() or another
\* handle*Response() rejects it.  error: any other status.  auth: a 401 that can
\* be answered.  moved: 301 or 302.
AllCodes == {"ok", "bad", "error", "auth", "moved"}

\* What the server may get wrong: it answers a request not at all, or twice, or
\* leaves the CSeq out of the response.
AllFaults == {"skip", "duplicate", "nocseq"}

CONSTANT Worlds  \* the callers and the servers that the client may meet

\* A world bounds the requests that the callers submit, the requests that they
\* leave unanswered at a time (pipeline), and fCSeq, which is how often the server
\* may ask to resend; closes tells whether a response may carry "Connection: Close",
\* and nested whether a handler that hears, while requests are being resent on a new
\* connection, that its own cannot be sent, submits the next one at once.
ASSUME WorldsAssumption ==
  \A w \in Worlds :
    /\ w.requests \in Nat \ {0} /\ w.pipeline \in Nat \ {0} /\ w.maxCSeq \in Nat
    /\ w.codes \subseteq AllCodes /\ w.closes \subseteq BOOLEAN /\ w.faults \subseteq AllFaults
    /\ w.nested \in BOOLEAN

VARIABLES
  world,               \* the callers and the server of this behaviour
  socket,              \* fInputSocketNum: "closed", "connecting", "open"
  fCSeq,               \* the last CSeq used
  issued,              \* the requests submitted so far are 1..issued
  cseq,                \* the CSeq of each request
  awaitingConnection,  \* fRequestsAwaitingConnection
  awaitingResponse,    \* fRequestsAwaitingResponse
  loop,                \* the loop in progress: "none", "resend" or "fail"
  tmp,                 \* the temporary queue of that loop
  inHandler,           \* that loop has just called a handler
  partial,             \* the response in fResponseBuffer, body incomplete
  toServer,            \* requests under way on this connection
  fromServer,          \* responses under way on this connection
  calls,               \* history: handler calls of each request
  succeeded,           \* history: requests whose handler heard of success
  deleted,             \* history: requests whose record was deleted
  accepted             \* history: requests the server answered with "ok"

queues  == <<awaitingConnection, awaitingResponse, tmp>>
wire    == <<toServer, fromServer>>
history == <<calls, succeeded, deleted, accepted>>
machine == <<socket, fCSeq, issued, cseq, queues, loop, inHandler, partial, wire, history>>
vars    == <<world, machine>>

Ids == 1..world.requests
NoReply == [id |-> 0, cseq |-> 0, code |-> "none", split |-> FALSE, close |-> FALSE]

Init ==
  /\ world \in Worlds
  /\ socket = "closed" /\ fCSeq = 0 /\ issued = 0
  /\ cseq = [r \in Ids |-> 0]
  /\ awaitingConnection = <<>> /\ awaitingResponse = <<>> /\ tmp = <<>>
  /\ loop = "none" /\ inHandler = FALSE
  /\ partial = NoReply
  /\ toServer = <<>> /\ fromServer = <<>>
  /\ calls = [r \in Ids |-> 0]
  /\ succeeded = {} /\ deleted = {} /\ accepted = {}

(***************************************************************************)
(* Handlers and requests.                                                  *)
(***************************************************************************)

\* The handlers of the requests in `rs' are called, and those records and the
\* ones in `others' are deleted.
Conclude(rs, others) ==
  /\ calls' = [r \in Ids |-> IF r \in rs THEN calls[r] + 1 ELSE calls[r]]
  /\ deleted' = deleted \cup rs \cup others

\* The connection and the response queue as sendRequest() finds them.
Current == [socket |-> socket, queue |-> awaitingResponse, out |-> toServer, in |-> fromServer]
Fresh(queue) == [socket |-> "closed", queue |-> queue, out |-> <<>>, in |-> <<>>]

Becomes(st) ==
  /\ socket' = st.socket
  /\ awaitingResponse' = st.queue
  /\ toServer' = st.out
  /\ fromServer' = st.in

\* sendRequest() of `r' with the CSeq `c', while the records in `gone' are
\* deleted: it waits for the connection, is written, or cannot be sent.
SendRequest(r, c, st, gone) ==
  \/ /\ awaitingConnection # <<>> \/ st.socket = "closed"
     /\ awaitingConnection' = Append(awaitingConnection, r)
     /\ Becomes([st EXCEPT !.socket = IF awaitingConnection = <<>> THEN "connecting" ELSE @])
     /\ Conclude({}, gone)
  \/ /\ awaitingConnection = <<>>
     /\ Becomes([st EXCEPT !.socket = "open",
                           !.queue = Append(@, r),
                           !.out = Append(@, [id |-> r, cseq |-> c])])
     /\ Conclude({}, gone)
     /\ UNCHANGED awaitingConnection
  \/ /\ awaitingConnection = <<>>
     /\ \E s \in {st.socket, "open"} : Becomes([st EXCEPT !.socket = s])
     /\ Conclude({r}, gone)
     /\ UNCHANGED awaitingConnection

\* send...Command(): a caller submits its next request.
Submit ==
  /\ issued < world.requests
  /\ loop = "none" \/ (inHandler /\ (loop = "resend" => world.nested))
  /\ Cardinality({r \in 1..issued : calls[r] = 0}) < world.pipeline
  /\ issued' = issued + 1
  /\ fCSeq' = fCSeq + 1
  /\ cseq' = [cseq EXCEPT ![issued + 1] = fCSeq + 1]
  /\ SendRequest(issued + 1, fCSeq + 1, Current, {})
  /\ UNCHANGED <<loop, tmp, inHandler, partial, succeeded, accepted>>

(***************************************************************************)
(* connectionHandler1() and the loops over the temporary queue.            *)
(***************************************************************************)
ConnectionOpens ==
  /\ loop = "none" /\ socket = "connecting"
  /\ socket' = "open"
  /\ tmp' = awaitingConnection /\ awaitingConnection' = <<>>
  /\ loop' = "resend" /\ inHandler' = FALSE
  /\ UNCHANGED <<fCSeq, issued, cseq, awaitingResponse, partial, wire, history>>

ConnectionFails ==
  /\ loop = "none" /\ socket = "connecting"
  /\ socket' = "closed"
  /\ tmp' = awaitingConnection /\ awaitingConnection' = <<>>
  /\ loop' = "fail" /\ inHandler' = FALSE
  /\ UNCHANGED <<fCSeq, issued, cseq, awaitingResponse, partial, wire, history>>

\* Advances the loop; `called' tells whether the step called a handler.
Advance(called) ==
  /\ tmp' = Tail(tmp)
  /\ loop' = IF Tail(tmp) = <<>> THEN "none" ELSE loop
  /\ inHandler' = (called /\ Tail(tmp) # <<>>)

\* Slip: the loop resends its request without having taken it off the queue
\* fRequestsAwaitingConnection, which makes sendRequest() enqueue it again.
ResendOneRequeues ==
  /\ loop = "resend"
  /\ awaitingConnection' = Append(awaitingConnection, Head(tmp))
  /\ Advance(FALSE)
  /\ UNCHANGED <<socket, fCSeq, issued, cseq, awaitingResponse, partial, wire, history>>

\* The connection is open: the next waiting request is sent.
ResendOne ==
  /\ loop = "resend"
  /\ LET r == Head(tmp)
     IN /\ SendRequest(r, cseq[r], Current, {})
        /\ Advance(calls'[r] # calls[r])
  /\ UNCHANGED <<fCSeq, issued, cseq, partial, succeeded, accepted>>

\* The connection failed or broke: the next request hears of it.
FailOne ==
  /\ loop = "fail"
  /\ Conclude({Head(tmp)}, {})
  /\ Advance(TRUE)
  /\ UNCHANGED <<socket, fCSeq, issued, cseq, awaitingConnection, awaitingResponse, partial,
                 wire, succeeded, accepted>>

\* Slip: the requests are told of a broken connection before they leave the
\* response queue, where they stay.
ConnectionBreaksKeepsQueue ==
  /\ loop = "none" /\ socket = "open"
  /\ Becomes(Fresh(awaitingResponse))
  /\ partial' = NoReply
  /\ tmp' = awaitingResponse
  /\ loop' = IF awaitingResponse = <<>> THEN "none" ELSE "fail"
  /\ inHandler' = FALSE
  /\ UNCHANGED <<fCSeq, issued, cseq, awaitingConnection, history>>

\* handleResponseBytes() after a read error or the end of the connection.
ConnectionBreaks ==
  /\ loop = "none" /\ socket = "open"
  /\ Becomes(Fresh(<<>>))
  /\ partial' = NoReply
  /\ tmp' = awaitingResponse
  /\ loop' = IF awaitingResponse = <<>> THEN "none" ELSE "fail"
  /\ inHandler' = FALSE
  /\ UNCHANGED <<fCSeq, issued, cseq, awaitingConnection, history>>

(***************************************************************************)
(* handleResponseBytes(): a response is matched with its request.          *)
(***************************************************************************)

\* Slip: the request with the CSeq `c' itself counts as overtaken.
OvertakenToo(c) ==
  CHOOSE k \in 0..Len(awaitingResponse) :
    /\ \A i \in 1..k : cseq[awaitingResponse[i]] <= c
    /\ k = Len(awaitingResponse) \/ cseq[awaitingResponse[k + 1]] > c

\* How many requests at the head of the response queue have a CSeq below `c'.
Overtaken(c) ==
  CHOOSE k \in 0..Len(awaitingResponse) :
    /\ \A i \in 1..k : cseq[awaitingResponse[i]] < c
    /\ k = Len(awaitingResponse) \/ cseq[awaitingResponse[k + 1]] >= c

\* Slip: the head of the queue is taken, whatever its CSeq.
MatchHead(c) ==
  [found   |-> IF awaitingResponse = <<>> THEN 0 ELSE Head(awaitingResponse),
   queue   |-> IF awaitingResponse = <<>> THEN <<>> ELSE Tail(awaitingResponse),
   skipped |-> {}]

\* The loop over the CSeq header.  Overtaken requests are deleted; then the
\* head is taken off the queue, and is the request found if its CSeq is `c'.  A
\* head with a larger CSeq is taken off all the same.  When no request was
\* found (or there was no CSeq header: `c' = 0), the next head is taken.
Match(c) ==
  LET k      == IF c = 0 THEN 0 ELSE Overtaken(c)
      rest   == SubSeq(awaitingResponse, k + 1, Len(awaitingResponse))
      hit    == rest # <<>> /\ cseq[rest[1]] = c
      behind == IF c = 0 \/ hit \/ rest = <<>> THEN rest ELSE Tail(rest)
  IN [found   |-> IF behind = <<>> THEN 0 ELSE Head(behind),
      queue   |-> IF behind = <<>> THEN <<>> ELSE Tail(behind),
      skipped |-> {awaitingResponse[i] : i \in 1..k}]

\* Nobody waits for the response.
Unclaimed(m, st) ==
  /\ m.found = 0
  /\ Becomes(st)
  /\ Conclude({}, m.skipped)
  /\ UNCHANGED <<fCSeq, cseq, awaitingConnection, succeeded>>

\* Slip: a 200 response counts as success even if handleSETUPResponse() rejects it.
CompleteUnparsed(m, st, code) ==
  /\ m.found # 0 /\ code \in {"ok", "bad", "error"}
  /\ Becomes(st)
  /\ Conclude({m.found}, m.skipped)
  /\ succeeded' = IF code = "error" THEN succeeded ELSE succeeded \cup {m.found}
  /\ UNCHANGED <<fCSeq, cseq, awaitingConnection>>

\* The handler of the request hears of success or of an error.
Complete(m, st, code) ==
  /\ m.found # 0 /\ code \in {"ok", "bad", "error"}
  /\ Becomes(st)
  /\ Conclude({m.found}, m.skipped)
  /\ succeeded' = IF code = "ok" THEN succeeded \cup {m.found} ELSE succeeded
  /\ UNCHANGED <<fCSeq, cseq, awaitingConnection>>

\* resendCommand(): the request gets a new CSeq and, after a redirection, a new
\* connection.  Its handler is left for the next response.  The response buffer
\* is reset before, and responses that were read together with this one are lost.
Resend(m, st, code) ==
  /\ m.found # 0 /\ code \in {"auth", "moved"}
  /\ fCSeq' = fCSeq + 1
  /\ cseq' = [cseq EXCEPT ![m.found] = fCSeq + 1]
  /\ \E k \in 0..Len(st.in) :
       SendRequest(m.found, fCSeq + 1,
                   IF code = "moved" THEN Fresh(m.queue)
                   ELSE [st EXCEPT !.in = SubSeq(@, k + 1, Len(@))], m.skipped)
  /\ UNCHANGED succeeded

\* A complete response `rep'; `in' is what follows it on the connection.
HandleResponse(rep, in) ==
  LET m  == Match(rep.cseq)
      st == IF rep.close THEN Fresh(m.queue)
            ELSE [Current EXCEPT !.queue = m.queue, !.in = in]
  IN Unclaimed(m, st) \/ Complete(m, st, rep.code) \/ Resend(m, st, rep.code)

ReceiveWhole ==
  /\ loop = "none" /\ socket = "open" /\ partial = NoReply
  /\ fromServer # <<>> /\ ~Head(fromServer).split
  /\ HandleResponse(Head(fromServer), Tail(fromServer))
  /\ UNCHANGED <<issued, loop, tmp, inHandler, partial, accepted>>

\* Slip: the request of an incomplete response is not put back.
ReceivePartForgets ==
  /\ loop = "none" /\ socket = "open" /\ partial = NoReply
  /\ fromServer # <<>> /\ Head(fromServer).split
  /\ partial' = Head(fromServer)
  /\ LET m == Match(Head(fromServer).cseq)
     IN /\ Becomes([Current EXCEPT !.queue = m.queue, !.in = Tail(fromServer)])
        /\ Conclude({}, m.skipped)
  /\ UNCHANGED <<fCSeq, issued, cseq, awaitingConnection, loop, tmp, inHandler, succeeded, accepted>>

\* The headers have arrived, the body has not: the request found goes back to
\* the head of the queue, and the whole is parsed again when there is more.
ReceivePart ==
  /\ loop = "none" /\ socket = "open" /\ partial = NoReply
  /\ fromServer # <<>> /\ Head(fromServer).split
  /\ partial' = Head(fromServer)
  /\ LET m == Match(Head(fromServer).cseq)
     IN /\ Becomes([Current EXCEPT !.queue = IF m.found = 0 THEN m.queue
                                              ELSE <<m.found>> \o m.queue,
                                   !.in = Tail(fromServer)])
        /\ Conclude({}, m.skipped)
  /\ UNCHANGED <<fCSeq, issued, cseq, awaitingConnection, loop, tmp, inHandler, succeeded, accepted>>

ReceiveRest ==
  /\ loop = "none" /\ socket = "open" /\ partial # NoReply
  /\ HandleResponse(partial, fromServer)
  /\ partial' = NoReply
  /\ UNCHANGED <<issued, loop, tmp, inHandler, accepted>>

(***************************************************************************)
(* The server.                                                             *)
(***************************************************************************)
Reply(req, code, split, close, withCSeq) ==
  [id |-> req.id, cseq |-> IF withCSeq THEN req.cseq ELSE 0,
   code |-> code, split |-> split, close |-> close]

\* It answers the oldest request; "Connection: Close" only on a response that
\* arrives in one piece, and nothing after it is read from that connection.
Serve ==
  /\ toServer # <<>>
  /\ toServer' = Tail(toServer)
  /\ \E code \in world.codes, split \in BOOLEAN, close \in world.closes,
        withCSeq \in {TRUE} \cup (IF "nocseq" \in world.faults THEN {FALSE} ELSE {}),
        copies \in {1} \cup (IF "duplicate" \in world.faults THEN {2} ELSE {}) :
       LET rep == Reply(Head(toServer), code, split, close, withCSeq)
       IN /\ code \in {"auth", "moved"} => fCSeq < world.maxCSeq
          /\ split => ~close
          /\ fromServer' = fromServer \o [i \in 1..copies |-> rep]
          /\ accepted' = IF code = "ok" THEN accepted \cup {rep.id} ELSE accepted
  /\ UNCHANGED <<socket, fCSeq, issued, cseq, queues, loop, inHandler, partial,
                 calls, succeeded, deleted>>

ServerSkips ==
  /\ "skip" \in world.faults
  /\ toServer # <<>>
  /\ toServer' = Tail(toServer)
  /\ UNCHANGED <<socket, fCSeq, issued, cseq, queues, loop, inHandler, partial, fromServer, history>>

\* The callbacks of the event loop, which ends a connection attempt one way or
\* the other.
Callback ==
  \/ ConnectionOpens \/ ConnectionFails \/ ResendOne \/ FailOne
  \/ ReceiveWhole \/ ReceivePart \/ ReceiveRest

Next == UNCHANGED world /\ (Submit \/ Callback \/ ConnectionBreaks \/ Serve \/ ServerSkips)

Spec == Init /\ [][Next]_vars

\* Callers are patient if they wait for each answer, as the player does, and the
\* server gives one.
Patient == world.pipeline = 1 /\ world.faults = {}

\* The event loop runs the callbacks that are due, and the server serves.  Only
\* patient callers are promised anything from it.
Fairness == WF_machine(Patient /\ Callback) /\ WF_machine(Patient /\ Serve)

FairSpec == Spec /\ Fairness

-----------------------------------------------------------------------------
(***************************************************************************)
(* Properties.                                                             *)
(***************************************************************************)
Replies == [id : Ids, cseq : Nat, code : world.codes, split : BOOLEAN, close : BOOLEAN]

\* The values the variables may have.
TypeOK ==
  /\ socket \in {"closed", "connecting", "open"}
  /\ world \in Worlds /\ fCSeq \in Nat /\ issued \in 0..world.requests
  /\ cseq \in [Ids -> Nat]
  /\ awaitingConnection \in Seq(Ids) /\ awaitingResponse \in Seq(Ids) /\ tmp \in Seq(Ids)
  /\ loop \in {"none", "resend", "fail"}
  /\ inHandler \in BOOLEAN
  /\ partial \in Replies \cup {NoReply}
  /\ toServer \in Seq([id : Ids, cseq : Nat])
  /\ fromServer \in Seq(Replies)
  /\ calls \in [Ids -> Nat]
  /\ succeeded \subseteq Ids /\ deleted \subseteq Ids /\ accepted \subseteq Ids

Places(r) ==
  Cardinality({i \in DOMAIN awaitingConnection : awaitingConnection[i] = r})
  + Cardinality({i \in DOMAIN awaitingResponse : awaitingResponse[i] = r})
  + Cardinality({i \in DOMAIN tmp : tmp[i] = r})
  + (IF r \in deleted THEN 1 ELSE 0)

\* The queues are sound, whatever the server does.  A request record is in at most
\* one place of one queue until it is deleted, however often it is resent, put back
\* or moved to another queue, and its handler is called at most once, when it is
\* deleted.  And fRequestsAwaitingConnection tells the truth about the connection:
\* sendRequest() takes a nonempty one to mean that a connection is pending; if the
\* two came apart, a request would wait for ever, or be written to a socket that is
\* not connected.
QueuesSound ==
  /\ TypeOK
  /\ \A r \in 1..issued :
       /\ Places(r) <= 1
       /\ calls[r] <= (IF r \in deleted THEN 1 ELSE 0)
  /\ awaitingConnection # <<>> <=> socket = "connecting"

\* A server is confusing if its CSeqs do not tell the requests apart.  A caller is,
\* if it submits a request while older ones are still being resent: these follow it
\* on the wire and in the response queue.  If its answer is lost then, because a
\* request before it must be resent, the next answer finds a later CSeq at the head
\* of the queue, and is given to the request behind that one.
Confusing ==
  \/ world.faults \cap {"duplicate", "nocseq"} # {}
  \/ world.nested /\ world.pipeline > 1

\* As long as nobody is confusing, no record is dropped undeleted, and every request
\* under way to the server still has its record in the response queue, with the CSeq
\* that it was sent with, in the order of the wire: Match() finds it, whichever of
\* the answers before it the server skips, or are lost in a resend.  (Only a
\* response to no waiting request makes handleResponseBytes() drop a record.)
NothingLost ==
  ~Confusing =>
    /\ \A r \in 1..issued : Places(r) = 1
    /\ \A i, j \in DOMAIN toServer : \E k, l \in DOMAIN awaitingResponse :
         /\ awaitingResponse[k] = toServer[i].id /\ awaitingResponse[l] = toServer[j].id
         /\ cseq[toServer[i].id] = toServer[i].cseq
         /\ i < j <=> k < l

\* Every request of a patient caller is answered, by the server or with an error:
\* again and again, nothing that was submitted is unanswered.
EveryRequestAnswered ==
  Patient ~> Patient /\ \A r \in 1..issued : calls[r] > 0

\* The queues implement the request service: requests are resolved at most once,
\* and truthfully unless somebody is confusing; none is forgotten if the caller
\* is patient, and none before the server has answered a later one if not.
Status ==
  [r \in Ids |-> IF r > issued THEN "idle"
                 ELSE IF r \in succeeded THEN "ok"
                 ELSE IF calls[r] > 0 THEN "error"
                 ELSE IF r \in deleted THEN "forgotten" ELSE "pending"]

Service == INSTANCE RequestService WITH mayForget <- ~Patient, mayConfuse <- Confusing,
                                   status <- Status

ImplementsService == Service!Spec
=============================================================================
