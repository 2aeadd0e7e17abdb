--------------------------- MODULE ResponseBuffer ---------------------------
(***************************************************************************)
(* How handleResponseBytes() (liveMedia/RTSPClient.cpp) cuts the bytes of  *)
(* a connection into responses.  What has been read stands in              *)
(* fResponseBuffer until its headers, and the body they announce, are      *)
(* complete; what follows a response is moved to the front and looked at   *)
(* in turn.  Since bytes are only appended behind, and dropped from the    *)
(* front or all together, the buffer is always the last part of what was   *)
(* read: its length says what is in it.                                    *)
(***************************************************************************)
EXTENDS Integers, Sequences, FiniteSets

CONSTANTS
  Size,       \* responseBufferSize
  Requests,   \* the number of requests, with CSeq 1, 2, ...
  Exchanges   \* what is sent: messages, a sequence of [kind, cseq, headEnd, end],
              \* with the places where header and message end; pipelined, whether
              \* requests are submitted before others are answered

\* A message is a response that is "ok", "bad" if it is whole but not what its
\* request needs, "malformed" if its CSeq cannot be read; or a "request".  The last
\* byte of a header stands for its last line with the blank line behind it.
Kinds == {"ok", "bad", "malformed", "request"}

ASSUME SizeAssumption == Size \in Nat \ {0} /\ Requests \in Nat
\* The server answers in the order of the requests, each of them at most once.
ASSUME ExchangesAssumption ==
  \A e \in Exchanges :
    LET ms == e.messages
    IN /\ e.pipelined \in BOOLEAN
       /\ ms \in Seq([kind : Kinds, cseq : 0..Requests, headEnd : Nat, end : Nat])
       /\ \A k \in DOMAIN ms :
            /\ ms[k].headEnd \in 1..ms[k].end
            /\ \A j \in 1..k - 1 : ms[j].end < ms[k].headEnd
            /\ ms[k].kind # "request" =>
                 /\ ms[k].cseq > 0
                 /\ \A j \in 1..k - 1 : ms[j].kind # "request" => ms[j].cseq < ms[k].cseq

VARIABLES
  exchange,
  sent,                        \* the number of requests submitted
  received, read,              \* bytes that have come in; that have been read
  fResponseBytesAlreadySeen,   \* how many of these are in the buffer
  numExtraBytesAfterResponse,
  looping,                     \* handleResponseBytes() is in its loop
  fRequestsAwaitingResponse,
  answers                      \* history: what the handlers were told

input == <<received, read>>
rvars == <<exchange, sent, input, fResponseBytesAlreadySeen, numExtraBytesAfterResponse, looping,
           fRequestsAwaitingResponse, answers>>

Ids == 1..Requests
Messages == DOMAIN exchange.messages
msg(k) == exchange.messages[k]

MessageEnd(k) == IF k = 0 THEN 0 ELSE msg(k).end
HeaderEnd(k)  == msg(k).headEnd
Length(k)     == MessageEnd(k) - MessageEnd(k - 1)

NotTold == [msg |-> 0, body |-> {}]
Error   == [msg |-> -1, body |-> {}]

ResponseInit ==
  /\ exchange \in Exchanges
  /\ sent = 0 /\ received = 0 /\ read = 0
  /\ fResponseBytesAlreadySeen = 0 /\ numExtraBytesAfterResponse = 0
  /\ looping = FALSE
  /\ fRequestsAwaitingResponse = <<>>
  /\ answers = [r \in Ids |-> NotTold]

(***************************************************************************)
(* The callers and the server.                                             *)
(***************************************************************************)

\* sendRequest() on an open connection.
Submit ==
  /\ sent < Requests
  /\ exchange.pipelined \/ \A r \in 1..sent : answers[r] # NotTold
  /\ sent' = sent + 1
  /\ fRequestsAwaitingResponse' = Append(fRequestsAwaitingResponse, sent + 1)
  /\ UNCHANGED <<exchange, input, fResponseBytesAlreadySeen, numExtraBytesAfterResponse, looping,
                 answers>>

\* Any number of bytes arrives; those of a response when its request was sent.
Receive ==
  /\ \E n \in received + 1..MessageEnd(Len(exchange.messages)) :
       /\ \A k \in Messages : MessageEnd(k - 1) < n => msg(k).cseq <= sent
       /\ received' = n
  /\ UNCHANGED <<exchange, sent, read, fResponseBytesAlreadySeen, numExtraBytesAfterResponse, looping,
                 fRequestsAwaitingResponse, answers>>

(***************************************************************************)
(* Reading.                                                                *)
(***************************************************************************)
fResponseBufferBytesLeft == Size - fResponseBytesAlreadySeen
Lesser(m, n) == IF m < n THEN m ELSE n
newBytesRead == Lesser(fResponseBufferBytesLeft, received - read)

CanRead == ~looping /\ read < received

ReadSome ==
  /\ CanRead /\ newBytesRead < fResponseBufferBytesLeft
  /\ read' = read + newBytesRead
  /\ fResponseBytesAlreadySeen' = fResponseBytesAlreadySeen + newBytesRead
  /\ numExtraBytesAfterResponse' = 0
  /\ looping' = TRUE
  /\ UNCHANGED <<exchange, sent, received, fRequestsAwaitingResponse, answers>>

\* The buffer is full: what was read is dropped, and the first request fails.
ReadTooMuch ==
  /\ CanRead /\ newBytesRead = fResponseBufferBytesLeft
  /\ read' = read + newBytesRead
  /\ fResponseBytesAlreadySeen' = 0
  /\ IF fRequestsAwaitingResponse = <<>> THEN UNCHANGED <<fRequestsAwaitingResponse, answers>>
     ELSE /\ fRequestsAwaitingResponse' = Tail(fRequestsAwaitingResponse)
          /\ answers' = [answers EXCEPT ![Head(fRequestsAwaitingResponse)] = Error]
  /\ UNCHANGED <<exchange, sent, received, numExtraBytesAfterResponse, looping>>

(***************************************************************************)
(* The loop, one step for each turn.                                       *)
(***************************************************************************)
front == read - fResponseBytesAlreadySeen     \* what is before the buffer
endOfHeaders == \E k \in Messages : HeaderEnd(k) \in front + 1..read

\* The buffer begins with message k.
Begins(k) == front = MessageEnd(k - 1)
Response(k) == endOfHeaders /\ Begins(k) /\ msg(k).kind # "request"

\* How many requests at the head of the queue have a CSeq below c.
Overtaken(c) ==
  LET q == fRequestsAwaitingResponse
  IN CHOOSE n \in 0..Len(q) : /\ \A i \in 1..n : q[i] < c
                              /\ n = Len(q) \/ q[n + 1] >= c

\* The CSeq header: overtaken requests go, and then one more, which was found if
\* the CSeq is its own.  If none was found, the next one is taken.
Match(c) ==
  LET q    == fRequestsAwaitingResponse
      rest == SubSeq(q, Overtaken(c) + 1, Len(q))
      left == IF rest = <<>> \/ Head(rest) = c THEN rest ELSE Tail(rest)
  IN [found |-> IF left = <<>> THEN 0 ELSE Head(left),
      queue |-> IF left = <<>> THEN <<>> ELSE Tail(left)]

\* Slip: one response is taken from each read.
MoreNever(success, extra) == FALSE

\* Whether there is another turn.
More(success, extra) == extra > 0 /\ success

\* The end of a turn: what follows the response is moved to the front, and the
\* handler of the request that was found is called.
Conclude(found, success, extra, answer) ==
  /\ fResponseBytesAlreadySeen' = extra
  /\ numExtraBytesAfterResponse' = extra
  /\ answers' = IF found = 0 THEN answers
             ELSE [answers EXCEPT ![found] = IF success THEN answer ELSE Error]
  /\ looping' = More(success, extra)
  /\ UNCHANGED <<exchange, sent, input>>

HeadersIncomplete ==
  /\ looping /\ ~endOfHeaders
  /\ looping' = FALSE
  /\ UNCHANGED <<exchange, sent, input, fResponseBytesAlreadySeen, numExtraBytesAfterResponse,
                 fRequestsAwaitingResponse, answers>>

\* No response, but perhaps a request, which is answered.  How many bytes are kept
\* is what the turn before has found.
NoResponse ==
  /\ looping /\ endOfHeaders /\ ~\E k \in Messages : Response(k)
  /\ Conclude(0, FALSE, numExtraBytesAfterResponse, NotTold)
  /\ UNCHANGED fRequestsAwaitingResponse

BadHeader(k) ==
  /\ looping /\ Response(k) /\ msg(k).kind = "malformed"
  /\ Conclude(0, FALSE, numExtraBytesAfterResponse, NotTold)
  /\ UNCHANGED fRequestsAwaitingResponse

contentLength(k) == MessageEnd(k) - HeaderEnd(k)
numBodyBytes(k)  == read - HeaderEnd(k)
numExtraBytesNeeded(k) == contentLength(k) - numBodyBytes(k)
Matched(k) == looping /\ Response(k) /\ msg(k).kind # "malformed"

\* More is needed, and there is room for it: the request is put back.
BodyIncomplete(k) ==
  /\ Matched(k) /\ numExtraBytesNeeded(k) \in 1..fResponseBufferBytesLeft
  /\ LET m == Match(msg(k).cseq)
     IN fRequestsAwaitingResponse' = IF m.found = 0 THEN m.queue ELSE <<m.found>> \o m.queue
  /\ looping' = FALSE
  /\ UNCHANGED <<exchange, sent, input, fResponseBytesAlreadySeen, numExtraBytesAfterResponse,
                 answers>>

BodyTooLong(k) ==
  /\ Matched(k) /\ numExtraBytesNeeded(k) > fResponseBufferBytesLeft
  /\ fRequestsAwaitingResponse' = Match(msg(k).cseq).queue
  /\ Conclude(Match(msg(k).cseq).found, FALSE, numExtraBytesAfterResponse, NotTold)

\* Slip: the length of the body is not counted.
ExtraFromHeaders(k) == numBodyBytes(k)

\* What follows the response.
Extra(k) == numBodyBytes(k) - contentLength(k)

\* Slip: the body is all that follows the header.
BodyToTheEnd(k) == HeaderEnd(k) + 1..read

\* The body that the handler is given: what follows the header, less the extra bytes.
Body(k) == HeaderEnd(k) + 1..read - Extra(k)

\* What is checked of a response is only what its request needs.
Complete(k) ==
  /\ Matched(k) /\ numExtraBytesNeeded(k) <= 0
  /\ LET m == Match(msg(k).cseq)
     IN /\ fRequestsAwaitingResponse' = m.queue
        /\ Conclude(m.found, msg(k).kind = "ok" \/ m.found = 0, Extra(k),
                    [msg |-> k, body |-> Body(k)])

Turn ==
  \/ HeadersIncomplete \/ NoResponse
  \/ \E k \in Messages : BadHeader(k) \/ BodyIncomplete(k) \/ BodyTooLong(k) \/ Complete(k)

handleResponseBytes == ReadSome \/ ReadTooMuch \/ Turn

ResponseNext == Submit \/ Receive \/ handleResponseBytes

ResponseSpec == ResponseInit /\ [][ResponseNext]_rvars

\* The event loop reads what is there, and the network delivers what was sent.
ResponseFairSpec == ResponseSpec /\ WF_rvars(handleResponseBytes) /\ WF_rvars(Receive)
-----------------------------------------------------------------------------
(***************************************************************************)
(* Properties.                                                             *)
(***************************************************************************)

\* The values the variables may have.
ResponseTypes ==
  /\ sent \in 0..Requests
  /\ received \in 0..MessageEnd(Len(exchange.messages)) /\ read \in 0..received
  /\ fResponseBytesAlreadySeen \in 0..Lesser(read, Size - 1)
  /\ numExtraBytesAfterResponse \in 0..read /\ looping \in BOOLEAN
  /\ fRequestsAwaitingResponse \in Seq(1..sent)
  /\ DOMAIN answers = Ids /\ \A r \in Ids : answers[r].msg \in {-1, 0} \cup Messages

\* As many bytes as fill the buffer contain the beginning of a response, wherever
\* they begin: an overrun, which fails the oldest request whoever has caused it, then
\* costs no more requests than responses.
Tame ==
  \/ ~exchange.pipelined
  \/ \A n \in 0..MessageEnd(Len(exchange.messages)) - Size :
       \E k \in Messages : msg(k).kind # "request" /\ MessageEnd(k - 1) \in n..n + Size - 1

\* Whatever comes before, between or too long, and however the bytes are read: a
\* handler that is told of success has its own response, with just the body of it.
OwnAnswer ==
  /\ ResponseTypes
  /\ Tame => \A r \in Ids, k \in Messages :
                answers[r].msg = k => /\ msg(k).kind = "ok" /\ msg(k).cseq = r
                                     /\ answers[r].body = HeaderEnd(k) + 1..MessageEnd(k)

\* What can be in the buffer at once fits.
Fits == IF exchange.pipelined THEN MessageEnd(Len(exchange.messages)) < Size
        ELSE \A k \in Messages : Length(k) < Size

\* Each request in its turn is answered with a response of one of these kinds.
OnlyOf(kinds) == Fits /\ \A k \in Messages : msg(k).kind \in kinds /\ msg(k).cseq = k

\* The buffer begins where a response does, also when one that its request does not
\* accept has left others behind it unread; and those that wait are the requests
\* whose responses have not been taken out of it, in their order.
InStep ==
  OnlyOf({"ok", "bad"}) =>
    \E k \in 0..Len(exchange.messages) :
      /\ front = MessageEnd(k)
      /\ fRequestsAwaitingResponse = [i \in 1..sent - k |-> k + i]

\* Every request is answered with success, if the server does so.
AllAnswered ==
  \A r \in Ids : OnlyOf({"ok"}) /\ r \in Messages /\ r <= sent ~> answers[r].msg > 0
=============================================================================
