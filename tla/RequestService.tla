--------------------------- MODULE RequestService ---------------------------
(***************************************************************************)
(* What an RTSP client promises its callers: a request that was submitted  *)
(* is resolved at most once, as a success only if the server accepted that *)
(* very request, otherwise as an error; and, where mayForget allows it, it *)
(* may be dropped without a word.  The module RTSPClientRequests           *)
(* implements this service with CSeq numbers over TCP connections.         *)
(***************************************************************************)
EXTENDS Naturals

VARIABLES
  mayForget,    \* may a request be dropped without calling its handler?
  mayConfuse,   \* may a request be taken for accepted when another one was?
  status,       \* what became of each request that is ever submitted
  accepted      \* the requests the server has accepted

svars == <<mayForget, mayConfuse, status, accepted>>

Ids == DOMAIN status

Init ==
  /\ mayForget \in BOOLEAN /\ mayConfuse \in BOOLEAN
  /\ status = [r \in Ids |-> "idle"]
  /\ accepted = {}

\* A request that cannot be sent is an error at once.
Submit(r) ==
  /\ status[r] = "idle"
  /\ \E s \in {"pending", "error"} : status' = [status EXCEPT ![r] = s]
  /\ UNCHANGED accepted

Accept(r) ==
  /\ accepted' = accepted \cup {r}
  /\ UNCHANGED status

\* How a pending request may end.
Ends(r) ==
  {"error"} \cup (IF r \in accepted \/ mayConfuse THEN {"ok"} ELSE {})
            \cup (IF mayForget THEN {"forgotten"} ELSE {})

\* One answer may settle several requests: its own, and earlier ones that will
\* have no answer any more.
Resolve ==
  /\ status' \in [Ids -> {"idle", "pending", "ok", "error", "forgotten"}]
  /\ \A r \in Ids :
       status'[r] # status[r] => status[r] = "pending" /\ status'[r] \in Ends(r)
  /\ UNCHANGED accepted

Next ==
  /\ UNCHANGED <<mayForget, mayConfuse>>
  /\ ((\E r \in Ids : Submit(r) \/ Accept(r)) \/ Resolve)

Spec == Init /\ [][Next]_svars
=============================================================================
