----------------------------- MODULE MCRequests -----------------------------
(***************************************************************************)
(* The worlds that TLC explores RTSPClientRequests in.                     *)
(***************************************************************************)
EXTENDS RTSPClientRequests

\* Callers that wait for each answer, as the player does.
PatientWorld ==
  [requests |-> 3, pipeline |-> 1, maxCSeq |-> 5, codes |-> AllCodes,
   closes |-> BOOLEAN, faults |-> {}, nested |-> TRUE]

\* Callers that pipeline three requests, also from within handlers that are called after a failure.
PipeliningWorld ==
  [requests |-> 3, pipeline |-> 3, maxCSeq |-> 4, codes |-> AllCodes,
   closes |-> BOOLEAN, faults |-> {}, nested |-> FALSE]

\* A server that skips requests.
SkippingWorld ==
  [requests |-> 3, pipeline |-> 3, maxCSeq |-> 3, codes |-> {"ok", "error"},
   closes |-> {FALSE}, faults |-> {"skip"}, nested |-> FALSE]

\* A server that also answers twice and leaves out the CSeq.
ConfusingWorld ==
  [requests |-> 2, pipeline |-> 2, maxCSeq |-> 3, codes |-> {"ok", "auth"},
   closes |-> {FALSE}, faults |-> AllFaults, nested |-> FALSE]

\* Callers that pipeline, also while their requests are being resent.
NestedWorld ==
  [requests |-> 4, pipeline |-> 3, maxCSeq |-> 5, codes |-> {"ok", "auth"},
   closes |-> {FALSE}, faults |-> {}, nested |-> TRUE]

MCWorlds == {PatientWorld, PipeliningWorld, SkippingWorld, ConfusingWorld, NestedWorld}
=============================================================================
