----------------------------- MODULE RtspDialog -----------------------------
(***************************************************************************)
(* What the player promises the RTSP server, whatever happens to the media *)
(* streams, the connection or the timer: one command at a time; DESCRIBE,  *)
(* then a SETUP at most once per subsession and in the order of the SDP    *)
(* description, then PLAY at most once and only inside a session the       *)
(* server has opened; TEARDOWN at most once, only inside such a session,   *)
(* and nothing after it.  StreamClient implements this specification.      *)
(***************************************************************************)
EXTENDS Naturals

CONSTANT Subs         \* how many subsessions the SDP description names

VARIABLES
  stage,              \* the last kind of command that was tried
  last,               \* the last subsession tried; Subs + 1 once PLAY is sent
  waiting,            \* a command is unanswered
  established,        \* the server has given a session id
  torn                \* TEARDOWN has been sent

dvars == <<stage, last, waiting, established, torn>>

Stages == {"idle", "describe", "setup", "play", "over"}

Init ==
  /\ stage = "idle"
  /\ last = 0
  /\ waiting = FALSE
  /\ established = FALSE
  /\ torn = FALSE

Describe ==
  /\ stage = "idle"
  /\ stage' = "describe"
  /\ waiting' = TRUE
  /\ UNCHANGED <<last, established, torn>>

\* Each further command follows the answer to the one before it.
Setup ==
  /\ stage \in {"describe", "setup"}
  /\ waiting
  /\ stage' = "setup"
  /\ waiting' = TRUE
  /\ last' \in 1..Subs
  /\ last' > last
  /\ established' \in BOOLEAN
  /\ established => established'
  /\ stage = "describe" => ~established'
  /\ UNCHANGED torn

Play ==
  /\ stage = "setup"
  /\ waiting
  /\ stage' = "play"
  /\ waiting' = TRUE
  /\ last' = Subs + 1
  /\ established' = TRUE
  /\ UNCHANGED torn

Started ==
  /\ stage = "play"
  /\ waiting
  /\ waiting' = FALSE
  /\ UNCHANGED <<stage, last, established, torn>>

\* The client may give up at any moment, with or without a TEARDOWN.
Close ==
  /\ stage # "over"
  /\ stage' = "over"
  /\ waiting' = FALSE
  /\ last' \in last..Subs + 1
  /\ established' \in BOOLEAN
  /\ established => established'
  /\ torn' \in BOOLEAN
  /\ torn' => established'

Next == Describe \/ Setup \/ Play \/ Started \/ Close

Spec == Init /\ [][Next]_dvars
=============================================================================
