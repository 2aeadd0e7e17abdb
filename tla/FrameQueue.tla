----------------------------- MODULE FrameQueue -----------------------------
(***************************************************************************)
(* What the player needs of its frame buffer: an unbounded queue shared by *)
(* the thread that receives frames and the thread that decodes them, where *)
(* a frame comes out once, and in the order it went in.  FrameBuffer       *)
(* implements this queue with a mutex around a std::deque.                 *)
(***************************************************************************)
EXTENDS Naturals, Sequences

CONSTANT Frames       \* what is queued

VARIABLES
  queue,              \* the frames in the buffer, oldest first
  put,                \* history: the frames that went in
  got                 \* history: the frames that came out

qvars == <<queue, put, got>>

Init ==
  /\ queue = <<>>
  /\ put = <<>>
  /\ got = <<>>

Put(f) ==
  /\ queue' = Append(queue, f)
  /\ put' = Append(put, f)
  /\ UNCHANGED got

Get ==
  /\ queue # <<>>
  /\ got' = Append(got, Head(queue))
  /\ queue' = Tail(queue)
  /\ UNCHANGED put

Next == (\E f \in Frames : Put(f)) \/ Get

Spec == Init /\ [][Next]_qvars

\* No frame is lost, doubled or overtaken: what came out, followed by what is
\* still inside, is what went in.
Fifo == got \o queue = put
=============================================================================
