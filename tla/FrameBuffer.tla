---------------------------- MODULE FrameBuffer -----------------------------
(***************************************************************************)
(* The buffer between the pull thread, which pushes the frames that a      *)
(* DummySink receives, and the decode thread, which pops them in a busy    *)
(* loop.  A std::deque is no atomic object: an operation on it reads the   *)
(* deque in one step and replaces it in another, and only the mutex keeps  *)
(* the operations of two threads apart.                                    *)
(*                                                                         *)
(* PushFrame() also calls ClearReadyBufferWhileFull(), which looks only at *)
(* _readyBuffer.  Nothing ever fills that deque, so the call does nothing  *)
(* and _readyBuffer is left out.                                           *)
(*                                                                         *)
(* Names that Player has too are longer here: Player_proofs extends both.  *)
(***************************************************************************)
EXTENDS Naturals, Sequences

CONSTANTS
  Pushers,            \* the threads that call PushFrame()
  Poppers,            \* the threads that call PopFrame()
  Nobody,             \* no thread
  Frames,             \* frames
  MaxPushes           \* bound: how many frames are pushed

ASSUME ThreadsAssumption ==
  /\ Pushers \cap Poppers = {}
  /\ Nobody \notin Pushers \cup Poppers
ASSUME PushesAssumption == MaxPushes \in Nat

VARIABLES
  mtx,                \* _mtx: the thread that holds it, or Nobody
  temp,               \* _tempFrameBuffer
  pc,                 \* where each thread is: "out", "locked", "writing"
  seen,               \* the deque as the thread has read it
  pushed,             \* history: the frames pushed, in order
  popped              \* history: the frames popped, in order

bvars == <<mtx, temp, pc, seen, pushed, popped>>

Callers == Pushers \cup Poppers

BufferInit ==
  /\ mtx = Nobody
  /\ temp = <<>>
  /\ pc = [t \in Callers |-> "out"]
  /\ seen = [t \in Callers |-> <<>>]
  /\ pushed = <<>>
  /\ popped = <<>>

\* Slip: no lock_guard.
LockNever(t) ==
  /\ pc[t] = "out"
  /\ pc' = [pc EXCEPT ![t] = "locked"]
  /\ UNCHANGED <<mtx, temp, seen, pushed, popped>>

\* std::lock_guard<std::mutex> locker(_mtx)
Lock(t) ==
  /\ pc[t] = "out"
  /\ mtx = Nobody
  /\ mtx' = t
  /\ pc' = [pc EXCEPT ![t] = "locked"]
  /\ UNCHANGED <<temp, seen, pushed, popped>>

\* The end of the lock_guard's scope.
Unlock(t) ==
  /\ mtx' = Nobody
  /\ pc' = [pc EXCEPT ![t] = "out"]

Read(t) ==
  /\ pc[t] = "locked"
  /\ seen' = [seen EXCEPT ![t] = temp]
  /\ pc' = [pc EXCEPT ![t] = "writing"]
  /\ UNCHANGED <<mtx, temp, pushed, popped>>

\* PushFrame(): push_back(frame).
Push(t, f) ==
  /\ t \in Pushers
  /\ pc[t] = "writing"
  /\ Len(pushed) < MaxPushes
  /\ temp' = Append(seen[t], f)
  /\ pushed' = Append(pushed, f)
  /\ Unlock(t)
  /\ UNCHANGED <<seen, popped>>

\* Slips: front() without pop_front(); pop_front() without front().
PopKeepsFront(t) ==
  /\ pc[t] = "writing"
  /\ seen[t] # <<>>
  /\ popped' = Append(popped, Head(seen[t]))
  /\ Unlock(t)
  /\ UNCHANGED <<temp, seen, pushed>>
PopDropsFront(t) ==
  /\ pc[t] = "writing"
  /\ seen[t] # <<>>
  /\ temp' = Tail(seen[t])
  /\ Unlock(t)
  /\ UNCHANGED <<seen, pushed, popped>>

\* PopFrame(): front() and pop_front().
Pop(t) ==
  /\ pc[t] = "writing"
  /\ seen[t] # <<>>
  /\ temp' = Tail(seen[t])
  /\ popped' = Append(popped, Head(seen[t]))
  /\ Unlock(t)
  /\ UNCHANGED <<seen, pushed>>

\* PopFrame() of an empty buffer returns a null pointer.
PopNothing(t) ==
  /\ pc[t] = "writing"
  /\ seen[t] = <<>>
  /\ Unlock(t)
  /\ UNCHANGED <<temp, seen, pushed, popped>>

\* A thread calls PushFrame() once more only below the bound.
PushStep(t) ==
  \/ Len(pushed) < MaxPushes /\ Lock(t)
  \/ Read(t)
  \/ \E f \in Frames : Push(t, f)

PopStep(t) == Lock(t) \/ Read(t) \/ Pop(t) \/ PopNothing(t)

BufferNext ==
  \/ \E t \in Pushers : PushStep(t)
  \/ \E t \in Poppers : PopStep(t)

BufferSpec == BufferInit /\ [][BufferNext]_bvars

\* The scheduler lets every thread run; a std::mutex need not be fair, so that
\* a thread may wait for it for ever while others take it again and again.  A
\* thread that is inside PushFrame() leaves it, but no frame need come.
Fairness ==
  /\ \A t \in Pushers : WF_bvars(Read(t) \/ \E f \in Frames : Push(t, f))
  /\ \A t \in Poppers : WF_bvars(PopStep(t))

FairBufferSpec == BufferSpec /\ Fairness

-----------------------------------------------------------------------------
(***************************************************************************)
(* Properties.                                                             *)
(***************************************************************************)

\* The values the variables may have.
BufferTypeOK ==
  /\ mtx \in Callers \cup {Nobody}
  /\ temp \in Seq(Frames)
  /\ pc \in [Callers -> {"out", "locked", "writing"}]
  /\ seen \in [Callers -> Seq(Frames)]
  /\ pushed \in Seq(Frames)
  /\ popped \in Seq(Frames)

\* No frame is lost, doubled or overtaken by the interleaving of PushFrame()
\* and PopFrame(): what was popped, followed by _tempFrameBuffer, is what was
\* pushed.
Fifo == popped \o temp = pushed

\* A thread inside PushFrame() or PopFrame() works on the deque as it is: no
\* other thread is inside, and none has changed it since it was read.
ExclusiveAndFresh ==
  \A t \in Callers :
    /\ pc[t] # "out" => mtx = t
    /\ pc[t] = "writing" => seen[t] = temp

\* What the mutex is for.
MutexSound == BufferTypeOK /\ ExclusiveAndFresh

\* The buffer implements the queue.
Queue == INSTANCE FrameQueue WITH queue <- temp, put <- pushed, got <- popped

\* Seen from outside, PushFrame() and PopFrame() happen at once: a step of a
\* thread puts one frame, gets one frame or changes nothing.
ImplementsQueue == Queue!Spec

\* No frame comes for the time being: the decode threads are alone.
Quiet == \A t \in Pushers : pc[t] = "out"

\* When frames cease to come, those that were pushed come out of the buffer, however many
\* threads pop in a busy loop and whichever of them gets the mutex.  As long as frames go
\* on to come nothing is promised, to a thread that pops or to one that pushes: the mutex
\* may let the others in for ever (PopFrame(), called at RTSPClientWrapper.cpp:68).
DrainsWhenQuiet == <>[]Quiet => <>[](popped = pushed)
=============================================================================
