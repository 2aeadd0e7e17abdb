---------------------------- MODULE Player_proofs ----------------------------
(***************************************************************************)
(* What the threads of the process rely on, for any number of URLs and any *)
(* number of frames; and what the buffer between them is, for any number   *)
(* of threads, frames and pushes.                                          *)
(*                                                                         *)
(* The buffer's inductive invariant is BufferTypeOK /\ ExclusiveAndFresh:  *)
(* Fifo alone is not inductive, since a step writes back the deque as its  *)
(* thread has read it, some steps ago.                                     *)
(***************************************************************************)
EXTENDS Player, FrameBuffer, SequenceTheorems, TLAPS

\* A sample that was popped had been pushed, and no sample is without its frame.
SamplesCounted == rendered <= queued /\ queued <= received

\* Where main() is tells which threads it has spawned, and that it will not
\* spawn them again: before it spawns one, _run is not set and there is none.
SpawnedOnce ==
  /\ ~run => pull = "none" /\ decode = "none"
  /\ decode # "none" => pull # "none"
  /\ main = "spawning" => run /\ pull = "none" /\ decode = "none"
  /\ main = "spawned" => pull # "none" /\ decode = "none"
  /\ main \in {"assigning", "checking", "spawning", "spawned"} => arg <= urls
  /\ main = "left" => arg = urls + 1
  /\ main \in {"offering", "assigning", "checking"} /\ run => arg > 1

\* _url holds the argument that play() looks at, and a URL once there is a thread.
UrlAssigned ==
  /\ main \in {"checking", "spawning", "spawned"} => url = arg
  /\ pull # "none" => url >= 1

IInv == TypeOK /\ SamplesCounted /\ SpawnedOnce /\ UrlAssigned /\ ThreadsSafe

\* The initial states.
LEMMA InitIInv == Init => IInv
<1> SUFFICES ASSUME Init PROVE IInv
  OBVIOUS
<1>1. TypeOK
  <2>1. /\ urls \in Nat /\ urls \in 0..MaxUrls /\ 0 \in 0..MaxFrames
        /\ 0 \in 0..urls /\ 1 \in 1..urls + 1
    BY UrlsAssumption, FramesAssumption DEF Init
  <2> QED
    BY <2>1 DEF Init, TypeOK
<1>2. SamplesCounted /\ SpawnedOnce /\ UrlAssigned
  BY UrlsAssumption DEF Init, SamplesCounted, SpawnedOnce, UrlAssigned
<1>3. ThreadsSafe
  BY <1>1 DEF Init, ThreadsSafe, PlayNeverAborts, DecodeKeepsRunning, OpensGivenUrl
<1> QED
  BY <1>1, <1>2, <1>3 DEF IInv

\* Every step keeps the invariant.
LEMMA NextIInv == IInv /\ [Next]_vars => IInv'
<1> SUFFICES ASSUME IInv, [Next]_vars PROVE IInv'
  OBVIOUS
<1> USE UrlsAssumption, FramesAssumption
    DEF IInv, TypeOK, SamplesCounted, SpawnedOnce, UrlAssigned, ThreadsSafe,
        PlayNeverAborts, DecodeKeepsRunning, OpensGivenUrl,
        Threads, frames
<1>1. CASE Offer
  BY <1>1 DEF Offer
<1>2. CASE AssignUrl
  BY <1>2 DEF AssignUrl
<1>3. CASE Refuse
  BY <1>3 DEF Refuse
<1>4. CASE Accept
  BY <1>4 DEF Accept
<1>5. CASE SpawnPull
  BY <1>5 DEF SpawnPull
<1>6. CASE SpawnDecode
  BY <1>6 DEF SpawnDecode
<1>7. CASE Leave
  BY <1>7 DEF Leave
<1>8. CASE PullBegins
  BY <1>8 DEF PullBegins, ReadUrl, Torn
<1>9. CASE AfterGettingFrame
  BY <1>9 DEF AfterGettingFrame, CreateFrameSample, NoSample
<1>10. CASE PullExits
  BY <1>10 DEF PullExits
<1>11. CASE DecodeBegins
  BY <1>11 DEF DecodeBegins
<1>12. CASE DecodeTurns
  BY <1>12 DEF DecodeTurns
<1>13. CASE UNCHANGED vars
  BY <1>13 DEF vars
<1> QED
  BY <1>1, <1>2, <1>3, <1>4, <1>5, <1>6, <1>7, <1>8, <1>9, <1>10, <1>11, <1>12, <1>13
     DEF Next, MainStep, PullStep, DecodeStep

\* Every variable keeps its type.
THEOREM TypeCorrect == Spec => []TypeOK
<1>1. IInv => TypeOK
  BY DEF IInv
<1> QED
  BY InitIInv, NextIInv, <1>1, PTL DEF Spec

\* _run is guard enough: no call of play() aborts the process, the decode thread never
\* leaves its loop, and a single URL is opened as it was given.
THEOREM RunGuards == Spec => []ThreadsSafe
<1>1. IInv => ThreadsSafe
  BY DEF IInv
<1> QED
  BY InitIInv, NextIInv, <1>1, PTL DEF Spec


\* Moving the head of a queue to the end of what came out of it changes
\* nothing of the whole.
LEMMA MoveHead ==
  ASSUME NEW S, NEW a \in Seq(S), NEW q \in Seq(S), q # <<>>
  PROVE  Append(a, Head(q)) \o Tail(q) = a \o q
<1>1. Head(q) \in S /\ Tail(q) \in Seq(S) /\ Len(Tail(q)) = Len(q) - 1
  BY HeadTailProperties
<1>2. Append(a, Head(q)) \in Seq(S) /\ Len(Append(a, Head(q))) = Len(a) + 1
  BY <1>1, AppendProperties
<1>3. Len(a) \in Nat /\ Len(q) \in Nat
  BY LenProperties
<1>4. Len(q) # 0
  BY EmptySeq
<1>. DEFINE L == Append(a, Head(q)) \o Tail(q)
            R == a \o q
<1>5. L \in Seq(S) /\ R \in Seq(S) /\ Len(L) = Len(R)
  BY <1>1, <1>2, <1>3, ConcatProperties
<1>6. ASSUME NEW i \in 1..Len(L) PROVE L[i] = R[i]
  <2>1. i \in 1..Len(a) + Len(q)
    BY <1>5, ConcatProperties
  <2>2. R[i] = IF i <= Len(a) THEN a[i] ELSE q[i - Len(a)]
    BY <2>1, ConcatProperties
  <2>3. L[i] = IF i <= Len(a) + 1 THEN Append(a, Head(q))[i] ELSE Tail(q)[i - (Len(a) + 1)]
    <3>1. i \in 1..Len(Append(a, Head(q))) + Len(Tail(q))
      BY <1>1, <1>2, <1>3, <2>1
    <3>. QED
      BY <3>1, <1>1, <1>2, ConcatProperties
  <2>4. CASE i <= Len(a)
    <3>1. Append(a, Head(q))[i] = a[i]
      BY <1>1, <1>3, <2>1, <2>4, AppendProperties
    <3>. QED
      BY <3>1, <1>3, <2>1, <2>2, <2>3, <2>4
  <2>5. CASE i = Len(a) + 1
    <3>1. Append(a, Head(q))[i] = Head(q)
      BY <1>1, <2>5, AppendProperties
    <3>. QED
      BY <3>1, <1>3, <1>4, <2>2, <2>3, <2>5
  <2>6. CASE i > Len(a) + 1
    <3>1. i - (Len(a) + 1) \in 1..Len(Tail(q))
      BY <1>1, <1>3, <2>1, <2>6
    <3>2. Tail(q)[i - (Len(a) + 1)] = q[(i - (Len(a) + 1)) + 1]
      BY <3>1, HeadTailProperties
    <3>. QED
      BY <3>2, <1>3, <2>1, <2>2, <2>3, <2>6
  <2>. QED
    BY <1>3, <2>1, <2>4, <2>5, <2>6
<1>. QED
  BY <1>5, <1>6, SeqEqual

\* What is appended to the queue is appended to the whole.
LEMMA AppendToQueue ==
  ASSUME NEW S, NEW a \in Seq(S), NEW q \in Seq(S), NEW f \in S
  PROVE  a \o Append(q, f) = Append(a \o q, f)
<1>1. <<f>> \in Seq(S) /\ a \o q \in Seq(S)
  BY ConcatProperties
<1>2. a \o Append(q, f) = a \o (q \o <<f>>)
  BY AppendIsConcat
<1>3. Append(a \o q, f) = (a \o q) \o <<f>>
  BY <1>1, AppendIsConcat
<1>. QED
  BY <1>1, <1>2, <1>3, ConcatAssociative

-----------------------------------------------------------------------------
(***************************************************************************)
(* The inductive invariant of the buffer.                                  *)
(***************************************************************************)

USE DEF MutexSound

\* The buffer begins empty, with all threads outside.
LEMMA MutexInit == BufferInit => MutexSound
<1>. SUFFICES ASSUME BufferInit PROVE MutexSound
  OBVIOUS
<1>1. <<>> \in Seq(Frames)
  OBVIOUS
<1>2. BufferTypeOK /\ ExclusiveAndFresh
  BY <1>1 DEF BufferInit, BufferTypeOK, ExclusiveAndFresh, Callers
<1>. QED
  BY <1>2

\* Lock(t) and Read(t) keep the invariant, whichever thread takes them.
LEMMA EnterLemma ==
  ASSUME MutexSound, NEW t \in Callers,
         Lock(t) \/ Read(t)
  PROVE  MutexSound'
<1>1. CASE Lock(t)
  <2>1. pc' = [pc EXCEPT ![t] = "locked"] /\ mtx' = t /\ pc[t] = "out" /\ mtx = Nobody
        /\ UNCHANGED <<temp, seen, pushed, popped>>
    BY <1>1 DEF Lock
  <2>2. BufferTypeOK'
    BY <2>1 DEF BufferTypeOK
  <2>3. \A u \in Callers : pc[u] = "out"
    BY <2>1, ThreadsAssumption DEF ExclusiveAndFresh, Callers
  <2>4. ExclusiveAndFresh'
    BY <2>1, <2>3 DEF ExclusiveAndFresh, BufferTypeOK
  <2>. QED
    BY <2>2, <2>4
<1>2. CASE Read(t)
  <2>1. /\ pc' = [pc EXCEPT ![t] = "writing"] /\ seen' = [seen EXCEPT ![t] = temp]
        /\ pc[t] = "locked" /\ UNCHANGED <<mtx, temp, pushed, popped>>
    BY <1>2 DEF Read
  <2>2. BufferTypeOK'
    BY <2>1 DEF BufferTypeOK
  <2>3. ExclusiveAndFresh'
    BY <2>1 DEF ExclusiveAndFresh, BufferTypeOK
  <2>. QED
    BY <2>2, <2>3
<1>. QED
  BY <1>1, <1>2

\* The thread that leaves PushFrame() or PopFrame() was alone inside, so that
\* whatever it did to the deque, no other thread has read it.
LEMMA LeaveLemma ==
  ASSUME MutexSound, NEW t \in Callers,
         pc[t] = "writing", Unlock(t), UNCHANGED seen
  PROVE  /\ mtx' \in Callers \cup {Nobody}
         /\ pc' \in [Callers -> {"out", "locked", "writing"}]
         /\ ExclusiveAndFresh'
<1>1. \A u \in Callers \ {t} : pc[u] = "out"
  BY DEF ExclusiveAndFresh
<1>2. pc' = [pc EXCEPT ![t] = "out"] /\ mtx' = Nobody
  BY DEF Unlock
<1>3. \A u \in Callers : pc'[u] = "out"
  BY <1>1, <1>2 DEF BufferTypeOK
<1>. QED
  BY <1>2, <1>3 DEF ExclusiveAndFresh, BufferTypeOK

\* Push(t, f) keeps the invariant.
LEMMA PushLemma ==
  ASSUME MutexSound, NEW t \in Callers, NEW f \in Frames, Push(t, f)
  PROVE  MutexSound'
<1>1. pc[t] = "writing" /\ Unlock(t) /\ UNCHANGED seen
  BY DEF Push
<1>2. ExclusiveAndFresh' /\ mtx' \in Callers \cup {Nobody}
      /\ pc' \in [Callers -> {"out", "locked", "writing"}]
  BY <1>1, LeaveLemma
<1>3. temp' \in Seq(Frames)
  <2>1. seen[t] \in Seq(Frames)
    BY DEF BufferTypeOK
  <2>. QED
    BY <2>1, AppendProperties DEF Push
<1>4. pushed' \in Seq(Frames)
  BY AppendProperties DEF Push, BufferTypeOK
<1>. QED
  BY <1>2, <1>3, <1>4 DEF Push, BufferTypeOK

\* Pop(t) keeps the invariant.
LEMMA PopLemma ==
  ASSUME MutexSound, NEW t \in Callers, Pop(t)
  PROVE  MutexSound'
<1>1. pc[t] = "writing" /\ Unlock(t) /\ UNCHANGED seen
  BY DEF Pop
<1>2. ExclusiveAndFresh' /\ mtx' \in Callers \cup {Nobody}
      /\ pc' \in [Callers -> {"out", "locked", "writing"}]
  BY <1>1, LeaveLemma
<1>3. seen[t] \in Seq(Frames) /\ seen[t] # <<>>
  BY DEF Pop, BufferTypeOK
<1>4. Head(seen[t]) \in Frames /\ Tail(seen[t]) \in Seq(Frames)
  BY <1>3, HeadTailProperties
<1>5. popped' \in Seq(Frames)
  BY <1>4, AppendProperties DEF Pop, BufferTypeOK
<1>. QED
  BY <1>2, <1>4, <1>5 DEF Pop, BufferTypeOK

\* PopNothing(t) keeps the invariant.
LEMMA PopNothingLemma ==
  ASSUME MutexSound, NEW t \in Callers, PopNothing(t)
  PROVE  MutexSound'
<1>1. pc[t] = "writing" /\ Unlock(t) /\ UNCHANGED <<temp, seen, pushed, popped>>
  BY DEF PopNothing
<1>2. ExclusiveAndFresh' /\ mtx' \in Callers \cup {Nobody}
      /\ pc' \in [Callers -> {"out", "locked", "writing"}]
  BY <1>1, LeaveLemma
<1>. QED
  BY <1>1, <1>2 DEF BufferTypeOK

\* Every step keeps the invariant.
LEMMA MutexNext ==
  ASSUME MutexSound, [BufferNext]_bvars
  PROVE  MutexSound'
<1>1. CASE UNCHANGED bvars
  BY <1>1 DEF bvars, BufferTypeOK, ExclusiveAndFresh
<1>2. ASSUME NEW t \in Pushers, PushStep(t) PROVE MutexSound'
  <2>1. t \in Callers
    BY DEF Callers
  <2>2. CASE Lock(t) \/ Read(t)
    BY <2>1, <2>2, EnterLemma
  <2>3. ASSUME NEW f \in Frames, Push(t, f) PROVE MutexSound'
    BY <2>1, <2>3, PushLemma
  <2>. QED
    BY <1>2, <2>2, <2>3 DEF PushStep
<1>3. ASSUME NEW t \in Poppers, PopStep(t) PROVE MutexSound'
  <2>1. t \in Callers
    BY DEF Callers
  <2>2. CASE Lock(t) \/ Read(t)
    BY <2>1, <2>2, EnterLemma
  <2>3. CASE Pop(t)
    BY <2>1, <2>3, PopLemma
  <2>4. CASE PopNothing(t)
    BY <2>1, <2>4, PopNothingLemma
  <2>. QED
    BY <1>3, <2>2, <2>3, <2>4 DEF PopStep
<1>. QED
  BY <1>1, <1>2, <1>3 DEF BufferNext

\* PushFrame() and PopFrame() exclude each other, and no thread works on an
\* outdated copy of the deque; nothing but a pushed frame is in it.
THEOREM MutexWorks == BufferSpec => []MutexSound
<1>1. BufferInit => MutexSound
  BY MutexInit
<1>2. MutexSound /\ [BufferNext]_bvars => MutexSound'
  BY MutexNext
<1>. QED
  BY <1>1, <1>2, PTL DEF BufferSpec

-----------------------------------------------------------------------------
(***************************************************************************)
(* Refinement: the deque behind the mutex is a queue.                      *)
(***************************************************************************)

\* Every step of FrameBuffer is a Put, a Get or no step of FrameQueue.
LEMMA StepRefines ==
  ASSUME MutexSound, [BufferNext]_bvars
  PROVE  [Queue!Next]_Queue!qvars
<1>. USE DEF Queue!qvars
<1>1. CASE UNCHANGED bvars
  BY <1>1 DEF bvars
<1>2. ASSUME NEW t \in Callers, Lock(t) \/ Read(t) \/ PopNothing(t)
      PROVE  UNCHANGED Queue!qvars
  BY <1>2 DEF Lock, Read, PopNothing
<1>3. ASSUME NEW t \in Callers, NEW f \in Frames, Push(t, f)
      PROVE  Queue!Put(f)
  <2>1. seen[t] = temp
    BY <1>3 DEF Push, ExclusiveAndFresh
  <2>. QED
    BY <1>3, <2>1 DEF Push, Queue!Put
<1>4. ASSUME NEW t \in Callers, Pop(t)
      PROVE  Queue!Get
  <2>1. seen[t] = temp
    BY <1>4 DEF Pop, ExclusiveAndFresh
  <2>. QED
    BY <1>4, <2>1 DEF Pop, Queue!Get
<1>. QED
  BY <1>1, <1>2, <1>3, <1>4
     DEF BufferNext, PushStep, PopStep, Queue!Next, Callers

\* The buffer of the player implements the queue it is used as.
THEOREM BufferIsQueue == BufferSpec => ImplementsQueue
<1>1. BufferInit => Queue!Init
  BY DEF BufferInit, Queue!Init
<1>2. MutexSound /\ [BufferNext]_bvars => [Queue!Next]_Queue!qvars
  BY StepRefines
<1>. QED
  BY <1>1, <1>2, MutexWorks, PTL DEF BufferSpec, ImplementsQueue, Queue!Spec

\* No frame is lost, doubled or overtaken in the buffer.
THEOREM BufferIsFifo == BufferSpec => []Fifo
<1>1. BufferInit => Fifo
  <2>1. <<>> \in Seq(Frames)
    OBVIOUS
  <2>. QED
    BY <2>1, ConcatEmptySeq DEF BufferInit, Fifo
<1>2. MutexSound /\ Fifo /\ [Queue!Next]_Queue!qvars
      => Fifo'
  <2>. SUFFICES ASSUME MutexSound, Fifo, [Queue!Next]_Queue!qvars
                PROVE  Fifo'
    OBVIOUS
  <2>1. temp \in Seq(Frames) /\ popped \in Seq(Frames)
    BY DEF BufferTypeOK
  <2>2. CASE UNCHANGED Queue!qvars
    BY <2>2 DEF Queue!qvars, Fifo
  <2>3. ASSUME NEW f \in Frames, Queue!Put(f) PROVE Fifo'
    BY <2>1, <2>3, AppendToQueue DEF Queue!Put, Fifo
  <2>4. CASE Queue!Get
    BY <2>1, <2>4, MoveHead DEF Queue!Get, Fifo
  <2>. QED
    BY <2>2, <2>3, <2>4 DEF Queue!Next
<1>3. MutexSound /\ [BufferNext]_bvars => [Queue!Next]_Queue!qvars
  BY StepRefines
<1>. QED
  BY <1>1, <1>2, <1>3, MutexWorks, PTL DEF BufferSpec
=============================================================================
