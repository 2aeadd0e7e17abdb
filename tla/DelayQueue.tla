----------------------------- MODULE DelayQueue -----------------------------
(***************************************************************************)
(* The delayed tasks of the event loop: a list of tasks, each with the     *)
(* time that remains from the one before it (DelayQueue.cpp), brought up   *)
(* to date with a clock that may be set, and the part of                   *)
(* BasicTaskScheduler::SingleStep() that sleeps until the first task is    *)
(* due and runs one task that is.                                          *)
(*                                                                         *)
(* Socket handlers, event triggers and tasks may schedule and unschedule   *)
(* tasks; which of them do is left open (see TaskScheduler).               *)
(***************************************************************************)
EXTENDS Integers, Sequences, FiniteSets, FiniteSetsExt

CONSTANTS
  Tasks,        \* what may be scheduled, each once at a time
  Delays,       \* the delays that are asked for
  MaxSleep,     \* MAX_TV_SEC: select() is never called for longer
  Steps,        \* by how much the system clock may be set, forward or back
  MaxTime       \* bound on the time that passes

ASSUME TimeAssumption ==
  /\ Delays \subseteq Nat /\ MaxSleep \in Nat \ {0} /\ MaxTime \in Nat
  /\ Steps \subseteq Nat \ {0}

VARIABLES
  queue,        \* tasks with fDeltaTimeRemaining, without the sentinel
  fLastSyncTime,
  clock,        \* what gettimeofday() says
  stage,        \* of SingleStep(): "begin", "select", "handlers" or "task"
  wakeAt,       \* when select() is to return, whatever the sockets do
  time,         \* history: time as it passes
  measured,     \* history: the time that synchronize() has counted
  due,          \* history: when a queued task is due, by measured and by time
  before,       \* history: the tasks that are to run before a queued one
  set           \* history: how the clock was set: 0 if it was not

delays  == <<queue, fLastSyncTime>>
history == <<measured, due, before>>
dvars   == <<delays, clock, stage, wakeAt, time, history, set>>

Queued == {queue[i].task : i \in DOMAIN queue}

\* What history says of a task that is not queued.
NotDue == [measured |-> 0, time |-> 0]

DelayInit ==
  /\ queue = <<>>
  /\ clock = 0 /\ fLastSyncTime = 0 /\ time = 0 /\ measured = 0 /\ set = 0
  /\ stage = "begin" /\ wakeAt = 0
  /\ due = [t \in Tasks |-> NotDue]
  /\ before = [t \in Tasks |-> {}]

(***************************************************************************)
(* The list of deltas.                                                     *)
(***************************************************************************)

\* Until[i]: the time that remains for entry i of q.
Until(q) ==
  LET until[i \in 0..Len(q)] == IF i = 0 THEN 0 ELSE until[i - 1] + q[i].delta
  IN until

\* Slip: an entry that is due keeps what it did not need of the time that passed.
ElapsedFirst(q, e) ==
  [i \in DOMAIN q |-> IF i = 1 THEN [q[1] EXCEPT !.delta = IF @ > e THEN @ - e ELSE 0] ELSE q[i]]

\* The loop of synchronize(): the time e is taken off the deltas from the front
\* on, until it is used up.
Elapsed(q, e) ==
  LET left(i) == Max({0, Until(q)[i] - e})
  IN [i \in DOMAIN q |-> [q[i] EXCEPT !.delta = left(i) - left(i - 1)]]

\* synchronize(): the list, the time that counts as passed, and the time that is
\* remembered.  When the clock was set back, no time has passed.
Sync ==
  LET e == Max({0, clock - fLastSyncTime})
  IN [queue |-> Elapsed(queue, e), counted |-> e, at |-> clock]

\* If the head task is known to be due, nobody looks at the clock.
SyncUnlessDue ==
  IF queue # <<>> /\ Head(queue).delta = 0
  THEN [queue |-> queue, counted |-> 0, at |-> fLastSyncTime]
  ELSE Sync

Synced(s) ==
  /\ fLastSyncTime' = s.at
  /\ measured' = measured + s.counted

\* Slip: a new entry goes before the ones that are due at the same time.
PlaceBefore(q, d) == Cardinality({i \in DOMAIN q : Until(q)[i] < d})

\* addEntry(): how many entries of q a task with the delay d goes behind.
Place(q, d) == Cardinality({i \in DOMAIN q : Until(q)[i] <= d})

\* The list q with the task t, due after d.
Inserted(q, t, d) ==
  LET k     == Place(q, d)
      delta == d - Until(q)[k]
      rest  == SubSeq(q, k + 1, Len(q))
  IN SubSeq(q, 1, k) \o <<[task |-> t, delta |-> delta]>>
       \o [i \in DOMAIN rest |-> IF i = 1 THEN [rest[i] EXCEPT !.delta = @ - delta] ELSE rest[i]]

\* Slip: the delta of the entry that goes is lost.
RemovedPlain(q, k) == SubSeq(q, 1, k - 1) \o SubSeq(q, k + 1, Len(q))

\* removeEntry(): the entry after it inherits the delta of entry k.
Removed(q, k) ==
  LET rest == SubSeq(q, k + 1, Len(q))
  IN SubSeq(q, 1, k - 1)
       \o [i \in DOMAIN rest |-> IF i = 1 THEN [rest[i] EXCEPT !.delta = @ + q[k].delta] ELSE rest[i]]

\* The task t is not queued any more.
Forget(t) ==
  /\ due' = [due EXCEPT ![t] = NotDue]
  /\ before' = [u \in Tasks |-> IF u = t THEN {} ELSE before[u] \ {t}]

(***************************************************************************)
(* Handlers.                                                               *)
(***************************************************************************)

\* scheduleDelayedTask(): addEntry() synchronises first.
Schedule(t, d) ==
  /\ stage \in {"handlers", "task"}
  /\ t \notin Queued
  /\ queue' = Inserted(Sync.queue, t, d)
  /\ Synced(Sync)
  /\ due' = [due EXCEPT ![t] = [measured |-> measured' + d, time |-> time + d]]
  /\ LET earlier == {u \in Queued : due[u].measured <= measured' + d}
     IN before' = [u \in Tasks |-> IF u = t THEN earlier
                                   ELSE IF u \in Queued \ earlier THEN before[u] \cup {t}
                                   ELSE before[u]]
  /\ UNCHANGED <<clock, stage, wakeAt, time, set>>

\* unscheduleDelayedTask(): without synchronising.  A task that is running, or
\* has run, is not found.
Unschedule(k) ==
  /\ stage \in {"handlers", "task"}
  /\ queue' = Removed(queue, k)
  /\ Forget(queue[k].task)
  /\ UNCHANGED <<fLastSyncTime, clock, stage, wakeAt, time, measured, set>>

(***************************************************************************)
(* SingleStep().                                                           *)
(***************************************************************************)

\* Slip: timeToNextAlarm() does not synchronise.
BeginStale ==
  /\ stage = "begin" /\ stage' = "select"
  /\ wakeAt' = time + (IF queue = <<>> THEN MaxSleep ELSE Min({MaxSleep, Head(queue).delta}))
  /\ UNCHANGED <<delays, clock, time, history, set>>

\* timeToNextAlarm(), and the call of select().
Begin ==
  /\ stage = "begin" /\ stage' = "select"
  /\ LET s == SyncUnlessDue
     IN /\ queue' = s.queue
        /\ Synced(s)
        /\ wakeAt' = time + (IF s.queue = <<>> THEN MaxSleep
                             ELSE Min({MaxSleep, Head(s.queue).delta}))
  /\ UNCHANGED <<clock, time, due, before, set>>

\* select() returns when its time is up, or earlier with a socket; then a socket
\* handler and an event trigger may run.
SelectTimesOut ==
  /\ stage = "select" /\ time >= wakeAt
  /\ stage' = "handlers" /\ wakeAt' = 0
  /\ UNCHANGED <<delays, clock, time, history, set>>

SocketReady ==
  /\ stage = "select"
  /\ stage' = "handlers" /\ wakeAt' = 0
  /\ UNCHANGED <<delays, clock, time, history, set>>

\* handleAlarm(): the head task, if it is due, is removed and then run.
HandleAlarm ==
  /\ stage = "handlers"
  /\ LET s == SyncUnlessDue
     IN /\ Synced(s)
        /\ IF s.queue # <<>> /\ Head(s.queue).delta = 0
           THEN /\ queue' = Removed(s.queue, 1)
                /\ Forget(Head(s.queue).task)
                /\ stage' = "task"
           ELSE /\ queue' = s.queue
                /\ stage' = "begin"
                /\ UNCHANGED <<due, before>>
  /\ UNCHANGED <<clock, wakeAt, time, set>>

\* The task returns.
TaskReturns ==
  /\ stage = "task" /\ stage' = "begin"
  /\ UNCHANGED <<delays, clock, wakeAt, time, history, set>>

(***************************************************************************)
(* Time.                                                                   *)
(***************************************************************************)

\* Time passes, in select() until it returns, and while handlers run.
Tick ==
  /\ time < MaxTime
  /\ stage = "select" => time < wakeAt
  /\ time' = time + 1 /\ clock' = clock + 1
  /\ UNCHANGED <<delays, stage, wakeAt, history, set>>

\* Somebody sets the system clock.
SetClock(step) ==
  /\ set = 0
  /\ clock' = clock + step
  /\ set' = step
  /\ UNCHANGED <<delays, stage, wakeAt, time, history>>

Loop == Begin \/ SelectTimesOut \/ HandleAlarm \/ TaskReturns

DelayNext ==
  \/ \E t \in Tasks, d \in Delays : Schedule(t, d)
  \/ \E k \in DOMAIN queue : Unschedule(k)
  \/ Loop \/ SocketReady \/ Tick
  \/ \E step \in Steps : SetClock(step) \/ SetClock(-step)

DelaySpec == DelayInit /\ [][DelayNext]_dvars

\* doEventLoop() calls SingleStep() again and again, and handlers return.
FairDelaySpec == DelaySpec /\ WF_dvars(Loop)

-----------------------------------------------------------------------------
(***************************************************************************)
(* Properties.                                                             *)
(***************************************************************************)

\* The values the variables may have; the deltas are never negative.
DelayTypeOK ==
  /\ queue \in Seq([task : Tasks, delta : Nat])
  /\ fLastSyncTime \in Int /\ clock \in Int
  /\ stage \in {"begin", "select", "handlers", "task"}
  /\ wakeAt \in Nat /\ time \in 0..MaxTime /\ measured \in Nat
  /\ due \in [Tasks -> [measured : Nat, time : Nat]]
  /\ before \in [Tasks -> SUBSET Tasks]
  /\ set \in {0} \cup Steps \cup {-step : step \in Steps}

\* The deltas tell the truth: whatever was inserted, removed or set in between,
\* those up to a task add up to what remains of its delay, and a task stands
\* behind every one that is due before it, or at the same time and was scheduled
\* earlier.
DeltasTell ==
  /\ DelayTypeOK
  /\ \A i \in DOMAIN queue :
       LET t == queue[i].task
       IN /\ Until(queue)[i] = Max({0, due[t].measured - measured})
          /\ before[t] = {queue[j].task : j \in 1..i - 1}

\* A task does not run before its delay has passed, whatever else is scheduled or
\* unscheduled meanwhile; a clock that is set back can only make it late.
NeverEarly ==
  [][stage = "handlers" /\ stage' = "task" /\ set <= 0
       => time >= due[Head(queue).task].time]_dvars

\* select() does not sleep past the time at which a task is due, although the
\* list may last have been brought up to date long ago; unless the clock was set
\* back.
WakesInTime ==
  stage = "select" /\ time < wakeAt /\ set >= 0 =>
    \A t \in Queued : wakeAt <= due[t].time

\* A task that is due runs, or is unscheduled, though only one task runs in each
\* step of the loop and others keep scheduling themselves without delay.
DueTasksRun ==
  \A t \in Tasks :
    (\E i \in DOMAIN queue : queue[i].task = t /\ Until(queue)[i] = 0) ~> t \notin Queued
=============================================================================
