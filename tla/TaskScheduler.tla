--------------------------- MODULE TaskScheduler ----------------------------
(***************************************************************************)
(* The event loop that everything else runs in: BasicTaskScheduler's       *)
(* SingleStep() polls the sockets, calls the handler of one that is ready, *)
(* then the handler of one event that was triggered, then one delayed task *)
(* that is due (which one: see DelayQueue).  Handlers run to their end,    *)
(* one at a time, and may change what the loop works with: the list of     *)
(* socket handlers, the sets given to select(), and the event triggers.    *)
(***************************************************************************)
EXTENDS Integers, Sequences, FiniteSets

CONSTANTS
  Sockets,      \* socket numbers below FD_SETSIZE
  NumTriggers   \* MAX_NUM_EVENT_TRIGGERS: the bits of an EventTriggerId

ASSUME SocketsAssumption == Sockets \subseteq Nat /\ IsFiniteSet(Sockets)
ASSUME TriggersAssumption == NumTriggers \in Nat \ {0}

VARIABLES
  phase,                     \* where SingleStep() is; "socket", "event" and
                             \* "task" while a handler runs
  fHandlers,                 \* the list of sockets with a handler
  fdSets,                    \* the sockets in fReadSet, fWriteSet, fExceptionSet
  fMaxNumSockets,
  fLastHandledSocketNum,
  fTriggeredEventHandlers,   \* the triggers that have a handler
  fTriggersAwaitingHandling,
  fLastUsedTriggerNum,       \* and, as a bit, fLastUsedTriggerMask
  handling,                  \* the trigger that will be the last one used
  passed,                    \* history: sockets handled while one was ready
  passedBy                   \* history: triggers handled while one was set

sockets  == <<fHandlers, fdSets, fMaxNumSockets>>
triggers == <<fTriggeredEventHandlers, fTriggersAwaitingHandling, fLastUsedTriggerNum>>
vars     == <<phase, sockets, fLastHandledSocketNum, triggers, handling, passed, passedBy>>

Triggers == 0..NumTriggers - 1
None == -1
Registered == {fHandlers[i] : i \in DOMAIN fHandlers}

\* Code that runs before doEventLoop() does what a task does.
Init ==
  /\ phase = "task"
  /\ fHandlers = <<>> /\ fdSets = {} /\ fMaxNumSockets = 0
  /\ fLastHandledSocketNum = None
  /\ fTriggeredEventHandlers = {} /\ fTriggersAwaitingHandling = {}
  /\ fLastUsedTriggerNum = NumTriggers - 1
  /\ handling = None
  /\ passed = [s \in Sockets |-> {}]
  /\ passedBy = [i \in Triggers |-> {}]

InHandler == phase \in {"socket", "event", "task"}

(***************************************************************************)
(* Handlers change the sockets.                                            *)
(***************************************************************************)
Larger(m, n) == IF m > n THEN m ELSE n

\* Slip: the bound of the sockets is not raised.
AssignKeepsMax(s) ==
  /\ InHandler
  /\ fHandlers' = IF s \in Registered THEN fHandlers ELSE <<s>> \o fHandlers
  /\ fdSets' = fdSets \cup {s}
  /\ fMaxNumSockets' = IF fMaxNumSockets = 0 THEN s + 1 ELSE fMaxNumSockets
  /\ UNCHANGED <<phase, fLastHandledSocketNum, triggers, handling, passed, passedBy>>

\* setBackgroundHandling() for some condition: a new handler becomes the first.
Assign(s) ==
  /\ InHandler
  /\ fHandlers' = IF s \in Registered THEN fHandlers ELSE <<s>> \o fHandlers
  /\ fdSets' = fdSets \cup {s}
  /\ fMaxNumSockets' = Larger(fMaxNumSockets, s + 1)
  /\ UNCHANGED <<phase, fLastHandledSocketNum, triggers, handling, passed, passedBy>>

\* clearHandler(): the list of handlers without the one of s.
Without(s) ==
  IF s \in Registered
  THEN LET k == CHOOSE i \in DOMAIN fHandlers : fHandlers[i] = s
       IN [i \in 1..Len(fHandlers) - 1 |-> fHandlers[IF i < k THEN i ELSE i + 1]]
  ELSE fHandlers

MaxWithout(s) == IF s + 1 = fMaxNumSockets THEN fMaxNumSockets - 1 ELSE fMaxNumSockets

\* Whose turn it is starts anew.
NoTurns == passed' = [s \in Sockets |-> {}]

\* setBackgroundHandling() for no condition, of a socket with a handler or not.
Clear(s) ==
  /\ InHandler
  /\ fHandlers' = Without(s)
  /\ fdSets' = fdSets \ {s}
  /\ fMaxNumSockets' = MaxWithout(s)
  /\ NoTurns
  /\ UNCHANGED <<phase, fLastHandledSocketNum, triggers, handling, passedBy>>

\* moveSocketHandling(), to a socket number that was not in use.  The last
\* socket handled is remembered by its old number.
Move(s, t) ==
  /\ InHandler
  /\ s # t /\ t \notin Registered
  /\ fHandlers' = [i \in DOMAIN fHandlers |-> IF fHandlers[i] = s THEN t ELSE fHandlers[i]]
  /\ fdSets' = IF s \in fdSets THEN (fdSets \ {s}) \cup {t} ELSE fdSets
  /\ fMaxNumSockets' = Larger(MaxWithout(s), t + 1)
  /\ NoTurns
  /\ UNCHANGED <<phase, fLastHandledSocketNum, triggers, handling, passedBy>>

(***************************************************************************)
(* Handlers change the triggers.                                           *)
(***************************************************************************)

\* The loops over the triggers begin behind the last one used, and end with it:
\* how far they go to trigger i, and whether i is the first one of S they meet.
Distance(i) == i - fLastUsedTriggerNum + (IF i > fLastUsedTriggerNum THEN 0 ELSE NumTriggers)
IsFirst(i, S) == i \in S /\ \A j \in S : Distance(i) <= Distance(j)

Free == Triggers \ fTriggeredEventHandlers

\* createEventTrigger(); with no trigger left it returns 0.
CreateTrigger ==
  /\ InHandler
  /\ \E i \in Free :
       /\ IsFirst(i, Free)
       /\ fTriggeredEventHandlers' = fTriggeredEventHandlers \cup {i}
       /\ fLastUsedTriggerNum' = i
  /\ passedBy' = [i \in Triggers |-> {}]
  /\ UNCHANGED <<phase, sockets, fLastHandledSocketNum, fTriggersAwaitingHandling, handling, passed>>

\* deleteEventTrigger()
DeleteTrigger(i) ==
  /\ InHandler
  /\ i \in fTriggeredEventHandlers
  /\ fTriggeredEventHandlers' = fTriggeredEventHandlers \ {i}
  /\ fTriggersAwaitingHandling' = fTriggersAwaitingHandling \ {i}
  /\ passedBy' = [passedBy EXCEPT ![i] = {}]
  /\ UNCHANGED <<phase, sockets, fLastHandledSocketNum, fLastUsedTriggerNum, handling, passed>>

\* triggerEvent(), from the thread of the event loop.
TriggerEvent(i) ==
  /\ InHandler
  /\ i \in fTriggeredEventHandlers
  /\ fTriggersAwaitingHandling' = fTriggersAwaitingHandling \cup {i}
  /\ UNCHANGED <<phase, sockets, fLastHandledSocketNum, fTriggeredEventHandlers,
                 fLastUsedTriggerNum, handling, passed, passedBy>>

(***************************************************************************)
(* SingleStep().                                                           *)
(***************************************************************************)

\* Where the last socket handled is in the list; 0 if it is not.
LastPosition ==
  IF fLastHandledSocketNum \in Registered
  THEN CHOOSE i \in DOMAIN fHandlers : fHandlers[i] = fLastHandledSocketNum
  ELSE 0

\* Slip: the search always begins at the head of the list.
IsTurnFirst(k, polled) ==
  LET hits == {i \in DOMAIN fHandlers : fHandlers[i] \in polled}
  IN k \in hits /\ \A i \in hits : k <= i

\* Whether the k-th handler is called: it is the first one behind the last one
\* handled whose socket select() reported, or else the first one in the list.
IsTurn(k, polled) ==
  LET hits   == {i \in DOMAIN fHandlers : fHandlers[i] \in polled}
      behind == {i \in hits : i > LastPosition}
      from   == IF behind = {} THEN hits ELSE behind
  IN k \in from /\ \A i \in from : k <= i

\* select() returns with the sockets that are ready, or with none when the next
\* delayed task is due.
Select ==
  /\ phase = "begin"
  /\ \E polled \in SUBSET {s \in fdSets : s < fMaxNumSockets} :
       \/ \E k \in DOMAIN fHandlers :
            /\ IsTurn(k, polled)
            /\ fLastHandledSocketNum' = fHandlers[k]
            /\ phase' = "socket"
            /\ passed' = [r \in Sockets |-> IF r \in polled \ {fHandlers[k]}
                                          THEN passed[r] \cup {fHandlers[k]} ELSE {}]
       \/ /\ polled \cap Registered = {}
          /\ fLastHandledSocketNum' = None
          /\ phase' = "events"
          /\ NoTurns
  /\ UNCHANGED <<sockets, triggers, handling, passedBy>>

SocketHandled ==
  /\ phase = "socket" /\ phase' = "events"
  /\ UNCHANGED <<sockets, fLastHandledSocketNum, triggers, handling, passed, passedBy>>

\* One event that was triggered is handled.  When only the last one used is set,
\* this is known at once; otherwise the next one set is looked for, and becomes
\* the last one used after its handler has run.
HandleEvent ==
  /\ phase = "events"
  /\ \E i \in fTriggersAwaitingHandling :
       /\ IsFirst(i, fTriggersAwaitingHandling)
       /\ fTriggersAwaitingHandling' = fTriggersAwaitingHandling \ {i}
       /\ handling' = IF fTriggersAwaitingHandling = {fLastUsedTriggerNum} THEN None ELSE i
       /\ passedBy' = [j \in Triggers |-> IF j \in fTriggersAwaitingHandling \ {i}
                                         THEN passedBy[j] \cup {i} ELSE {}]
  /\ phase' = "event"
  /\ UNCHANGED <<sockets, fLastHandledSocketNum, fTriggeredEventHandlers, fLastUsedTriggerNum, passed>>

NoEvent ==
  /\ phase = "events" /\ phase' = "alarm"
  /\ fTriggersAwaitingHandling = {}
  /\ UNCHANGED <<sockets, fLastHandledSocketNum, triggers, handling, passed, passedBy>>

\* Slip: the trigger that was handled is not remembered.
EventHandledForgets ==
  /\ phase = "event" /\ phase' = "alarm"
  /\ handling' = None
  /\ UNCHANGED <<sockets, fLastHandledSocketNum, triggers, passed, passedBy>>

EventHandled ==
  /\ phase = "event" /\ phase' = "alarm"
  /\ fLastUsedTriggerNum' = IF handling = None THEN fLastUsedTriggerNum ELSE handling
  /\ handling' = None
  /\ UNCHANGED <<sockets, fLastHandledSocketNum, fTriggeredEventHandlers,
                 fTriggersAwaitingHandling, passed, passedBy>>

\* handleAlarm(): a task is due, or none.
RunAlarm ==
  /\ phase = "alarm" /\ phase' \in {"task", "begin"}
  /\ UNCHANGED <<sockets, fLastHandledSocketNum, triggers, handling, passed, passedBy>>

AlarmReturns ==
  /\ phase = "task" /\ phase' = "begin"
  /\ UNCHANGED <<sockets, fLastHandledSocketNum, triggers, handling, passed, passedBy>>

Next ==
  \/ \E s \in Sockets : Assign(s) \/ Clear(s)
  \/ \E s, t \in Sockets : Move(s, t)
  \/ CreateTrigger
  \/ \E i \in Triggers : DeleteTrigger(i) \/ TriggerEvent(i)
  \/ Select \/ SocketHandled \/ HandleEvent \/ NoEvent \/ EventHandled
  \/ RunAlarm \/ AlarmReturns

Spec == Init /\ [][Next]_vars

-----------------------------------------------------------------------------
(***************************************************************************)
(* Properties.                                                             *)
(***************************************************************************)

\* The values the variables may have.
TypeOK ==
  /\ phase \in {"begin", "socket", "events", "event", "alarm", "task"}
  /\ fHandlers \in Seq(Sockets) /\ fdSets \subseteq Sockets
  /\ fMaxNumSockets \in Nat
  /\ fLastHandledSocketNum \in Sockets \cup {None}
  /\ fTriggeredEventHandlers \subseteq Triggers
  /\ fTriggersAwaitingHandling \subseteq Triggers
  /\ fLastUsedTriggerNum \in Triggers
  /\ handling \in Triggers \cup {None}
  /\ passed \in [Sockets -> SUBSET Sockets]
  /\ passedBy \in [Triggers -> SUBSET Triggers]

\* The three records of which sockets are handled agree, whatever handlers add,
\* remove and move: select() looks at every socket that has a handler, once, and
\* at no other; and an event that is set has a handler to call.
SelectCovers ==
  /\ TypeOK
  /\ \A i, j \in DOMAIN fHandlers : fHandlers[i] = fHandlers[j] => i = j
  /\ fdSets = Registered
  /\ \A s \in Registered : s < fMaxNumSockets
  /\ fTriggersAwaitingHandling \subseteq fTriggeredEventHandlers

\* No socket is starved: while a socket is ready in each step, and no handler is
\* removed, no other socket is handled twice.  New handlers, which go to the head
\* of the list, do not change that.
FairToSockets ==
  [][phase = "begin" /\ phase' = "socket" =>
       \A s \in Sockets : fLastHandledSocketNum' \in passed[s] => passed'[s] = {}]_vars

\* No event is starved: while it is set, and no trigger is created, no other event
\* is handled twice.
FairToEvents ==
  [][phase = "events" /\ phase' = "event" =>
       \A i \in Triggers, j \in fTriggersAwaitingHandling \ fTriggersAwaitingHandling' :
          i \in fTriggersAwaitingHandling' => j \notin passedBy[i]]_vars
=============================================================================
