------------------------- MODULE TaskScheduler_proofs ------------------------
(***************************************************************************)
(* The event loop looks at every socket that has a handler, and starves    *)
(* none of them and no event, for any sockets and any number of triggers;  *)
(* and its delayed tasks run in the order and at the time they are due,    *)
(* for any tasks, delays and settings of the clock.                        *)
(***************************************************************************)
EXTENDS TaskScheduler, DelayQueue, FiniteSetTheorems, SequenceTheorems, NaturalsInduction,
        WellFoundedInduction, TLAPS

\* In the circular order of the list, the sockets that were handled while s was
\* ready lie behind s, up to the last one handled.
SocketsInTurn ==
  \A s \in Sockets : passed[s] # {} =>
    /\ s \in Registered /\ passed[s] \subseteq Registered \ {s}
    /\ fLastHandledSocketNum \in passed[s]
    /\ \A i, j, k \in DOMAIN fHandlers :
         fHandlers[i] = s /\ fHandlers[j] \in passed[s] /\ fHandlers[k] = fLastHandledSocketNum =>
           (i < k => i < j /\ j <= k) /\ (i > k => j > i \/ j <= k)

\* The trigger that will count as the last one used.
Last == IF handling = None THEN fLastUsedTriggerNum ELSE handling

\* The triggers that were handled while i was set lie behind i, up to that one.
EventsInTurn ==
  /\ phase # "event" => handling = None
  /\ \A i \in Triggers : passedBy[i] # {} =>
       /\ i \in fTriggersAwaitingHandling /\ i \notin passedBy[i]
       /\ Last \in passedBy[i]
       /\ \A j \in passedBy[i] :
            (i < Last => i < j /\ j <= Last) /\ (i > Last => j > i \/ j <= Last)

IInv == SelectCovers /\ SocketsInTurn /\ EventsInTurn

\* The initial states.
LEMMA InitIInv == Init => IInv
<1> SUFFICES ASSUME Init PROVE IInv
  OBVIOUS
<1>1. TypeOK
  BY TriggersAssumption DEF Init, TypeOK, Triggers, None
<1>2. fHandlers = <<>> /\ Registered = {} /\ DOMAIN fHandlers = {}
  BY DEF Init, Registered
<1>3. SelectCovers
  BY <1>1, <1>2 DEF Init, SelectCovers
<1>4. SocketsInTurn
  BY DEF Init, SocketsInTurn
<1>5. EventsInTurn
  BY DEF Init, EventsInTurn
<1> QED
  BY <1>3, <1>4, <1>5 DEF IInv

-----------------------------------------------------------------------------
(***************************************************************************)
(* The list of handlers.                                                   *)
(***************************************************************************)

\* What the parts of the state that a step leaves alone are needed for.
LEMMA TypeOf ==
  ASSUME SelectCovers
  PROVE  /\ Len(fHandlers) \in Nat /\ DOMAIN fHandlers = 1..Len(fHandlers)
         /\ \A i \in 1..Len(fHandlers) : fHandlers[i] \in Sockets /\ fHandlers[i] \in Nat
         /\ Registered \subseteq Sockets
         /\ fMaxNumSockets \in Nat
<1>1. fHandlers \in Seq(Sockets) /\ fMaxNumSockets \in Nat /\ Sockets \subseteq Nat
  BY SocketsAssumption DEF SelectCovers, TypeOK
<1>2. \A i \in 1..Len(fHandlers) : fHandlers[i] \in Sockets
  BY <1>1
<1>3. Len(fHandlers) \in Nat /\ DOMAIN fHandlers = 1..Len(fHandlers)
  BY <1>1
<1> QED
  BY <1>1, <1>2, <1>3 DEF Registered

\* A new handler goes to the head of the list.
LEMMA AssignCovers ==
  ASSUME SelectCovers, NEW s \in Sockets, Assign(s)
  PROVE  SelectCovers'
<1> DEFINE new == <<s>> \o fHandlers
<1>1. s \in Nat /\ fMaxNumSockets' \in Nat /\ s < fMaxNumSockets' /\ fMaxNumSockets <= fMaxNumSockets'
  BY TypeOf, SocketsAssumption DEF Assign, Larger
<1>2. CASE s \in Registered
  <2>1. fHandlers' = fHandlers /\ fdSets' = fdSets \cup {s} /\ Registered' = Registered
    BY <1>2 DEF Assign, Registered
  <2>2. TypeOK'
    BY <1>1, <2>1 DEF SelectCovers, TypeOK, Assign, triggers
  <2>3. \A r \in Registered : r \in Nat
    BY TypeOf, SocketsAssumption
  <2> QED
    BY <1>1, <1>2, <2>1, <2>2, <2>3, TypeOf DEF SelectCovers, Assign, triggers
<1>3. CASE s \notin Registered
  <2>1. fHandlers' = new
    BY <1>3 DEF Assign
  <2>2. /\ new \in Seq(Sockets) /\ Len(new) = Len(fHandlers) + 1 /\ DOMAIN new = 1..Len(new)
        /\ new[1] = s
        /\ \A i \in 2..Len(new) : new[i] = fHandlers[i - 1] /\ i - 1 \in DOMAIN fHandlers
    <3>1. fHandlers \in Seq(Sockets) /\ s \in Sockets
      BY DEF SelectCovers, TypeOK
    <3> QED
      BY <3>1, TypeOf
  <2>3. Registered' = Registered \cup {s}
    <3>1. \A i \in DOMAIN fHandlers : i + 1 \in 2..Len(new) /\ new[i + 1] = fHandlers[i]
      BY <2>2, TypeOf
    <3>2. \A i \in DOMAIN new : i = 1 \/ i \in 2..Len(new)
      BY <2>2
    <3>3. Registered \cup {s} \subseteq {new[i] : i \in DOMAIN new}
      <4>1. ASSUME NEW i \in DOMAIN fHandlers PROVE \E j \in DOMAIN new : new[j] = fHandlers[i]
        <5>1. i + 1 \in DOMAIN new /\ new[i + 1] = fHandlers[i]
          BY <2>2, <3>1, TypeOf
        <5> QED
          BY <5>1
      <4>2. 1 \in DOMAIN new
        BY <2>2, TypeOf
      <4> QED
        BY <2>2, <4>1, <4>2 DEF Registered
    <3>4. {new[i] : i \in DOMAIN new} \subseteq Registered \cup {s}
      BY <2>2, <3>2 DEF Registered
    <3> QED
      BY <2>1, <3>3, <3>4 DEF Registered
  <2>4. ASSUME NEW i \in DOMAIN new, NEW j \in DOMAIN new, new[i] = new[j] PROVE i = j
    <3>1. ASSUME NEW k \in 2..Len(new) PROVE new[k] # s
      BY <1>3, <2>2 DEF Registered
    <3>2. CASE i = 1 \/ j = 1
      BY <2>2, <2>4, <3>1, <3>2
    <3>3. CASE i # 1 /\ j # 1
      <4>1. i \in 2..Len(new) /\ j \in 2..Len(new)
        BY <2>2, <3>3
      <4>2. i - 1 = j - 1
        BY <2>2, <2>4, <4>1 DEF SelectCovers
      <4> QED
        BY <4>1, <4>2
    <3> QED
      BY <3>2, <3>3
  <2>5. TypeOK'
    BY <1>1, <2>1, <2>2 DEF SelectCovers, TypeOK, Assign, triggers
  <2>6. \A r \in Registered : r \in Nat /\ r < fMaxNumSockets
    BY TypeOf, SocketsAssumption DEF SelectCovers
  <2>7. fdSets' = Registered'
    BY <2>3 DEF SelectCovers, Assign, triggers
  <2>8. \A r \in Registered' : r < fMaxNumSockets'
    BY <1>1, <2>3, <2>6, TypeOf
  <2> QED
    BY <2>1, <2>4, <2>5, <2>7, <2>8 DEF SelectCovers, Assign, triggers
<1> QED
  BY <1>2, <1>3
\* clearHandler() takes one socket off the list, and leaves the others.
LEMMA WithoutRemoves ==
  ASSUME SelectCovers, NEW s \in Sockets
  PROVE  LET rest == Without(s)
         IN /\ rest \in Seq(Sockets)
            /\ {rest[i] : i \in DOMAIN rest} = Registered \ {s}
            /\ \A i, j \in DOMAIN rest : rest[i] = rest[j] => i = j
<1> DEFINE rest == Without(s)
           n == Len(fHandlers)
           old(i) == IF i < (CHOOSE k \in DOMAIN fHandlers : fHandlers[k] = s) THEN i ELSE i + 1
<1>1. CASE s \notin Registered
  BY <1>1 DEF Without, SelectCovers, TypeOK, Registered
<1>2. CASE s \in Registered
  <2> DEFINE p == CHOOSE k \in DOMAIN fHandlers : fHandlers[k] = s
  <2>1. p \in 1..n /\ fHandlers[p] = s /\ n \in Nat
    BY <1>2, TypeOf DEF Registered
  <2> HIDE DEF p
  <2>2. rest = [i \in 1..n - 1 |-> fHandlers[IF i < p THEN i ELSE i + 1]]
    BY <1>2 DEF Without, p
  <2>3. \A i \in 1..n : fHandlers[i] \in Sockets
    BY TypeOf
  <2>4. /\ DOMAIN rest = 1..n - 1
        /\ \A i \in 1..n - 1 : /\ rest[i] = fHandlers[IF i < p THEN i ELSE i + 1]
                               /\ (IF i < p THEN i ELSE i + 1) \in 1..n
                               /\ (IF i < p THEN i ELSE i + 1) # p
    BY <2>1, <2>2
  <2>5. rest \in Seq(Sockets)
    <3>1. \A i \in 1..n - 1 : rest[i] \in Sockets
      BY <2>3, <2>4
    <3>2. rest \in [1..n - 1 -> Sockets] /\ n - 1 \in Nat
      BY <2>1, <2>2, <3>1
    <3> QED
      BY <3>2
  <2>6. \A i, j \in 1..n : fHandlers[i] = fHandlers[j] => i = j
    BY TypeOf DEF SelectCovers
  <2>7. {rest[i] : i \in DOMAIN rest} \subseteq Registered \ {s}
    <3>1. ASSUME NEW i \in 1..n - 1 PROVE rest[i] \in Registered /\ rest[i] # s
      <4>1. PICK j \in 1..n : rest[i] = fHandlers[j] /\ j # p
        BY <2>4
      <4> QED
        BY <2>1, <2>6, <4>1, TypeOf DEF Registered
    <3> QED
      BY <2>4, <3>1
  <2>8. Registered \ {s} \subseteq {rest[i] : i \in DOMAIN rest}
    <3>1. ASSUME NEW j \in 1..n, j # p PROVE \E i \in 1..n - 1 : rest[i] = fHandlers[j]
      <4>1. CASE j < p
        <5>1. j \in 1..n - 1 /\ rest[j] = fHandlers[j]
          BY <2>1, <2>4, <4>1
        <5> QED
          BY <5>1
      <4>2. CASE j > p
        <5>1. /\ j - 1 \in 1..n - 1 /\ ~(j - 1 < p) /\ (j - 1) + 1 = j
          BY <2>1, <4>2
        <5>2. rest[j - 1] = fHandlers[j]
          BY <2>4, <5>1
        <5> QED
          BY <5>1, <5>2
      <4> QED
        BY <2>1, <3>1, <4>1, <4>2
    <3>2. ASSUME NEW r \in Registered, r # s PROVE r \in {rest[i] : i \in DOMAIN rest}
      <4>1. PICK j \in 1..n : fHandlers[j] = r
        BY TypeOf DEF Registered
      <4>2. j # p
        BY <2>1, <3>2, <4>1
      <4> QED
        BY <2>4, <3>1, <4>1, <4>2
    <3> QED
      BY <3>2
  <2>9. ASSUME NEW i \in 1..n - 1, NEW j \in 1..n - 1, rest[i] = rest[j] PROVE i = j
    <3>1. (IF i < p THEN i ELSE i + 1) = (IF j < p THEN j ELSE j + 1)
      BY <2>4, <2>6, <2>9
    <3> QED
      BY <2>1, <3>1
  <2> QED
    BY <2>4, <2>5, <2>7, <2>8, <2>9
<1> QED
  BY <1>1, <1>2

\* The bound of the sockets without s is above all the others.
LEMMA MaxWithoutBounds ==
  ASSUME SelectCovers, NEW s \in Sockets
  PROVE  MaxWithout(s) \in Nat /\ \A r \in Registered \ {s} : r \in Nat /\ r < MaxWithout(s)
<1>1. s \in Nat /\ fMaxNumSockets \in Nat
      /\ \A r \in Registered : r \in Nat /\ r < fMaxNumSockets
  BY TypeOf, SocketsAssumption DEF SelectCovers
<1> QED
  BY <1>1 DEF MaxWithout

\* A handler is removed.
LEMMA ClearCovers ==
  ASSUME SelectCovers, NEW s \in Sockets, Clear(s)
  PROVE  SelectCovers'
<1>1. /\ fHandlers' \in Seq(Sockets)
      /\ Registered' = Registered \ {s}
      /\ \A i, j \in DOMAIN fHandlers' : fHandlers'[i] = fHandlers'[j] => i = j
  <2>1. fHandlers' = Without(s)
    BY DEF Clear
  <2>2. Registered' = {fHandlers'[i] : i \in DOMAIN fHandlers'}
    BY DEF Registered
  <2>3. LET rest == fHandlers'
        IN /\ rest \in Seq(Sockets)
           /\ {rest[i] : i \in DOMAIN rest} = Registered \ {s}
           /\ \A i, j \in DOMAIN rest : rest[i] = rest[j] => i = j
    BY <2>1, WithoutRemoves
  <2> QED
    BY <2>2, <2>3
<1>2. fMaxNumSockets' \in Nat /\ \A r \in Registered' : r < fMaxNumSockets'
  BY <1>1, MaxWithoutBounds DEF Clear
<1>3. passed' \in [Sockets -> SUBSET Sockets]
  BY DEF Clear, NoTurns
<1>4. TypeOK'
  BY <1>1, <1>2, <1>3 DEF SelectCovers, TypeOK, Clear, triggers
<1> QED
  BY <1>1, <1>2, <1>4 DEF SelectCovers, Clear, triggers

\* A handler is moved to another socket.
LEMMA MoveCovers ==
  ASSUME SelectCovers, NEW s \in Sockets, NEW t \in Sockets, Move(s, t)
  PROVE  SelectCovers'
<1> DEFINE new == [i \in DOMAIN fHandlers |-> IF fHandlers[i] = s THEN t ELSE fHandlers[i]]
<1>1. fHandlers' = new /\ s # t /\ t \notin Registered
  BY DEF Move
<1>2. new \in Seq(Sockets) /\ DOMAIN new = DOMAIN fHandlers
  <2>1. new \in [1..Len(fHandlers) -> Sockets]
    BY TypeOf
  <2> QED
    BY <2>1, TypeOf
<1>3. \A i, j \in DOMAIN new : new[i] = new[j] => i = j
  BY <1>1, <1>2 DEF SelectCovers, Registered
<1>4. Registered' = IF s \in Registered THEN (Registered \ {s}) \cup {t} ELSE Registered
  BY <1>1, <1>2 DEF Registered
<1>5. fdSets' = Registered'
  BY <1>4 DEF Move, SelectCovers
<1>6. fMaxNumSockets' \in Nat /\ \A r \in Registered' : r < fMaxNumSockets'
  <2>1. fMaxNumSockets' = Larger(MaxWithout(s), t + 1) /\ t \in Nat
    BY SocketsAssumption DEF Move
  <2>2. \A r \in Registered' : r = t \/ r \in Registered \ {s}
    BY <1>4
  <2> QED
    BY <2>1, <2>2, MaxWithoutBounds DEF Larger
<1>7. Registered' \subseteq Sockets /\ passed' \in [Sockets -> SUBSET Sockets]
  BY <1>4, TypeOf DEF Move, NoTurns
<1>8. TypeOK'
  BY <1>1, <1>2, <1>5, <1>6, <1>7 DEF SelectCovers, TypeOK, Move, triggers
<1> QED
  BY <1>1, <1>2, <1>3, <1>5, <1>6, <1>8 DEF SelectCovers, Move, triggers
-----------------------------------------------------------------------------
(***************************************************************************)
(* The turns of the sockets.                                               *)
(***************************************************************************)

\* The handler whose turn it is, seen from one of another socket that is ready.
LEMMA TurnBefore ==
  ASSUME SelectCovers, NEW polled \in SUBSET Registered,
         NEW c \in DOMAIN fHandlers, IsTurn(c, polled),
         NEW i \in DOMAIN fHandlers, fHandlers[i] \in polled, i # c
  PROVE  LET k == LastPosition
         IN /\ k \in Nat
            /\ i > k => k < c /\ c < i
            /\ i <= k => c > k \/ c < i
<1> DEFINE k == LastPosition
           hits == {j \in DOMAIN fHandlers : fHandlers[j] \in polled}
           behind == {j \in hits : j > k}
           from == IF behind = {} THEN hits ELSE behind
<1>1. k \in Nat
  BY TypeOf DEF LastPosition, Registered
<1> HIDE DEF k
<1>2. i \in hits /\ i \in Nat /\ c \in Nat
  BY TypeOf
<1>3. c \in from /\ \A j \in from : c <= j
  BY DEF IsTurn, k
<1>4. ASSUME i > k PROVE k < c /\ c < i
  <2>1. i \in behind
    BY <1>2, <1>4
  <2> QED
    BY <1>1, <1>2, <1>3, <2>1
<1>5. ASSUME i <= k PROVE c > k \/ c < i
  BY <1>1, <1>2, <1>3
<1> QED
  BY <1>1, <1>4, <1>5 DEF k

\* The last socket handled stands where the search begins.
LEMMA LastStands ==
  ASSUME SelectCovers, fLastHandledSocketNum \in Registered
  PROVE  LastPosition \in DOMAIN fHandlers /\ fHandlers[LastPosition] = fLastHandledSocketNum
BY DEF LastPosition, Registered

\* A socket that is ready and not handled has been passed by others, each once.
LEMMA PassedOnce ==
  ASSUME SelectCovers, SocketsInTurn, NEW polled \in SUBSET Registered,
         NEW c \in DOMAIN fHandlers, IsTurn(c, polled),
         NEW s \in polled, s # fHandlers[c]
  PROVE  fHandlers[c] \notin passed[s]
<1>1. s \in Registered /\ s \in Sockets
  BY TypeOf
<1>2. PICK i \in DOMAIN fHandlers : fHandlers[i] = s
  BY <1>1 DEF Registered
<1> DEFINE k == LastPosition
<1> SUFFICES ASSUME fHandlers[c] \in passed[s] PROVE FALSE
  OBVIOUS
<1>3. k \in DOMAIN fHandlers /\ fHandlers[k] = fLastHandledSocketNum
  BY <1>1, LastStands DEF SocketsInTurn
<1>4. (i < k => i < c /\ c <= k) /\ (i > k => c > i \/ c <= k)
  BY <1>1, <1>2, <1>3 DEF SocketsInTurn
<1>5. i # k
  BY <1>1, <1>2, <1>3 DEF SocketsInTurn
<1>6. i # c /\ (i > k => k < c /\ c < i) /\ (i <= k => c > k \/ c < i)
  BY <1>2, TurnBefore
<1>7. i \in Nat /\ c \in Nat /\ k \in Nat
  BY <1>3, TypeOf
<1> HIDE DEF k
<1> QED
  BY <1>4, <1>5, <1>6, <1>7

\* select(), and the handler that is called.
LEMMA SelectInTurn ==
  ASSUME IInv, Select
  PROVE  /\ SelectCovers' /\ SocketsInTurn' /\ UNCHANGED sockets
         /\ \A s \in Sockets : fLastHandledSocketNum' \in passed[s] => passed'[s] = {}
<1> USE DEF IInv
<1>1. UNCHANGED <<sockets, triggers, handling, passedBy>>
  BY DEF Select
<1>2. UNCHANGED <<fHandlers, fdSets, fMaxNumSockets>> /\ Registered' = Registered
  BY <1>1 DEF sockets, Registered
<1>3. PICK polled \in SUBSET {s \in fdSets : s < fMaxNumSockets} :
       \/ \E k \in DOMAIN fHandlers :
            /\ IsTurn(k, polled)
            /\ fLastHandledSocketNum' = fHandlers[k]
            /\ phase' = "socket"
            /\ passed' = [r \in Sockets |-> IF r \in polled \ {fHandlers[k]}
                                          THEN passed[r] \cup {fHandlers[k]} ELSE {}]
       \/ /\ polled \cap Registered = {}
          /\ fLastHandledSocketNum' = None
          /\ phase' = "events"
          /\ NoTurns
  BY DEF Select
<1>4. polled \in SUBSET Registered
  BY DEF SelectCovers
<1>5. CASE /\ fLastHandledSocketNum' = None /\ phase' = "events" /\ NoTurns
  <2>1. \A s \in Sockets : passed'[s] = {}
    BY <1>5 DEF NoTurns
  <2>2. passed' \in [Sockets -> SUBSET Sockets]
    BY <1>5 DEF NoTurns
  <2>3. SelectCovers'
    BY <1>1, <1>2, <1>5, <2>2 DEF SelectCovers, TypeOK, triggers
  <2> QED
    BY <1>1, <2>1, <2>3 DEF SocketsInTurn
<1>6. ASSUME NEW c \in DOMAIN fHandlers, IsTurn(c, polled),
             fLastHandledSocketNum' = fHandlers[c], phase' = "socket",
             passed' = [r \in Sockets |-> IF r \in polled \ {fHandlers[c]}
                                        THEN passed[r] \cup {fHandlers[c]} ELSE {}]
      PROVE  /\ SelectCovers' /\ SocketsInTurn'
             /\ \A s \in Sockets : fLastHandledSocketNum' \in passed[s] => passed'[s] = {}
  <2>1. fHandlers[c] \in Sockets /\ fHandlers[c] \in Registered
    BY TypeOf DEF Registered
  <2>2. passed' \in [Sockets -> SUBSET Sockets]
    BY <1>6, <2>1 DEF SelectCovers, TypeOK
  <2>3. SelectCovers'
    BY <1>1, <1>2, <1>6, <2>1, <2>2 DEF SelectCovers, TypeOK, triggers
  <2>4. ASSUME NEW s \in Sockets, passed'[s] # {}
        PROVE  s \in polled /\ s # fHandlers[c] /\ passed'[s] = passed[s] \cup {fHandlers[c]}
    BY <1>6, <2>4
  <2>5. \A s \in Sockets : fLastHandledSocketNum' \in passed[s] => passed'[s] = {}
    BY <1>4, <1>6, <2>4, PassedOnce
  <2>6. ASSUME NEW s \in Sockets, passed'[s] # {}
        PROVE  /\ s \in Registered' /\ passed'[s] \subseteq Registered' \ {s}
               /\ fLastHandledSocketNum' \in passed'[s]
    <3>1. s \in Registered /\ passed[s] \subseteq Registered \ {s}
      BY <1>4, <2>4, <2>6 DEF SocketsInTurn
    <3> QED
      BY <1>2, <1>6, <2>1, <2>4, <2>6, <3>1
  <2>7. ASSUME NEW s \in Sockets, passed'[s] # {},
               NEW i \in DOMAIN fHandlers, NEW j \in DOMAIN fHandlers, NEW k \in DOMAIN fHandlers,
               fHandlers[i] = s, fHandlers[j] \in passed'[s], fHandlers[k] = fHandlers[c]
        PROVE  (i < k => i < j /\ j <= k) /\ (i > k => j > i \/ j <= k)
    <3>1. k = c
      BY <2>7 DEF SelectCovers
    <3>2. i \in Nat /\ j \in Nat /\ c \in Nat
      BY TypeOf
    <3>3. CASE fHandlers[j] = fHandlers[c]
      <4>1. j = c
        BY <3>3 DEF SelectCovers
      <4> QED
        BY <3>1, <3>2, <4>1
    <3>4. CASE fHandlers[j] \in passed[s]
      <4> DEFINE l == LastPosition
      <4>1. l \in DOMAIN fHandlers /\ fHandlers[l] = fLastHandledSocketNum
        BY <3>4, LastStands DEF SocketsInTurn
      <4>2. (i < l => i < j /\ j <= l) /\ (i > l => j > i \/ j <= l)
        BY <2>7, <3>4, <4>1 DEF SocketsInTurn
      <4>3. i # l
        BY <2>7, <3>4, <4>1 DEF SocketsInTurn
      <4>4. i # c /\ (i > l => l < c /\ c < i) /\ (i <= l => c > l \/ c < i)
        BY <1>4, <1>6, <2>4, <2>7, TurnBefore
      <4>5. l \in Nat
        BY <4>1, TypeOf
      <4> HIDE DEF l
      <4> QED
        BY <3>1, <3>2, <4>2, <4>3, <4>4, <4>5
    <3> QED
      BY <2>4, <2>7, <3>3, <3>4
  <2>8. SocketsInTurn'
    BY <1>2, <1>6, <2>6, <2>7 DEF SocketsInTurn
  <2> QED
    BY <2>3, <2>5, <2>8
<1> QED
  BY <1>1, <1>3, <1>5, <1>6
\* A new handler at the head of the list comes between no two others.
LEMMA AssignInTurn ==
  ASSUME SelectCovers, SocketsInTurn, NEW s \in Sockets, Assign(s)
  PROVE  SocketsInTurn'
<1>1. UNCHANGED <<passed, fLastHandledSocketNum>>
  BY DEF Assign
<1>2. CASE s \in Registered
  <2>1. fHandlers' = fHandlers /\ Registered' = Registered
    BY <1>2 DEF Assign, Registered
  <2> QED
    BY <1>1, <2>1 DEF SocketsInTurn
<1>3. CASE s \notin Registered
  <2> DEFINE new == <<s>> \o fHandlers
  <2>1. fHandlers' = new
    BY <1>3 DEF Assign
  <2>2. /\ DOMAIN new = 1..Len(fHandlers) + 1
        /\ new[1] = s
        /\ \A i \in DOMAIN new : i # 1 => i - 1 \in DOMAIN fHandlers /\ new[i] = fHandlers[i - 1]
    <3>1. fHandlers \in Seq(Sockets) /\ s \in Sockets
      BY DEF SelectCovers, TypeOK
    <3> QED
      BY <3>1, TypeOf
  <2>3. Registered \subseteq Registered'
    <3>1. ASSUME NEW i \in DOMAIN fHandlers PROVE fHandlers[i] \in Registered'
      <4>1. i + 1 \in DOMAIN new /\ i + 1 # 1 /\ (i + 1) - 1 = i
        BY <2>2, TypeOf
      <4>2. new[i + 1] = fHandlers[i]
        BY <2>2, <4>1
      <4> QED
        BY <2>1, <4>1, <4>2 DEF Registered
    <3> QED
      BY <3>1 DEF Registered
  <2>4. ASSUME NEW r \in Sockets, passed[r] # {},
               NEW i \in DOMAIN new, NEW j \in DOMAIN new, NEW k \in DOMAIN new,
               new[i] = r, new[j] \in passed[r], new[k] = fLastHandledSocketNum
        PROVE  (i < k => i < j /\ j <= k) /\ (i > k => j > i \/ j <= k)
    <3>1. r \in Registered /\ passed[r] \subseteq Registered /\ fLastHandledSocketNum \in passed[r]
      BY <2>4 DEF SocketsInTurn
    <3>2. i # 1 /\ j # 1 /\ k # 1
      BY <1>3, <2>2, <2>4, <3>1
    <3>3. /\ i - 1 \in DOMAIN fHandlers /\ j - 1 \in DOMAIN fHandlers /\ k - 1 \in DOMAIN fHandlers
          /\ new[i] = fHandlers[i - 1] /\ new[j] = fHandlers[j - 1] /\ new[k] = fHandlers[k - 1]
      BY <2>2, <3>2
    <3>4. /\ i - 1 < k - 1 => i - 1 < j - 1 /\ j - 1 <= k - 1
          /\ i - 1 > k - 1 => j - 1 > i - 1 \/ j - 1 <= k - 1
      BY <2>4, <3>3 DEF SocketsInTurn
    <3>5. i \in Nat /\ j \in Nat /\ k \in Nat
      BY <2>2, TypeOf
    <3> QED
      BY <3>4, <3>5
  <2>5. \A r \in Sockets : passed[r] # {} =>
          /\ r \in Registered' /\ passed[r] \subseteq Registered' \ {r}
          /\ fLastHandledSocketNum \in passed[r]
    BY <2>3 DEF SocketsInTurn
  <2> QED
    BY <1>1, <2>1, <2>4, <2>5 DEF SocketsInTurn
<1> QED
  BY <1>2, <1>3

-----------------------------------------------------------------------------
(***************************************************************************)
(* The turns of the events.                                                *)
(***************************************************************************)

\* The event whose turn it is, seen from another one that is set.
LEMMA EventBefore ==
  ASSUME SelectCovers, NEW i \in fTriggersAwaitingHandling, NEW j \in fTriggersAwaitingHandling,
         IsFirst(i, fTriggersAwaitingHandling), i # j
  PROVE  LET l == fLastUsedTriggerNum
         IN /\ i \in Nat /\ j \in Nat /\ l \in Nat
            /\ j > l => l < i /\ i < j
            /\ j <= l => i > l \/ i < j
<1>1. i \in 0..NumTriggers - 1 /\ j \in 0..NumTriggers - 1 /\ fLastUsedTriggerNum \in 0..NumTriggers - 1
  BY DEF SelectCovers, TypeOK, Triggers
<1>2. Distance(i) <= Distance(j)
  BY DEF IsFirst
<1> QED
  BY <1>1, <1>2, TriggersAssumption DEF Distance

\* One event is handled, and the ones that are set stay in turn.
LEMMA HandleInTurn ==
  ASSUME IInv, HandleEvent
  PROVE  /\ SelectCovers' /\ EventsInTurn'
         /\ \A j \in Triggers, i \in fTriggersAwaitingHandling \ fTriggersAwaitingHandling' :
              j \in fTriggersAwaitingHandling' => i \notin passedBy[j]
<1> USE DEF IInv
<1>1. PICK i \in fTriggersAwaitingHandling :
        /\ IsFirst(i, fTriggersAwaitingHandling)
        /\ fTriggersAwaitingHandling' = fTriggersAwaitingHandling \ {i}
        /\ handling' = IF fTriggersAwaitingHandling = {fLastUsedTriggerNum} THEN None ELSE i
        /\ passedBy' = [j \in Triggers |-> IF j \in fTriggersAwaitingHandling \ {i}
                                          THEN passedBy[j] \cup {i} ELSE {}]
  BY DEF HandleEvent
<1>2. phase = "events" /\ phase' = "event" /\ handling = None
  BY DEF HandleEvent, EventsInTurn
<1>3. UNCHANGED <<sockets, fLastHandledSocketNum, fTriggeredEventHandlers, fLastUsedTriggerNum, passed>>
  BY DEF HandleEvent
<1>4. /\ i \in Triggers /\ fTriggersAwaitingHandling \subseteq Triggers
      /\ passedBy \in [Triggers -> SUBSET Triggers] /\ i # None
  BY DEF SelectCovers, TypeOK, Triggers, None
<1>5. Last = fLastUsedTriggerNum /\ Last' = i
  BY <1>1, <1>2, <1>3, <1>4 DEF Last
<1>6. SelectCovers'
  <2>1. passedBy' \in [Triggers -> SUBSET Triggers] /\ handling' \in Triggers \cup {None}
    BY <1>1, <1>4
  <2>2. TypeOK'
    BY <1>1, <1>2, <1>3, <1>4, <2>1 DEF SelectCovers, TypeOK, sockets
  <2> QED
    BY <1>1, <1>3, <2>2 DEF SelectCovers, sockets, Registered
<1>7. ASSUME NEW j \in Triggers, j \in fTriggersAwaitingHandling, j # i
      PROVE  /\ i \notin passedBy[j]
             /\ \A h \in passedBy[j] : (j < i => j < h /\ h <= i) /\ (j > i => h > j \/ h <= i)
  <2> DEFINE l == fLastUsedTriggerNum
  <2>1. /\ i \in Nat /\ j \in Nat /\ l \in Nat
        /\ j > l => l < i /\ i < j
        /\ j <= l => i > l \/ i < j
    BY <1>1, <1>7, EventBefore
  <2>2. \A h \in passedBy[j] :
          /\ h \in Nat /\ j # l
          /\ (j < l => j < h /\ h <= l) /\ (j > l => h > j \/ h <= l)
    BY <1>4, <1>5, <2>1, TriggersAssumption DEF EventsInTurn, Triggers
  <2> HIDE DEF l
  <2> QED
    BY <2>1, <2>2
<1>8. ASSUME NEW j \in Triggers, passedBy'[j] # {}
      PROVE  /\ j \in fTriggersAwaitingHandling' /\ j \notin passedBy'[j]
             /\ i \in passedBy'[j]
             /\ \A h \in passedBy'[j] :
                  (j < i => j < h /\ h <= i) /\ (j > i => h > j \/ h <= i)
  <2>1. /\ j \in fTriggersAwaitingHandling /\ j # i /\ passedBy'[j] = passedBy[j] \cup {i}
        /\ j \notin passedBy[j]
    BY <1>1, <1>8 DEF EventsInTurn
  <2>2. i \in Nat /\ j \in Nat
    BY <1>4, TriggersAssumption DEF Triggers
  <2> QED
    BY <1>1, <1>7, <2>1, <2>2
<1>9. EventsInTurn'
  BY <1>2, <1>5, <1>8 DEF EventsInTurn
<1> QED
  BY <1>1, <1>6, <1>7, <1>9
\* A trigger is created: whose turn it is starts anew.
LEMMA CreateInTurn ==
  ASSUME IInv, CreateTrigger
  PROVE  SelectCovers' /\ EventsInTurn'
<1>1. PICK i \in Free : /\ fTriggeredEventHandlers' = fTriggeredEventHandlers \cup {i}
                        /\ fLastUsedTriggerNum' = i
  BY DEF CreateTrigger
<1>2. i \in Triggers
  BY DEF Free
<1>3. TypeOK'
  BY <1>1, <1>2 DEF IInv, SelectCovers, TypeOK, CreateTrigger, sockets
<1> QED
  BY <1>1, <1>3 DEF IInv, SelectCovers, CreateTrigger, sockets, Registered, EventsInTurn

\* A trigger is deleted, with its event.
LEMMA DeleteInTurn ==
  ASSUME IInv, NEW d \in Triggers, DeleteTrigger(d)
  PROVE  SelectCovers' /\ EventsInTurn'
<1>1. TypeOK'
  BY DEF IInv, SelectCovers, TypeOK, DeleteTrigger, sockets
<1>2. SelectCovers'
  BY <1>1 DEF IInv, SelectCovers, DeleteTrigger, sockets, Registered
<1>3. Last' = Last /\ UNCHANGED <<phase, handling>>
  BY DEF DeleteTrigger, Last
<1>4. passedBy' = [passedBy EXCEPT ![d] = {}] /\ passedBy \in [Triggers -> SUBSET Triggers]
      /\ fTriggersAwaitingHandling' = fTriggersAwaitingHandling \ {d}
  BY DEF IInv, SelectCovers, TypeOK, DeleteTrigger
<1>5. \A i \in Triggers : passedBy'[i] # {} => i # d /\ passedBy'[i] = passedBy[i]
  BY <1>4
<1>6. EventsInTurn'
  BY <1>3, <1>4, <1>5 DEF IInv, EventsInTurn
<1> QED
  BY <1>2, <1>6

-----------------------------------------------------------------------------
(***************************************************************************)
(* The invariant and the theorems.                                         *)
(***************************************************************************)

\* Every step keeps the invariant.
LEMMA NextIInv == IInv /\ [Next]_vars => IInv'
<1> SUFFICES ASSUME IInv, [Next]_vars PROVE IInv'
  OBVIOUS
<1> USE DEF IInv
<1>1. ASSUME UNCHANGED <<triggers, handling, passedBy>>, phase' # "event" => handling = None
      PROVE  EventsInTurn'
  BY <1>1 DEF EventsInTurn, Last, triggers
<1>2. ASSUME UNCHANGED <<sockets, fLastHandledSocketNum, passed>>
      PROVE  SocketsInTurn'
  BY <1>2 DEF SocketsInTurn, sockets, Registered
<1>3. ASSUME NEW s \in Sockets, Assign(s) PROVE IInv'
  BY <1>1, <1>3, AssignCovers, AssignInTurn DEF Assign, EventsInTurn
<1>4. ASSUME NEW s \in Sockets, Clear(s) PROVE IInv'
  <2>1. SocketsInTurn'
    BY <1>4 DEF Clear, NoTurns, SocketsInTurn
  <2> QED
    BY <1>1, <1>4, <2>1, ClearCovers DEF Clear, EventsInTurn
<1>5. ASSUME NEW s \in Sockets, NEW t \in Sockets, Move(s, t) PROVE IInv'
  <2>1. SocketsInTurn'
    BY <1>5 DEF Move, NoTurns, SocketsInTurn
  <2> QED
    BY <1>1, <1>5, <2>1, MoveCovers DEF Move, EventsInTurn
<1>6. CASE CreateTrigger
  BY <1>2, <1>6, CreateInTurn DEF CreateTrigger
<1>7. ASSUME NEW i \in Triggers, DeleteTrigger(i) PROVE IInv'
  BY <1>2, <1>7, DeleteInTurn DEF DeleteTrigger
<1>8. ASSUME NEW i \in Triggers, TriggerEvent(i) PROVE IInv'
  <2>1. TypeOK'
    BY <1>8 DEF SelectCovers, TypeOK, TriggerEvent, sockets
  <2>2. SelectCovers'
    BY <1>8, <2>1 DEF SelectCovers, TriggerEvent, sockets, Registered
  <2>3. EventsInTurn'
    BY <1>8 DEF EventsInTurn, TriggerEvent, Last
  <2> QED
    BY <1>2, <1>8, <2>2, <2>3 DEF TriggerEvent
<1>9. CASE Select
  <2>1. phase = "begin" /\ UNCHANGED <<triggers, handling, passedBy>>
    BY <1>9 DEF Select
  <2> QED
    BY <1>1, <1>9, <2>1, SelectInTurn DEF EventsInTurn
<1>10. CASE HandleEvent
  BY <1>2, <1>10, HandleInTurn DEF HandleEvent
<1>11. CASE EventHandled
  <2>1. TypeOK'
    BY <1>11 DEF SelectCovers, TypeOK, EventHandled, sockets
  <2>2. SelectCovers'
    BY <1>11, <2>1 DEF SelectCovers, EventHandled, sockets, Registered
  <2>3. Last' = Last /\ handling' = None
    BY <1>11 DEF EventHandled, Last
  <2>4. EventsInTurn'
    BY <1>11, <2>3 DEF EventsInTurn, EventHandled
  <2> QED
    BY <1>2, <1>11, <2>2, <2>4 DEF EventHandled
<1>12. ASSUME UNCHANGED <<sockets, fLastHandledSocketNum, triggers, handling, passed, passedBy>>,
              phase' \in {"begin", "socket", "events", "event", "alarm", "task"}
       PROVE  SelectCovers' /\ SocketsInTurn'
  BY <1>2, <1>12 DEF SelectCovers, TypeOK, sockets, triggers, Registered
<1>13. CASE SocketHandled \/ NoEvent \/ RunAlarm \/ AlarmReturns
  BY <1>1, <1>12, <1>13 DEF SocketHandled, NoEvent, RunAlarm, AlarmReturns, EventsInTurn
<1>14. CASE UNCHANGED vars
  BY <1>1, <1>12, <1>14 DEF vars, SelectCovers, TypeOK, EventsInTurn
<1> QED
  BY <1>3, <1>4, <1>5, <1>6, <1>7, <1>8, <1>9, <1>10, <1>11, <1>13, <1>14 DEF Next

\* select() looks at the sockets that have a handler, whatever handlers add,
\* remove and move.
THEOREM AllCovered == Spec => []SelectCovers
<1>1. IInv => SelectCovers
  BY DEF IInv
<1> QED
  BY InitIInv, NextIInv, <1>1, PTL DEF Spec

\* No socket that stays ready sees another one handled twice.
THEOREM SocketsNotStarved == Spec => FairToSockets
<1>1. ASSUME IInv, [Next]_vars, phase = "begin", phase' = "socket"
      PROVE  \A s \in Sockets : fLastHandledSocketNum' \in passed[s] => passed'[s] = {}
  <2>1. Select
    BY <1>1 DEF Next, vars, Assign, Clear, Move, InHandler, CreateTrigger, DeleteTrigger,
                TriggerEvent, SocketHandled, HandleEvent, NoEvent, EventHandled, RunAlarm, AlarmReturns
  <2> QED
    BY <1>1, <2>1, SelectInTurn
<1>2. IInv /\ [Next]_vars =>
        [phase = "begin" /\ phase' = "socket" =>
           \A s \in Sockets : fLastHandledSocketNum' \in passed[s] => passed'[s] = {}]_vars
  BY <1>1
<1> QED
  BY InitIInv, NextIInv, <1>2, PTL DEF Spec, FairToSockets

\* No event that stays set sees another one handled twice.
THEOREM EventsNotStarved == Spec => FairToEvents
<1>1. ASSUME IInv, [Next]_vars, phase = "events", phase' = "event"
      PROVE  \A i \in Triggers, j \in fTriggersAwaitingHandling \ fTriggersAwaitingHandling' :
               i \in fTriggersAwaitingHandling' => j \notin passedBy[i]
  <2>1. HandleEvent
    BY <1>1 DEF Next, vars, Assign, Clear, Move, InHandler, CreateTrigger, DeleteTrigger,
                TriggerEvent, Select, SocketHandled, NoEvent, EventHandled, RunAlarm, AlarmReturns
  <2> QED
    BY <1>1, <2>1, HandleInTurn
<1>2. IInv /\ [Next]_vars =>
        [phase = "events" /\ phase' = "event" =>
           \A i \in Triggers, j \in fTriggersAwaitingHandling \ fTriggersAwaitingHandling' :
              i \in fTriggersAwaitingHandling' => j \notin passedBy[i]]_vars
  BY <1>1
<1> QED
  BY InitIInv, NextIInv, <1>2, PTL DEF Spec, FairToEvents

-----------------------------------------------------------------------------
(***************************************************************************)
(* The delay queue: what the lists of deltas tell.                         *)
(***************************************************************************)

\* The entries of the list.
Entries == [task : Tasks, delta : Nat]

\* Some number of a set is the least.
LEMMA Least ==
  ASSUME NEW T, T \subseteq Nat, T # {}
  PROVE  \E x \in T : \A y \in T : ~(y < x)
<1>1. PICK x \in T : \A y \in T : ~(<<y, x>> \in OpToRel(<, Nat))
  BY NatLessThanWellFounded, WFMin
<1> QED
  BY <1>1 DEF OpToRel

\* What the lists of deltas and the sums have in common with every list.
LEMMA ListParts ==
  ASSUME NEW q \in Seq(Entries)
  PROVE  /\ Len(q) \in Nat /\ DOMAIN q = 1..Len(q)
         /\ \A i \in 1..Len(q) : /\ q[i] \in Entries /\ q[i].task \in Tasks /\ q[i].delta \in Nat
                                 /\ i \in 0..Len(q) /\ i - 1 \in 0..Len(q) /\ i # 0
                                 /\ q[i] = [task |-> q[i].task, delta |-> q[i].delta]
<1>1. \A i \in 1..Len(q) : q[i] \in Entries
  OBVIOUS
<1> QED
  BY <1>1 DEF Entries

\* The function that Until(q) is chosen as exists: it is made from the front on.
LEMMA UntilExists ==
  ASSUME NEW q \in Seq(Entries)
  PROVE  \E f : f = [i \in 0..Len(q) |-> IF i = 0 THEN 0 ELSE f[i - 1] + q[i].delta]
<1> DEFINE n == Len(q)
           Sums(m, f) == f = [i \in 0..m |-> IF i = 0 THEN 0 ELSE f[i - 1] + q[i].delta]
           T == {m \in 0..n : ~ \E f : Sums(m, f)}
<1>1. n \in Nat
  BY ListParts
<1> HIDE DEF n
<1>2. SUFFICES ASSUME T # {} PROVE FALSE
  BY <1>1 DEF n
<1>3. T \subseteq Nat
  BY <1>1
<1>4. PICK m \in T : \A k \in T : ~(k < m)
  BY <1>2, <1>3, Least
<1>5. m \in Nat /\ m \in 0..n
  BY <1>3
<1>6. CASE m = 0
  <2> DEFINE f == [i \in 0..0 |-> 0]
  <2>1. Sums(0, f)
    OBVIOUS
  <2> QED
    BY <1>4, <1>6, <2>1
<1>7. CASE m # 0
  <2>1. m - 1 \in 0..n /\ m - 1 < m
    BY <1>1, <1>5, <1>7
  <2>2. PICK f : Sums(m - 1, f)
    BY <1>4, <2>1
  <2> DEFINE g == [i \in 0..m |-> IF i = m THEN f[m - 1] + q[m].delta ELSE f[i]]
  <2>3. \A i \in 0..m : g[i] = IF i = 0 THEN 0 ELSE g[i - 1] + q[i].delta
    <3> SUFFICES ASSUME NEW i \in 0..m PROVE g[i] = IF i = 0 THEN 0 ELSE g[i - 1] + q[i].delta
      OBVIOUS
    <3>1. CASE i = m
      BY <1>5, <1>7, <3>1
    <3>2. CASE i # m
      <4>1. i \in 0..m - 1 /\ (i = 0 \/ i - 1 \in 0..m - 1)
        BY <1>5, <3>2
      <4>2. g[i] = f[i] /\ (i # 0 => g[i - 1] = f[i - 1])
        BY <1>5, <3>2, <4>1
      <4> QED
        BY <2>2, <4>1, <4>2
    <3> QED
      BY <3>1, <3>2
  <2>4. Sums(m, g)
    BY <2>3
  <2> QED
    BY <1>4, <2>4
<1> QED
  BY <1>6, <1>7

\* Until(q) adds the deltas up.
LEMMA UntilAdds ==
  ASSUME NEW q \in Seq(Entries)
  PROVE  /\ Until(q) = [i \in 0..Len(q) |-> IF i = 0 THEN 0 ELSE Until(q)[i - 1] + q[i].delta]
         /\ Until(q)[0] = 0
         /\ \A i \in 1..Len(q) : Until(q)[i] = Until(q)[i - 1] + q[i].delta
<1>1. Until(q) = [i \in 0..Len(q) |-> IF i = 0 THEN 0 ELSE Until(q)[i - 1] + q[i].delta]
  BY UntilExists DEF Until
<1> DEFINE u == Until(q)
<1> HIDE DEF u
<1>2. 0 \in 0..Len(q)
  BY ListParts
<1>3. \A i \in 1..Len(q) : i \in 0..Len(q) /\ i # 0
  BY ListParts
<1>4. u = [i \in 0..Len(q) |-> IF i = 0 THEN 0 ELSE u[i - 1] + q[i].delta]
  BY <1>1 DEF u
<1>5. u[0] = 0 /\ \A i \in 1..Len(q) : u[i] = u[i - 1] + q[i].delta
  BY <1>2, <1>3, <1>4
<1> QED
  BY <1>1, <1>5 DEF u

\* A function that adds the deltas up is Until(q).
LEMMA UntilIs ==
  ASSUME NEW q \in Seq(Entries), NEW f, f = [i \in 0..Len(q) |-> f[i]], f[0] = 0,
         \A i \in 1..Len(q) : f[i] = f[i - 1] + q[i].delta
  PROVE  \A i \in 0..Len(q) : Until(q)[i] = f[i]
<1> DEFINE u == Until(q)
           n == Len(q)
           T == {i \in 0..n : u[i] # f[i]}
<1>1. n \in Nat
  BY ListParts
<1>2. u[0] = 0 /\ \A i \in 1..n : u[i] = u[i - 1] + q[i].delta
  BY UntilAdds
<1>3. \A i \in 1..n : f[i] = f[i - 1] + q[i].delta
  OBVIOUS
<1> HIDE DEF u, n
<1>4. SUFFICES ASSUME T # {} PROVE FALSE
  BY DEF u, n
<1>5. T \subseteq Nat
  BY <1>1
<1>6. PICK m \in T : \A k \in T : ~(k < m)
  BY <1>4, <1>5, Least
<1>7. m # 0 /\ m \in 1..n /\ m - 1 \in 0..n /\ m - 1 < m
  BY <1>1, <1>2, <1>6
<1> QED
  BY <1>2, <1>3, <1>6, <1>7

\* The sums are natural numbers, and they do not fall.
LEMMA UntilRises ==
  ASSUME NEW q \in Seq(Entries)
  PROVE  /\ \A i \in 0..Len(q) : Until(q)[i] \in Nat
         /\ \A i, j \in 0..Len(q) : i <= j => Until(q)[i] <= Until(q)[j]
<1> DEFINE u == Until(q)
           n == Len(q)
           T == {j \in 0..n : ~(u[j] \in Nat /\ \A i \in 0..n : i <= j => u[i] \in Nat /\ u[i] <= u[j])}
<1>1. n \in Nat
  BY ListParts
<1>2. u[0] = 0 /\ \A i \in 1..n : u[i] = u[i - 1] + q[i].delta /\ q[i].delta \in Nat
  BY UntilAdds, ListParts
<1> HIDE DEF u, n
<1>4. SUFFICES ASSUME T # {} PROVE FALSE
  BY DEF u, n
<1>5. T \subseteq Nat
  BY <1>1
<1>6. PICK m \in T : \A k \in T : ~(k < m)
  BY <1>4, <1>5, Least
<1>7. m # 0
  BY <1>1, <1>2, <1>6
<1>8. m \in 1..n /\ m - 1 \in 0..n /\ m - 1 < m
  BY <1>1, <1>6, <1>7
<1>9. u[m - 1] \in Nat /\ \A i \in 0..n : i <= m - 1 => u[i] \in Nat /\ u[i] <= u[m - 1]
  BY <1>6, <1>8
<1>10. u[m] \in Nat /\ u[m - 1] <= u[m]
  BY <1>2, <1>8, <1>9
<1>11. \A i \in 0..n : i <= m => i = m \/ i <= m - 1
  BY <1>1, <1>8
<1>12. \A i \in 0..n : i <= m => u[i] \in Nat /\ u[i] <= u[m]
  BY <1>9, <1>10, <1>11
<1> QED
  BY <1>6, <1>10, <1>12

\* What is left of the time x.
Left(x) == IF x > 0 THEN x ELSE 0

\* The code's maximum with 0 is what is left.
LEMMA MaxIsLeft ==
  ASSUME NEW x \in Int
  PROVE  Max({0, x}) = Left(x) /\ Left(x) \in Nat
BY DEF Max, Left

\* synchronize() takes the time that has passed off every sum.
LEMMA ElapsedTells ==
  ASSUME NEW q \in Seq(Entries), NEW e \in Nat
  PROVE  /\ Elapsed(q, e) \in Seq(Entries) /\ Len(Elapsed(q, e)) = Len(q)
         /\ \A i \in 1..Len(q) : Elapsed(q, e)[i].task = q[i].task
         /\ \A i \in 0..Len(q) : Until(Elapsed(q, e))[i] = Left(Until(q)[i] - e)
<1> DEFINE n == Len(q)
           u == Until(q)
           f == [i \in 0..n |-> Left(u[i] - e)]
           r == Elapsed(q, e)
<1>1. n \in Nat /\ DOMAIN q = 1..n
  BY ListParts
<1>2. \A i \in 0..n : u[i] \in Nat
  BY UntilRises
<1>3. \A i \in 1..n : u[i - 1] <= u[i]
  <2>1. \A i \in 1..n : i \in 0..n /\ i - 1 \in 0..n /\ i - 1 <= i
    BY <1>1
  <2> QED
    BY <2>1, UntilRises
<1>4. \A i \in 1..n : q[i] \in Entries /\ i \in 0..n /\ i - 1 \in 0..n
  BY ListParts
<1>5. \A i \in 0..n : Max({0, u[i] - e}) = Left(u[i] - e) /\ Left(u[i] - e) \in Nat
  <2> SUFFICES ASSUME NEW i \in 0..n
               PROVE  Max({0, u[i] - e}) = Left(u[i] - e) /\ Left(u[i] - e) \in Nat
    OBVIOUS
  <2>1. u[i] - e \in Int
    BY <1>2
  <2> QED
    BY <2>1, MaxIsLeft
<1>6. u[0] = 0 /\ 0 \in 0..n
  BY <1>1, UntilAdds
<1>7. r = [i \in 1..n |-> [q[i] EXCEPT !.delta = f[i] - f[i - 1]]]
  BY <1>1, <1>4, <1>5 DEF Elapsed
<1> HIDE DEF n, u, r
<1>8. \A i \in 1..n : f[i] - f[i - 1] \in Nat
  BY <1>2, <1>3, <1>4 DEF Left
<1>9. \A i \in 1..n : /\ r[i] \in Entries /\ r[i].task = q[i].task
                      /\ r[i].delta = f[i] - f[i - 1]
  BY <1>4, <1>7, <1>8 DEF Entries
<1>10. r \in Seq(Entries) /\ Len(r) = n
  <2>1. DOMAIN r = 1..n
    BY <1>7
  <2> HIDE DEF f
  <2>2. r \in [1..n -> Entries]
    BY <1>7, <1>9
  <2> QED
    BY <1>1, <2>1, <2>2
<1>11. f[0] = 0 /\ f = [i \in 0..Len(r) |-> f[i]] /\ \A i \in 1..Len(r) : f[i] = f[i - 1] + r[i].delta
  <2>1. f[0] = 0
    BY <1>6 DEF Left
  <2>2. \A i \in 1..n : f[i] \in Nat /\ f[i - 1] \in Nat
    BY <1>4, <1>5
  <2> HIDE DEF f
  <2>3. \A i \in 1..n : f[i] = f[i - 1] + r[i].delta
    BY <1>9, <2>2
  <2> QED
    BY <1>10, <2>1, <2>3 DEF f
<1>12. \A i \in 0..Len(r) : Until(r)[i] = f[i]
  BY <1>10, <1>11, UntilIs
<1> QED
  BY <1>9, <1>10, <1>12 DEF n, u, r

\* addEntry() goes behind the entries whose time is not longer than d.
LEMMA PlaceIs ==
  ASSUME NEW q \in Seq(Entries), NEW d \in Nat
  PROVE  /\ Place(q, d) \in 0..Len(q)
         /\ \A i \in 1..Len(q) : i <= Place(q, d) <=> Until(q)[i] <= d
<1> DEFINE n == Len(q)
           u == Until(q)
           T == {i \in 1..n : u[i] > d}
<1>1. n \in Nat /\ DOMAIN q = 1..n
  BY ListParts
<1>2. \A i, j \in 1..n : u[i] \in Nat /\ (i <= j => u[i] <= u[j])
  <2>1. \A i \in 1..n : i \in 0..n
    OBVIOUS
  <2> QED
    BY <2>1, UntilRises
<1>3. Place(q, d) = Cardinality({i \in 1..n : u[i] <= d})
  BY <1>1 DEF Place
<1> HIDE DEF n, u
<1>4. ASSUME NEW k \in 0..n, \A i \in 1..n : i <= k <=> u[i] <= d
      PROVE  Place(q, d) = k
  <2>1. {i \in 1..n : u[i] <= d} = 1..k
    BY <1>1, <1>4
  <2>2. Cardinality(1..k) = k
    BY <1>1, FS_Interval
  <2> QED
    BY <1>3, <2>1, <2>2
<1>5. \E k \in 0..n : \A i \in 1..n : i <= k <=> u[i] <= d
  <2>1. CASE T = {}
    <3>1. \A i \in 1..n : i <= n /\ u[i] <= d
      BY <1>1, <1>2, <2>1
    <3> QED
      BY <1>1, <3>1
  <2>2. CASE T # {}
    <3>1. T \subseteq Nat
      BY <1>1
    <3>2. PICK m \in T : \A y \in T : ~(y < m)
      BY <2>2, <3>1, Least
    <3>3. m \in 1..n /\ m - 1 \in 0..n /\ u[m] > d
      BY <1>1, <3>2
    <3>4. \A i \in 1..n : i <= m - 1 <=> u[i] <= d
      <4> SUFFICES ASSUME NEW i \in 1..n PROVE i <= m - 1 <=> u[i] <= d
        OBVIOUS
      <4>1. CASE i < m
        <5>1. i \notin T
          BY <3>2, <4>1
        <5> QED
          BY <1>1, <1>2, <3>3, <4>1, <5>1
      <4>2. CASE ~(i < m)
        <5>1. m <= i
          BY <1>1, <3>3, <4>2
        <5>2. u[m] <= u[i] /\ u[m] \in Nat /\ u[i] \in Nat
          BY <1>2, <3>3, <5>1
        <5> QED
          BY <1>1, <3>3, <4>2, <5>2
      <4> QED
        BY <4>1, <4>2
    <3> QED
      BY <3>3, <3>4
  <2> QED
    BY <2>1, <2>2
<1> QED
  BY <1>4, <1>5 DEF n, u

\* A list put together from two and an element between them.
LEMMA Joined ==
  ASSUME NEW S, NEW a \in Seq(S), NEW x \in S, NEW b \in Seq(S), NEW r, r = a \o <<x>> \o b
  PROVE  /\ r \in Seq(S) /\ Len(r) = Len(a) + 1 + Len(b)
         /\ \A i \in 1..Len(a) : r[i] = a[i]
         /\ r[Len(a) + 1] = x
         /\ \A i \in 1..Len(b) : r[Len(a) + 1 + i] = b[i]
<1> DEFINE la == Len(a)
           lb == Len(b)
           l  == a \o <<x>>
<1>1. la \in Nat /\ lb \in Nat
  BY LenProperties
<1>2. <<x>> \in Seq(S) /\ Len(<<x>>) = 1 /\ <<x>>[1] = x
  OBVIOUS
<1>3. /\ l \in Seq(S) /\ Len(l) = la + 1
      /\ \A i \in 1..la + 1 : l[i] = IF i <= la THEN a[i] ELSE <<x>>[i - la]
  BY <1>2, ConcatProperties
<1>4. \A i \in 1..la : l[i] = a[i]
  BY <1>1, <1>3
<1>5. l[la + 1] = x
  BY <1>1, <1>2, <1>3
<1>9. lb = Len(b)
  OBVIOUS
<1> HIDE DEF l, la, lb
<1>6. /\ r \in Seq(S) /\ Len(r) = (la + 1) + lb
      /\ \A i \in 1..(la + 1) + lb : r[i] = IF i <= la + 1 THEN l[i] ELSE b[i - (la + 1)]
  <2>1. /\ r \in Seq(S) /\ Len(r) = Len(l) + Len(b)
        /\ \A i \in 1..Len(l) + Len(b) : r[i] = IF i <= Len(l) THEN l[i] ELSE b[i - Len(l)]
    <3>1. r = l \o b
      BY DEF l
    <3> QED
      BY <1>3, <3>1, ConcatProperties
  <2> QED
    BY <1>3, <1>9, <2>1
<1>7. \A i \in 1..la + 1 : r[i] = l[i]
  BY <1>1, <1>6
<1>8. \A i \in 1..lb : r[(la + 1) + i] = b[i]
  BY <1>1, <1>6
<1> QED
  BY <1>1, <1>4, <1>5, <1>6, <1>7, <1>8 DEF l, la, lb

\* The two parts of a list on either side of position k.
LEMMA Parts ==
  ASSUME NEW q \in Seq(Entries), NEW k \in Int, NEW m \in Int, 0 <= k, k <= m, m <= Len(q)
  PROVE  LET a == SubSeq(q, 1, k)
             b == SubSeq(q, m + 1, Len(q))
         IN /\ a \in Seq(Entries) /\ Len(a) = k /\ \A i \in 1..k : a[i] = q[i]
            /\ b \in Seq(Entries) /\ Len(b) = Len(q) - m /\ DOMAIN b = 1..Len(q) - m
            /\ \A i \in 1..Len(q) - m : b[i] = q[m + i] /\ b[i] \in Entries
<1> DEFINE n == Len(q)
           a == SubSeq(q, 1, k)
           b == SubSeq(q, m + 1, n)
<1>1. n \in Nat /\ k \in Nat /\ m \in Nat /\ k <= n /\ m <= n /\ \A i \in 1..n : q[i] \in Entries
  BY ListParts
<1> HIDE DEF n
<1>2. a \in Seq(Entries) /\ Len(a) = k /\ \A i \in 1..k : a[i] = q[i]
  <2>1. \A i \in 1..k : q[i] \in Entries
    BY <1>1
  <2>2. /\ a \in Seq(Entries) /\ Len(a) = IF 1 <= k THEN k - 1 + 1 ELSE 0
        /\ \A i \in 1..k - 1 + 1 : a[i] = q[1 + i - 1]
    BY <1>1, <2>1, SubSeqProperties
  <2> HIDE DEF a
  <2> QED
    BY <1>1, <2>2
<1>3. b \in Seq(Entries) /\ Len(b) = n - m /\ \A i \in 1..n - m : b[i] = q[m + i]
  <2>1. \A i \in m + 1..n : q[i] \in Entries
    BY <1>1
  <2>2. /\ b \in Seq(Entries) /\ Len(b) = IF m + 1 <= n THEN n - (m + 1) + 1 ELSE 0
        /\ \A i \in 1..n - (m + 1) + 1 : b[i] = q[(m + 1) + i - 1]
    BY <1>1, <2>1, SubSeqProperties
  <2> HIDE DEF b
  <2> QED
    BY <1>1, <2>2
<1>4. \A i \in 1..n - m : m + i \in 1..n
  BY <1>1
<1>5. DOMAIN b = 1..n - m
  BY <1>3
<1> HIDE DEF a, b
<1> QED
  BY <1>1, <1>2, <1>3, <1>4, <1>5 DEF n, a, b

\* A function from 1..n on is a list.
LEMMA IsList ==
  ASSUME NEW n \in Nat, NEW s, s = [i \in 1..n |-> s[i]], \A i \in 1..n : s[i] \in Entries
  PROVE  s \in Seq(Entries) /\ Len(s) = n
<1>1. s \in [1..n -> Entries] /\ DOMAIN s = 1..n
  OBVIOUS
<1> QED
  BY <1>1

\* The list r is q with the task t, which remains for d, behind the entry k.
GoesBehind(r, q, k, t, d) ==
  /\ Len(r) = Len(q) + 1
  /\ \A i \in 1..k : r[i].task = q[i].task
  /\ r[k + 1].task = t
  /\ \A i \in k + 1..Len(q) : r[i + 1].task = q[i].task
  /\ \A i \in 0..k : Until(r)[i] = Until(q)[i]
  /\ Until(r)[k + 1] = d
  /\ \A i \in k + 1..Len(q) : Until(r)[i + 1] = Until(q)[i]

\* addEntry() gives the new entry the sum d, and leaves the sums of the others.
LEMMA InsertedTells ==
  ASSUME NEW q \in Seq(Entries), NEW t \in Tasks, NEW d \in Nat
  PROVE  /\ Inserted(q, t, d) \in Seq(Entries)
         /\ GoesBehind(Inserted(q, t, d), q, Place(q, d), t, d)
<1> DEFINE n == Len(q)
           u == Until(q)
           k == Place(q, d)
           r == Inserted(q, t, d)
           a == SubSeq(q, 1, k)
           b == SubSeq(q, k + 1, n)
           x == [task |-> t, delta |-> d - u[k]]
           c == u[k] - d
           s == [i \in DOMAIN b |-> IF i = 1 THEN [b[i] EXCEPT !.delta = @ - (d - u[k])] ELSE b[i]]
           f == [i \in 0..n + 1 |-> IF i <= k THEN u[i] ELSE IF i = k + 1 THEN d ELSE u[i - 1]]
<1>1. n \in Nat /\ \A i \in 1..n : q[i] \in Entries /\ q[i].delta \in Nat
  BY ListParts
<1>2. k \in 0..n /\ \A i \in 1..n : i <= k <=> u[i] <= d
  BY PlaceIs
<1>3. /\ \A i \in 0..n : u[i] \in Nat
      /\ u[0] = 0 /\ \A i \in 1..n : u[i] = u[i - 1] + q[i].delta
  BY UntilRises, UntilAdds
<1>4. /\ a \in Seq(Entries) /\ Len(a) = k /\ \A i \in 1..k : a[i] = q[i]
      /\ b \in Seq(Entries) /\ Len(b) = n - k /\ DOMAIN b = 1..n - k
      /\ \A i \in 1..n - k : b[i] = q[k + i] /\ b[i] \in Entries
  <2>1. k \in Int /\ 0 <= k /\ k <= k /\ k <= Len(q)
    BY <1>1, <1>2
  <2> HIDE DEF k
  <2> QED
    BY <2>1, Parts
<1>5. r = a \o <<x>> \o s
  BY DEF Inserted
<1> HIDE DEF n, u, k, r, a, b
<1>6. u[k] <= d /\ u[k] \in Nat /\ d - u[k] \in Nat
  BY <1>1, <1>2, <1>3
<1>7. x \in Entries
  BY <1>6 DEF Entries
<1>8. k < n => q[k + 1].delta + c \in Nat
  <2> SUFFICES ASSUME k < n PROVE q[k + 1].delta + c \in Nat
    OBVIOUS
  <2>1. k + 1 \in 1..n /\ k + 1 \in 0..n /\ (k + 1) - 1 = k /\ ~(k + 1 <= k)
    BY <1>1, <1>2
  <2>2. ~(u[k + 1] <= d) /\ u[k + 1] = u[k] + q[k + 1].delta /\ u[k + 1] \in Nat
    BY <1>2, <1>3, <2>1
  <2>3. q[k + 1].delta \in Nat
    BY <1>1, <2>1
  <2> DEFINE v == u[k + 1]
             w == u[k]
             z == q[k + 1].delta
  <2>4. ~(v <= d) /\ v = w + z /\ v \in Nat /\ w \in Nat /\ z \in Nat
    BY <1>6, <2>2, <2>3
  <2> HIDE DEF v, w, z
  <2>5. z + (w - d) \in Nat
    BY <2>4
  <2> QED
    BY <2>5 DEF z, w
<1>9. Len(b) > 0 => b[1].delta + c \in Nat
  BY <1>1, <1>2, <1>4, <1>8
<1>10. /\ s \in Seq(Entries) /\ Len(s) = n - k
       /\ \A i \in 1..n - k : /\ s[i].task = b[i].task
                              /\ s[i].delta = IF i = 1 THEN b[i].delta + c ELSE b[i].delta
  <2>1. n - k \in Nat
    BY <1>1, <1>2
  <2>2. \A i \in 1..n - k : b[i].delta - (d - u[k]) = b[i].delta + c /\ b[i].delta \in Nat /\ b[i].task \in Tasks
    BY <1>4, <1>6 DEF Entries
  <2>3. \A i \in 1..n - k :
          s[i] = [task |-> b[i].task, delta |-> IF i = 1 THEN b[i].delta + c ELSE b[i].delta]
    BY <1>4, <2>2 DEF Entries
  <2>4. s = [i \in 1..n - k |-> s[i]]
    BY <1>4
  <2>5. \A i \in 1..n - k : i = 1 => b[i].delta + c \in Nat
    BY <1>4, <1>9, <2>1
  <2> HIDE DEF c, s
  <2>6. ASSUME NEW i \in 1..n - k PROVE s[i] \in Entries
    <3> DEFINE y == IF i = 1 THEN b[i].delta + c ELSE b[i].delta
    <3>1. y \in Nat
      BY <2>2, <2>5
    <3>2. s[i] = [task |-> b[i].task, delta |-> y] /\ b[i].task \in Tasks
      BY <2>2, <2>3
    <3> HIDE DEF y
    <3> QED
      BY <3>1, <3>2 DEF Entries
  <2>7. s \in Seq(Entries) /\ Len(s) = n - k
    BY <2>1, <2>4, <2>6, IsList
  <2> QED
    BY <2>3, <2>7
<1> HIDE DEF x, s
<1>11. /\ r \in Seq(Entries) /\ Len(r) = k + 1 + (n - k)
       /\ \A i \in 1..k : r[i] = a[i]
       /\ r[k + 1] = x
       /\ \A i \in 1..n - k : r[k + 1 + i] = s[i]
  <2>1. /\ r \in Seq(Entries) /\ Len(r) = Len(a) + 1 + Len(s)
        /\ \A i \in 1..Len(a) : r[i] = a[i]
        /\ r[Len(a) + 1] = x
        /\ \A i \in 1..Len(s) : r[Len(a) + 1 + i] = s[i]
    <3>1. a \in Seq(Entries) /\ s \in Seq(Entries)
      BY <1>4, <1>10
    <3> QED
      BY <1>5, <1>7, <3>1, Joined
  <2> QED
    BY <1>4, <1>10, <2>1
<1>12. Len(r) = n + 1
  BY <1>1, <1>2, <1>11
<1>13. \A i \in k + 1..n : /\ i - k \in 1..n - k /\ k + 1 + (i - k) = i + 1 /\ k + (i - k) = i
                           /\ i \in 1..n /\ (i - k = 1 <=> i = k + 1)
  BY <1>1, <1>2
<1>14. \A i \in k + 1..n : /\ r[i + 1].task = q[i].task
                           /\ r[i + 1].delta = IF i = k + 1 THEN q[i].delta + c ELSE q[i].delta
  <2> SUFFICES ASSUME NEW i \in k + 1..n
               PROVE  /\ r[i + 1].task = q[i].task
                      /\ r[i + 1].delta = IF i = k + 1 THEN q[i].delta + c ELSE q[i].delta
    OBVIOUS
  <2> DEFINE j == i - k
  <2>2. j \in 1..n - k /\ k + 1 + j = i + 1 /\ k + j = i
    BY <1>13
  <2>3. r[k + 1 + j] = s[j] /\ b[j] = q[k + j]
    BY <1>4, <1>11, <2>2
  <2> HIDE DEF j
  <2>1. r[i + 1] = s[i - k] /\ b[i - k] = q[i]
    BY <2>2, <2>3 DEF j
  <2> QED
    BY <1>10, <1>13, <2>1
<1>15. \A i \in 1..k : r[i] = q[i]
  BY <1>4, <1>11
<1>16. r[k + 1].task = t /\ r[k + 1].delta = d - u[k]
  BY <1>11 DEF x
<1>17. f[0] = 0 /\ f = [i \in 0..Len(r) |-> f[i]]
  BY <1>1, <1>2, <1>3, <1>12
<1>18. \A i \in 1..Len(r) : f[i] = f[i - 1] + r[i].delta
  <2> SUFFICES ASSUME NEW i \in 1..n + 1 PROVE f[i] = f[i - 1] + r[i].delta
    BY <1>12
  <2>1. CASE i <= k
    <3>1. f[i] = u[i] /\ f[i - 1] = u[i - 1] /\ i \in 1..n /\ r[i] = q[i]
      BY <1>1, <1>2, <1>15, <2>1
    <3> QED
      BY <1>3, <3>1
  <2>2. CASE i = k + 1
    <3>1. f[i] = d /\ f[i - 1] = u[k]
      BY <1>1, <1>2, <2>2
    <3> HIDE DEF f
    <3> QED
      BY <1>6, <1>16, <2>2, <3>1
  <2>3. CASE i = k + 2
    <3>1. k + 1 \in k + 1..n /\ k + 1 \in 1..n /\ (k + 1) + 1 = i /\ (k + 1) - 1 = k /\ i - 1 = k + 1
      BY <1>1, <1>2, <2>3
    <3>2. f[i] = u[k + 1] /\ f[i - 1] = d
      BY <1>1, <1>2, <2>3
    <3>3. r[i].delta = q[k + 1].delta + c
      BY <1>14, <3>1
    <3>4. u[k + 1] = u[k] + q[k + 1].delta /\ q[k + 1].delta \in Nat
      BY <1>1, <1>3, <3>1
    <3> DEFINE v == u[k + 1]
               w == u[k]
               z == q[k + 1].delta
    <3>5. f[i] = v /\ f[i - 1] = d /\ r[i].delta = z + (w - d) /\ v = w + z /\ w \in Nat /\ z \in Nat
      BY <1>6, <3>2, <3>3, <3>4
    <3> HIDE DEF f, v, w, z
    <3>6. v = d + (z + (w - d))
      BY <3>5
    <3> QED
      BY <3>5, <3>6
  <2>4. CASE i > k + 2
    <3>1. i - 1 \in k + 1..n /\ i - 1 \in 1..n /\ (i - 1) + 1 = i /\ i - 1 # k + 1
      BY <1>1, <1>2, <2>4
    <3>2. f[i] = u[i - 1] /\ f[i - 1] = u[(i - 1) - 1]
      BY <1>1, <1>2, <2>4
    <3>3. r[i].delta = q[i - 1].delta
      BY <1>14, <3>1
    <3>4. u[i - 1] = u[(i - 1) - 1] + q[i - 1].delta
      BY <1>3, <3>1
    <3> HIDE DEF f
    <3> QED
      BY <3>2, <3>3, <3>4
  <2>5. i <= k \/ i = k + 1 \/ i = k + 2 \/ i > k + 2
    BY <1>1, <1>2
  <2> QED
    BY <2>1, <2>2, <2>3, <2>4, <2>5
<1>19. \A i \in 0..n + 1 : Until(r)[i] = f[i]
  <2> HIDE DEF f
  <2>1. \A i \in 0..Len(r) : Until(r)[i] = f[i]
    BY <1>11, <1>17, <1>18, UntilIs
  <2> QED
    BY <1>12, <2>1
<1>20. \A i \in 0..k : Until(r)[i] = u[i]
  BY <1>1, <1>2, <1>19
<1>21. Until(r)[k + 1] = d
  BY <1>1, <1>2, <1>19
<1>22. \A i \in k + 1..n : Until(r)[i + 1] = u[i]
  BY <1>1, <1>2, <1>19
<1> HIDE DEF f
<1> QED
  BY <1>11, <1>12, <1>14, <1>15, <1>16, <1>20, <1>21, <1>22 DEF GoesBehind, n, u, k, r

\* The list r is q without the entry k.
GoesOn(r, q, k) ==
  /\ Len(r) = Len(q) - 1
  /\ \A i \in 1..k - 1 : r[i].task = q[i].task /\ Until(r)[i] = Until(q)[i]
  /\ \A i \in k..Len(q) - 1 : r[i].task = q[i + 1].task /\ Until(r)[i] = Until(q)[i + 1]

\* removeEntry() leaves the sums of the others.
LEMMA RemovedTells ==
  ASSUME NEW q \in Seq(Entries), NEW k \in 1..Len(q)
  PROVE  Removed(q, k) \in Seq(Entries) /\ GoesOn(Removed(q, k), q, k)
<1> DEFINE n == Len(q)
           u == Until(q)
           r == Removed(q, k)
           a == SubSeq(q, 1, k - 1)
           b == SubSeq(q, k + 1, n)
           c == q[k].delta
           s == [i \in DOMAIN b |-> IF i = 1 THEN [b[i] EXCEPT !.delta = @ + c] ELSE b[i]]
           f == [i \in 0..n - 1 |-> IF i < k THEN u[i] ELSE u[i + 1]]
<1>1. n \in Nat /\ \A i \in 1..n : q[i] \in Entries /\ q[i].delta \in Nat
  BY ListParts
<1>2. k \in Nat /\ k >= 1 /\ k <= n /\ k \in 1..n
  BY <1>1
<1>3. /\ \A i \in 0..n : u[i] \in Nat
      /\ u[0] = 0 /\ \A i \in 1..n : u[i] = u[i - 1] + q[i].delta
  BY UntilRises, UntilAdds
<1>4. /\ a \in Seq(Entries) /\ Len(a) = k - 1 /\ \A i \in 1..k - 1 : a[i] = q[i]
      /\ b \in Seq(Entries) /\ Len(b) = n - k /\ DOMAIN b = 1..n - k
      /\ \A i \in 1..n - k : b[i] = q[k + i] /\ b[i] \in Entries
  BY <1>1, <1>2, Parts
<1>5. r = a \o s
  BY DEF Removed
<1> HIDE DEF n, u, r, a, b
<1>6. c \in Nat
  BY <1>1, <1>2
<1>8. /\ s \in Seq(Entries) /\ Len(s) = n - k
      /\ \A i \in 1..n - k : /\ s[i].task = b[i].task
                             /\ s[i].delta = IF i = 1 THEN b[i].delta + c ELSE b[i].delta
  <2>1. n - k \in Nat
    BY <1>1, <1>2
  <2>2. \A i \in 1..n - k : b[i].delta \in Nat /\ b[i].task \in Tasks
    BY <1>4 DEF Entries
  <2>3. \A i \in 1..n - k :
          s[i] = [task |-> b[i].task, delta |-> IF i = 1 THEN b[i].delta + c ELSE b[i].delta]
    BY <1>4 DEF Entries
  <2>4. s = [i \in 1..n - k |-> s[i]]
    BY <1>4
  <2>5. \A i \in 1..n - k : b[i].delta + c \in Nat
    BY <1>6, <2>2
  <2> HIDE DEF c, s
  <2>6. ASSUME NEW i \in 1..n - k PROVE s[i] \in Entries
    <3> DEFINE y == IF i = 1 THEN b[i].delta + c ELSE b[i].delta
    <3>1. y \in Nat
      BY <2>2, <2>5
    <3>2. s[i] = [task |-> b[i].task, delta |-> y] /\ b[i].task \in Tasks
      BY <2>2, <2>3
    <3> HIDE DEF y
    <3> QED
      BY <3>1, <3>2 DEF Entries
  <2>7. s \in Seq(Entries) /\ Len(s) = n - k
    BY <2>1, <2>4, <2>6, IsList
  <2> QED
    BY <2>3, <2>7
<1> HIDE DEF s
<1>9. /\ r \in Seq(Entries) /\ Len(r) = Len(a) + Len(s)
      /\ \A i \in 1..Len(a) + Len(s) : r[i] = IF i <= Len(a) THEN a[i] ELSE s[i - Len(a)]
  BY <1>4, <1>5, <1>8, ConcatProperties
<1>10. Len(r) = n - 1 /\ \A i \in 1..n - 1 : r[i] = IF i <= k - 1 THEN a[i] ELSE s[i - (k - 1)]
  BY <1>1, <1>2, <1>4, <1>8, <1>9
<1>11. \A i \in 1..k - 1 : r[i] = q[i]
  BY <1>1, <1>2, <1>4, <1>10
<1>12. \A i \in k..n - 1 : /\ i - (k - 1) \in 1..n - k /\ k + (i - (k - 1)) = i + 1
                           /\ i + 1 \in 1..n /\ i \in 1..n - 1 /\ ~(i <= k - 1)
                           /\ (i - (k - 1) = 1 <=> i = k)
  BY <1>1, <1>2
<1>13. \A i \in k..n - 1 : /\ r[i].task = q[i + 1].task
                           /\ r[i].delta = IF i = k THEN q[i + 1].delta + c ELSE q[i + 1].delta
  <2> SUFFICES ASSUME NEW i \in k..n - 1
               PROVE  /\ r[i].task = q[i + 1].task
                      /\ r[i].delta = IF i = k THEN q[i + 1].delta + c ELSE q[i + 1].delta
    OBVIOUS
  <2>1. r[i] = s[i - (k - 1)] /\ b[i - (k - 1)] = q[i + 1]
    BY <1>4, <1>10, <1>12
  <2> QED
    BY <1>8, <1>12, <2>1
<1>14. f[0] = 0 /\ f = [i \in 0..Len(r) |-> f[i]]
  BY <1>1, <1>2, <1>3, <1>10
<1>15. \A i \in 1..Len(r) : f[i] = f[i - 1] + r[i].delta
  <2> SUFFICES ASSUME NEW i \in 1..n - 1 PROVE f[i] = f[i - 1] + r[i].delta
    BY <1>10
  <2>1. CASE i < k
    <3>1. f[i] = u[i] /\ f[i - 1] = u[i - 1] /\ i \in 1..n /\ r[i] = q[i]
      BY <1>1, <1>2, <1>11, <2>1
    <3> QED
      BY <1>3, <3>1
  <2>2. CASE i = k
    <3>1. f[i] = u[k + 1] /\ f[i - 1] = u[k - 1] /\ k + 1 \in 1..n /\ (k + 1) - 1 = k /\ i \in k..n - 1
          /\ k - 1 \in 0..n
      BY <1>1, <1>2, <2>2
    <3>2. u[k + 1] = u[k] + q[k + 1].delta /\ u[k] = u[k - 1] + c
      BY <1>2, <1>3, <3>1
    <3>3. r[i].delta = q[k + 1].delta + c
      BY <1>13, <2>2, <3>1
    <3>4. u[k - 1] \in Nat /\ q[k + 1].delta \in Nat
      BY <1>1, <1>3, <3>1
    <3> HIDE DEF f, c
    <3> QED
      BY <1>6, <3>1, <3>2, <3>3, <3>4
  <2>3. CASE i > k
    <3>1. f[i] = u[i + 1] /\ f[i - 1] = u[(i - 1) + 1] /\ (i - 1) + 1 = (i + 1) - 1
          /\ i + 1 \in 1..n /\ i \in k..n - 1 /\ i # k
      BY <1>1, <1>2, <2>3
    <3>2. r[i].delta = q[i + 1].delta
      BY <1>13, <3>1
    <3>3. u[i + 1] = u[(i + 1) - 1] + q[i + 1].delta
      BY <1>3, <3>1
    <3> HIDE DEF f
    <3> QED
      BY <3>1, <3>2, <3>3
  <2>4. i < k \/ i = k \/ i > k
    BY <1>2
  <2> QED
    BY <2>1, <2>2, <2>3, <2>4
<1>16. \A i \in 0..n - 1 : Until(r)[i] = f[i]
  <2> HIDE DEF f
  <2>1. \A i \in 0..Len(r) : Until(r)[i] = f[i]
    BY <1>9, <1>14, <1>15, UntilIs
  <2> QED
    BY <1>10, <2>1
<1>17. \A i \in 1..k - 1 : Until(r)[i] = u[i]
  BY <1>1, <1>2, <1>16
<1>18. \A i \in k..n - 1 : Until(r)[i] = u[i + 1]
  BY <1>1, <1>2, <1>16
<1> HIDE DEF f
<1> QED
  BY <1>9, <1>10, <1>11, <1>13, <1>17, <1>18 DEF GoesOn, n, u, r

(***************************************************************************)
(* The list tells the truth.                                               *)
(***************************************************************************)

\* What DeltasTell says of the list q at the time m, when the tasks are due as d
\* says and behind those of b; and no task is in it twice.
Tells(q, m, d, b) ==
  \A i \in 1..Len(q) :
    /\ Until(q)[i] = Left(d[q[i].task].measured - m)
    /\ b[q[i].task] = {q[j].task : j \in 1..i - 1}
    /\ \A j \in 1..Len(q) : q[j].task = q[i].task => j = i

Dues    == [Tasks -> [measured : Nat, time : Nat]]
Befores == [Tasks -> SUBSET Tasks]

\* Time that passes is taken off.
LEMMA ElapsedKeeps ==
  ASSUME NEW q \in Seq(Entries), NEW m \in Nat, NEW d \in Dues, NEW b \in Befores, NEW e \in Nat,
         Tells(q, m, d, b)
  PROVE  Tells(Elapsed(q, e), m + e, d, b)
<1> DEFINE n == Len(q)
           u == Until(q)
           r == Elapsed(q, e)
           v == Until(r)
<1>1. n \in Nat /\ \A i \in 1..n : q[i].task \in Tasks /\ i \in 0..n
  BY ListParts
<1>2. Len(r) = n /\ (\A i \in 1..n : r[i].task = q[i].task) /\ \A i \in 0..n : v[i] = Left(u[i] - e)
  BY ElapsedTells
<1>3. \A i \in 1..n : /\ u[i] = Left(d[q[i].task].measured - m)
                      /\ b[q[i].task] = {q[j].task : j \in 1..i - 1}
                      /\ \A j \in 1..n : q[j].task = q[i].task => j = i
  BY DEF Tells
<1>4. \A i \in 1..n : d[q[i].task].measured \in Nat
  BY <1>1 DEF Dues
<1> HIDE DEF n, u, v
<1>5. ASSUME NEW i \in 1..n PROVE v[i] = Left(d[r[i].task].measured - (m + e))
  <2> DEFINE x == d[q[i].task].measured
  <2>1. v[i] = Left(Left(x - m) - e) /\ x \in Nat
    BY <1>1, <1>2, <1>3, <1>4
  <2>2. r[i].task = q[i].task
    BY <1>2
  <2> HIDE DEF x
  <2>3. Left(Left(x - m) - e) = Left(x - (m + e))
    BY <2>1 DEF Left
  <2> QED
    BY <2>1, <2>2, <2>3 DEF x
<1>6. ASSUME NEW i \in 1..n PROVE b[r[i].task] = {r[j].task : j \in 1..i - 1}
  <2>1. \A j \in 1..i - 1 : r[j].task = q[j].task
    BY <1>1, <1>2
  <2>2. {r[j].task : j \in 1..i - 1} = {q[j].task : j \in 1..i - 1}
    BY <2>1
  <2> QED
    BY <1>2, <1>3, <2>2
<1>7. \A i, j \in 1..n : r[j].task = r[i].task => j = i
  BY <1>2, <1>3
<1> HIDE DEF r
<1>8. \A i \in 1..Len(r) : /\ Until(r)[i] = Left(d[r[i].task].measured - (m + e))
                           /\ b[r[i].task] = {r[j].task : j \in 1..i - 1}
                           /\ \A j \in 1..Len(r) : r[j].task = r[i].task => j = i
  BY <1>2, <1>5, <1>6, <1>7 DEF v
<1> QED
  BY <1>8 DEF Tells, r

\* The task t is scheduled.
LEMMA InsertedKeeps ==
  ASSUME NEW q \in Seq(Entries), NEW m \in Nat, NEW d \in Dues, NEW b \in Befores,
         NEW t \in Tasks, NEW x \in Nat, NEW d2, NEW b2, NEW S, NEW earlier,
         \A i \in 1..Len(q) : q[i].task \in S, \A w \in S : \E i \in 1..Len(q) : w = q[i].task,
         t \notin S,
         earlier \subseteq S, \A w \in S : w \in earlier <=> d[w].measured <= m + x,
         d2[t].measured = m + x, \A w \in Tasks \ {t} : d2[w] = d[w],
         \A w \in Tasks : b2[w] = IF w = t THEN earlier ELSE IF w \in S \ earlier THEN b[w] \cup {t} ELSE b[w],
         Tells(q, m, d, b)
  PROVE  Tells(Inserted(q, t, x), m, d2, b2)
<1> DEFINE n == Len(q)
           u == Until(q)
           k == Place(q, x)
           r == Inserted(q, t, x)
           v == Until(r)
<1>1. n \in Nat /\ \A i \in 1..n : q[i].task \in Tasks
  BY ListParts
<1>2. k \in 0..n /\ \A i \in 1..n : i <= k <=> u[i] <= x
  BY PlaceIs
<1>3. /\ Len(r) = n + 1
      /\ \A i \in 1..k : r[i].task = q[i].task
      /\ r[k + 1].task = t
      /\ \A i \in k + 1..n : r[i + 1].task = q[i].task
      /\ \A i \in 0..k : v[i] = u[i]
      /\ v[k + 1] = x
      /\ \A i \in k + 1..n : v[i + 1] = u[i]
  <2>1. GoesBehind(r, q, k, t, x)
    BY InsertedTells
  <2> HIDE DEF r, k
  <2> QED
    BY <2>1 DEF GoesBehind
<1>4. \A i \in 1..n : /\ u[i] = Left(d[q[i].task].measured - m)
                      /\ b[q[i].task] = {q[j].task : j \in 1..i - 1}
                      /\ \A j \in 1..n : q[j].task = q[i].task => j = i
  BY DEF Tells
<1>5. \A i \in 1..n : d[q[i].task].measured \in Nat
  BY <1>1 DEF Dues
<1>6. \A i \in 1..n : q[i].task # t /\ q[i].task \in S
  OBVIOUS
<1>7. \A i \in 1..n : d2[q[i].task] = d[q[i].task]
  BY <1>1, <1>6
<1> HIDE DEF n, u, k, r, v
<1>8. \A i \in 1..n : q[i].task \in earlier <=> i <= k
  <2> SUFFICES ASSUME NEW i \in 1..n PROVE q[i].task \in earlier <=> u[i] <= x
    BY <1>2
  <2>1. q[i].task \in earlier <=> d[q[i].task].measured <= m + x
    BY <1>6
  <2>2. u[i] = Left(d[q[i].task].measured - m) /\ d[q[i].task].measured \in Nat
    BY <1>4, <1>5
  <2> QED
    BY <2>1, <2>2 DEF Left
<1>9. earlier = {q[j].task : j \in 1..k}
  <2>1. \A w \in earlier : \E j \in 1..n : w = q[j].task
    BY DEF n
  <2>2. \A w \in earlier : \E j \in 1..k : w = q[j].task
    BY <1>1, <1>2, <1>8, <2>1
  <2>3. \A j \in 1..k : q[j].task \in earlier
    BY <1>1, <1>2, <1>8
  <2> QED
    BY <2>2, <2>3
<1>10. ASSUME NEW i \in 1..k
       PROVE  /\ v[i] = Left(d2[r[i].task].measured - m)
              /\ b2[r[i].task] = {r[j].task : j \in 1..i - 1}
  <2>1. i \in 1..n /\ i \in 0..k /\ i <= k /\ \A j \in 1..i - 1 : j \in 1..k
    BY <1>1, <1>2
  <2>2. r[i].task = q[i].task /\ v[i] = u[i] /\ q[i].task \in Tasks /\ q[i].task # t
    BY <1>1, <1>3, <1>6, <2>1
  <2>3. b2[q[i].task] = b[q[i].task]
    BY <1>8, <2>1, <2>2
  <2>4. {r[j].task : j \in 1..i - 1} = {q[j].task : j \in 1..i - 1}
    <3>1. \A j \in 1..i - 1 : r[j].task = q[j].task
      BY <1>3, <2>1
    <3> QED
      BY <3>1
  <2>5. u[i] = Left(d[q[i].task].measured - m) /\ d2[q[i].task] = d[q[i].task]
    BY <1>4, <1>7, <2>1
  <2>6. b[q[i].task] = {q[j].task : j \in 1..i - 1}
    BY <1>4, <2>1
  <2> QED
    BY <2>2, <2>3, <2>4, <2>5, <2>6
<1>11. /\ v[k + 1] = Left(d2[r[k + 1].task].measured - m)
       /\ b2[r[k + 1].task] = {r[j].task : j \in 1..k}
  <2>1. Left((m + x) - m) = x
    BY DEF Left
  <2>2. {r[j].task : j \in 1..k} = {q[j].task : j \in 1..k}
    <3>1. \A j \in 1..k : r[j].task = q[j].task
      BY <1>3
    <3> DEFINE A == {r[j].task : j \in 1..k}
               B == {q[j].task : j \in 1..k}
    <3>2. \A w : w \in A <=> w \in B
      BY <3>1
    <3> HIDE DEF A, B
    <3>3. A = B
      BY <3>2
    <3> QED
      BY <3>3 DEF A, B
  <2>3. r[k + 1].task = t /\ v[k + 1] = x /\ b2[t] = earlier
    BY <1>3
  <2>4. d2[t].measured - m = (m + x) - m
    OBVIOUS
  <2> QED
    BY <1>9, <2>1, <2>2, <2>3, <2>4
<1>12. ASSUME NEW i \in k + 1..n
       PROVE  /\ v[i + 1] = Left(d2[r[i + 1].task].measured - m)
              /\ b2[r[i + 1].task] = {r[j].task : j \in 1..i}
  <2>1. i \in 1..n /\ ~(i <= k)
    BY <1>1, <1>2
  <2>2. r[i + 1].task = q[i].task /\ v[i + 1] = u[i] /\ q[i].task \in Tasks /\ q[i].task # t
    BY <1>1, <1>3, <1>6, <2>1
  <2>3. b2[q[i].task] = b[q[i].task] \cup {t}
    BY <1>6, <1>8, <2>1, <2>2
  <2>4. \A j \in 1..i : \/ j \in 1..k /\ j \in 1..i - 1 /\ r[j].task = q[j].task
                        \/ j = k + 1 /\ r[j].task = t
                        \/ j - 1 \in 1..i - 1 /\ j - 1 \in k + 1..n /\ r[j].task = q[j - 1].task
    <3> SUFFICES ASSUME NEW j \in 1..i
                 PROVE  \/ j \in 1..k /\ j \in 1..i - 1 /\ r[j].task = q[j].task
                        \/ j = k + 1 /\ r[j].task = t
                        \/ j - 1 \in 1..i - 1 /\ j - 1 \in k + 1..n /\ r[j].task = q[j - 1].task
      OBVIOUS
    <3>1. CASE j <= k
      BY <1>1, <1>2, <1>3, <2>1, <3>1
    <3>2. CASE j = k + 1
      BY <1>3, <3>2
    <3>3. CASE j > k + 1
      <4>1. j - 1 \in 1..i - 1 /\ j - 1 \in k + 1..n /\ (j - 1) + 1 = j
        BY <1>1, <1>2, <2>1, <3>3
      <4> QED
        BY <1>3, <4>1
    <3> QED
      BY <1>1, <1>2, <3>1, <3>2, <3>3
  <2>5. \A j \in 1..i - 1 : \E h \in 1..i : r[h].task = q[j].task
    <3> SUFFICES ASSUME NEW j \in 1..i - 1 PROVE \E h \in 1..i : r[h].task = q[j].task
      OBVIOUS
    <3>1. CASE j <= k
      BY <1>1, <1>2, <1>3, <2>1, <3>1
    <3>2. CASE j > k
      <4>1. j \in k + 1..n /\ j + 1 \in 1..i
        BY <1>1, <1>2, <2>1, <3>2
      <4> QED
        BY <1>3, <4>1
    <3> QED
      BY <1>1, <1>2, <3>1, <3>2
  <2>6. k + 1 \in 1..i
    BY <1>1, <1>2
  <2>7. {r[j].task : j \in 1..i} = {q[j].task : j \in 1..i - 1} \cup {t}
    <3>1. \A w \in {r[j].task : j \in 1..i} : w = t \/ \E j \in 1..i - 1 : w = q[j].task
      BY <2>4
    <3>2. \A w \in {q[j].task : j \in 1..i - 1} : w \in {r[j].task : j \in 1..i}
      BY <2>5
    <3>3. t \in {r[j].task : j \in 1..i}
      BY <1>3, <2>6
    <3> QED
      BY <3>1, <3>2, <3>3
  <2>8. u[i] = Left(d[q[i].task].measured - m) /\ d2[q[i].task] = d[q[i].task]
    BY <1>4, <1>7, <2>1
  <2>9. b[q[i].task] = {q[j].task : j \in 1..i - 1}
    BY <1>4, <2>1
  <2> QED
    BY <2>2, <2>3, <2>7, <2>8, <2>9
<1>13. \A i \in 1..n + 1 : \/ i \in 1..k /\ i \in 1..n /\ r[i].task = q[i].task
                           \/ i = k + 1 /\ r[i].task = t
                           \/ i - 1 \in k + 1..n /\ i - 1 \in 1..n /\ (i - 1) + 1 = i
                              /\ r[i].task = q[i - 1].task
  <2> SUFFICES ASSUME NEW i \in 1..n + 1
               PROVE  \/ i \in 1..k /\ i \in 1..n /\ r[i].task = q[i].task
                      \/ i = k + 1 /\ r[i].task = t
                      \/ i - 1 \in k + 1..n /\ i - 1 \in 1..n /\ (i - 1) + 1 = i
                         /\ r[i].task = q[i - 1].task
    OBVIOUS
  <2>1. \/ i \in 1..k /\ i \in 1..n
        \/ i = k + 1
        \/ i - 1 \in k + 1..n /\ i - 1 \in 1..n /\ (i - 1) + 1 = i
    BY <1>1, <1>2
  <2> QED
    BY <1>3, <2>1
<1>14. \A i, j \in 1..n + 1 : r[j].task = r[i].task => j = i
  <2> SUFFICES ASSUME NEW i \in 1..n + 1, NEW j \in 1..n + 1, r[j].task = r[i].task PROVE j = i
    OBVIOUS
  <2>1. \A h, g \in 1..n : q[g].task = q[h].task => g = h
    BY <1>4
  <2>2. \A h \in 1..k, g \in k + 1..n : h \in 1..n /\ g \in 1..n /\ h # g
    BY <1>1, <1>2
  <2>3. \A h \in 1..n : q[h].task # t
    BY <1>6
  <2>4. CASE i \in 1..k /\ i \in 1..n /\ r[i].task = q[i].task
    <3>1. j # k + 1 /\ ~(j - 1 \in k + 1..n /\ r[j].task = q[j - 1].task)
      BY <1>3, <2>1, <2>2, <2>3, <2>4
    <3> QED
      BY <1>13, <2>1, <2>4, <3>1
  <2>5. CASE i = k + 1 /\ r[i].task = t
    BY <1>13, <2>3, <2>5
  <2>6. CASE i - 1 \in k + 1..n /\ i - 1 \in 1..n /\ (i - 1) + 1 = i /\ r[i].task = q[i - 1].task
    <3>1. j # k + 1 /\ ~(j \in 1..k /\ r[j].task = q[j].task)
      BY <1>3, <2>1, <2>2, <2>3, <2>6
    <3>2. j - 1 \in 1..n /\ (j - 1) + 1 = j /\ r[j].task = q[j - 1].task
      BY <1>13, <3>1
    <3>3. j - 1 = i - 1
      BY <2>1, <2>6, <3>2
    <3> QED
      BY <2>6, <3>2, <3>3
  <2> QED
    BY <1>13, <2>4, <2>5, <2>6
<1>15. \A i \in 1..n + 1 : /\ v[i] = Left(d2[r[i].task].measured - m)
                           /\ b2[r[i].task] = {r[j].task : j \in 1..i - 1}
  <2> SUFFICES ASSUME NEW i \in 1..n + 1
               PROVE  /\ v[i] = Left(d2[r[i].task].measured - m)
                      /\ b2[r[i].task] = {r[j].task : j \in 1..i - 1}
    OBVIOUS
  <2>1. CASE i \in 1..k
    BY <1>10, <2>1
  <2>2. CASE i = k + 1
    <3>1. i - 1 = k
      BY <1>1, <1>2, <2>2
    <3> QED
      BY <1>11, <2>2, <3>1
  <2>3. CASE i - 1 \in k + 1..n /\ (i - 1) + 1 = i
    BY <1>12, <2>3
  <2> QED
    BY <1>13, <2>1, <2>2, <2>3
<1>16. \A i \in 1..Len(r) : /\ Until(r)[i] = Left(d2[r[i].task].measured - m)
                            /\ b2[r[i].task] = {r[j].task : j \in 1..i - 1}
                            /\ \A j \in 1..Len(r) : r[j].task = r[i].task => j = i
  BY <1>3, <1>14, <1>15 DEF v
<1> QED
  BY <1>16 DEF Tells, r

\* The entry k leaves the list.
LEMMA RemovedKeeps ==
  ASSUME NEW q \in Seq(Entries), NEW m \in Nat, NEW d \in Dues, NEW b \in Befores,
         NEW k \in 1..Len(q), NEW t, t = q[k].task, NEW d2, NEW b2,
         \A w \in Tasks \ {t} : d2[w] = d[w] /\ b2[w] = b[w] \ {t},
         Tells(q, m, d, b)
  PROVE  Tells(Removed(q, k), m, d2, b2)
<1> DEFINE n == Len(q)
           u == Until(q)
           r == Removed(q, k)
           v == Until(r)
<1>1. n \in Nat /\ \A i \in 1..n : q[i].task \in Tasks
  BY ListParts
<1>2. k \in Nat /\ k >= 1 /\ k <= n /\ k \in 1..n
  BY <1>1
<1>3. /\ Len(r) = n - 1
      /\ \A i \in 1..k - 1 : r[i].task = q[i].task /\ v[i] = u[i]
      /\ \A i \in k..n - 1 : r[i].task = q[i + 1].task /\ v[i] = u[i + 1]
  <2>1. GoesOn(r, q, k)
    BY RemovedTells
  <2> HIDE DEF r
  <2> QED
    BY <2>1 DEF GoesOn
<1>4. \A i \in 1..n : /\ u[i] = Left(d[q[i].task].measured - m)
                      /\ b[q[i].task] = {q[j].task : j \in 1..i - 1}
                      /\ \A j \in 1..n : q[j].task = q[i].task => j = i
  BY DEF Tells
<1> HIDE DEF n, u, r, v
<1>5. \A i \in 1..n : i # k => /\ q[i].task # t /\ d2[q[i].task] = d[q[i].task]
                               /\ b2[q[i].task] = b[q[i].task] \ {t}
  BY <1>1, <1>2, <1>4
<1>6. ASSUME NEW i \in 1..k - 1
      PROVE  /\ v[i] = Left(d2[r[i].task].measured - m)
             /\ b2[r[i].task] = {r[j].task : j \in 1..i - 1}
  <2>1. i \in 1..n /\ i # k /\ \A j \in 1..i - 1 : j \in 1..k - 1 /\ j \in 1..n /\ j # k
    BY <1>1, <1>2
  <2>2. r[i].task = q[i].task /\ v[i] = u[i]
    BY <1>3
  <2>3. u[i] = Left(d[q[i].task].measured - m) /\ d2[q[i].task] = d[q[i].task]
    BY <1>4, <1>5, <2>1
  <2>4. b[q[i].task] = {q[j].task : j \in 1..i - 1} /\ b2[q[i].task] = b[q[i].task] \ {t}
    BY <1>4, <1>5, <2>1
  <2>5. \A j \in 1..i - 1 : q[j].task # t /\ r[j].task = q[j].task
    BY <1>3, <1>5, <2>1
  <2>6. {r[j].task : j \in 1..i - 1} = {q[j].task : j \in 1..i - 1} \ {t}
    BY <2>5
  <2> QED
    BY <2>2, <2>3, <2>4, <2>6
<1>7. ASSUME NEW i \in k..n - 1
      PROVE  /\ v[i] = Left(d2[r[i].task].measured - m)
             /\ b2[r[i].task] = {r[j].task : j \in 1..i - 1}
  <2>1. i + 1 \in 1..n /\ i + 1 # k /\ (i + 1) - 1 = i
    BY <1>1, <1>2
  <2>2. r[i].task = q[i + 1].task /\ v[i] = u[i + 1]
    BY <1>3
  <2>3. u[i + 1] = Left(d[q[i + 1].task].measured - m) /\ d2[q[i + 1].task] = d[q[i + 1].task]
    BY <1>4, <1>5, <2>1
  <2>4. b[q[i + 1].task] = {q[j].task : j \in 1..i} /\ b2[q[i + 1].task] = b[q[i + 1].task] \ {t}
    BY <1>4, <1>5, <2>1
  <2>5. \A j \in 1..i - 1 : \E h \in 1..i : h # k /\ h \in 1..n /\ r[j].task = q[h].task
    <3> SUFFICES ASSUME NEW j \in 1..i - 1
                 PROVE  \E h \in 1..i : h # k /\ h \in 1..n /\ r[j].task = q[h].task
      OBVIOUS
    <3>1. CASE j < k
      <4>1. j \in 1..i /\ j # k /\ j \in 1..n /\ j \in 1..k - 1
        BY <1>1, <1>2, <3>1
      <4> QED
        BY <1>3, <4>1
    <3>2. CASE ~(j < k)
      <4>1. j + 1 \in 1..i /\ j + 1 # k /\ j + 1 \in 1..n /\ j \in k..n - 1
        BY <1>1, <1>2, <3>2
      <4> QED
        BY <1>3, <4>1
    <3> QED
      BY <3>1, <3>2
  <2>6. \A h \in 1..i : h # k => \E j \in 1..i - 1 : r[j].task = q[h].task
    <3> SUFFICES ASSUME NEW h \in 1..i, h # k PROVE \E j \in 1..i - 1 : r[j].task = q[h].task
      OBVIOUS
    <3>1. CASE h < k
      <4>1. h \in 1..i - 1 /\ h \in 1..k - 1
        BY <1>1, <1>2, <3>1
      <4> QED
        BY <1>3, <4>1
    <3>2. CASE ~(h < k)
      <4>1. h - 1 \in 1..i - 1 /\ h - 1 \in k..n - 1 /\ (h - 1) + 1 = h
        BY <1>1, <1>2, <3>2
      <4> QED
        BY <1>3, <4>1
    <3> QED
      BY <3>1, <3>2
  <2>7. {r[j].task : j \in 1..i - 1} = {q[j].task : j \in 1..i} \ {t}
    <3>1. ASSUME NEW j \in 1..i - 1 PROVE r[j].task # t /\ \E h \in 1..i : r[j].task = q[h].task
      <4>1. PICK h \in 1..i : h # k /\ h \in 1..n /\ r[j].task = q[h].task
        BY <2>5
      <4>2. q[h].task # t
        BY <1>5, <4>1
      <4> QED
        BY <4>1, <4>2
    <3>2. q[k].task = t
      OBVIOUS
    <3>3. \A h \in 1..i : q[h].task # t => \E j \in 1..i - 1 : r[j].task = q[h].task
      BY <2>6, <3>2
    <3> DEFINE A == {r[j].task : j \in 1..i - 1}
               B == {q[j].task : j \in 1..i}
    <3>4. \A w \in A : w \in B /\ w # t
      BY <3>1
    <3>5. \A w \in B : w # t => w \in A
      BY <3>3
    <3> HIDE DEF A, B
    <3>6. A = B \ {t}
      BY <3>4, <3>5
    <3> QED
      BY <3>6 DEF A, B
  <2> QED
    BY <2>2, <2>3, <2>4, <2>7
<1>8. \A i \in 1..n - 1 : \/ i \in 1..k - 1 /\ i \in 1..n /\ r[i].task = q[i].task
                          \/ i \in k..n - 1 /\ i + 1 \in 1..n /\ r[i].task = q[i + 1].task
  <2> SUFFICES ASSUME NEW i \in 1..n - 1
               PROVE  \/ i \in 1..k - 1 /\ i \in 1..n /\ r[i].task = q[i].task
                      \/ i \in k..n - 1 /\ i + 1 \in 1..n /\ r[i].task = q[i + 1].task
    OBVIOUS
  <2>1. (i \in 1..k - 1 /\ i \in 1..n) \/ (i \in k..n - 1 /\ i + 1 \in 1..n)
    BY <1>1, <1>2
  <2> QED
    BY <1>3, <2>1
<1>9. \A i, j \in 1..n - 1 : r[j].task = r[i].task => j = i
  <2> SUFFICES ASSUME NEW i \in 1..n - 1, NEW j \in 1..n - 1, r[j].task = r[i].task PROVE j = i
    OBVIOUS
  <2>1. \A h, g \in 1..n : q[g].task = q[h].task => g = h
    BY <1>4
  <2>2. CASE i \in 1..k - 1 /\ i \in 1..n /\ r[i].task = q[i].task
    <3>1. ~(j \in k..n - 1 /\ j + 1 \in 1..n /\ r[j].task = q[j + 1].task)
      BY <1>1, <1>2, <2>1, <2>2
    <3> QED
      BY <1>8, <2>1, <2>2, <3>1
  <2>3. CASE i \in k..n - 1 /\ i + 1 \in 1..n /\ r[i].task = q[i + 1].task
    <3>1. ~(j \in 1..k - 1 /\ j \in 1..n /\ r[j].task = q[j].task)
      BY <1>1, <1>2, <2>1, <2>3
    <3>2. j \in k..n - 1 /\ j + 1 \in 1..n /\ r[j].task = q[j + 1].task
      BY <1>8, <3>1
    <3>3. j + 1 = i + 1
      BY <2>1, <2>3, <3>2
    <3> QED
      BY <3>3
  <2> QED
    BY <1>8, <2>2, <2>3
<1>10. \A i \in 1..Len(r) : /\ Until(r)[i] = Left(d2[r[i].task].measured - m)
                            /\ b2[r[i].task] = {r[j].task : j \in 1..i - 1}
                            /\ \A j \in 1..Len(r) : r[j].task = r[i].task => j = i
  BY <1>3, <1>6, <1>7, <1>8, <1>9 DEF v
<1> QED
  BY <1>10 DEF Tells, r

\* What the list and the history are, type by type.
LEMMA DelayTypes ==
  ASSUME DelayTypeOK
  PROVE  /\ queue \in Seq(Entries) /\ Len(queue) \in Nat /\ DOMAIN queue = 1..Len(queue)
         /\ measured \in Nat /\ due \in Dues /\ before \in Befores
         /\ clock \in Int /\ fLastSyncTime \in Int /\ time \in Nat
         /\ Queued = {queue[i].task : i \in 1..Len(queue)} /\ Queued \subseteq Tasks
<1>1. /\ queue \in Seq(Entries) /\ measured \in Nat /\ due \in Dues /\ before \in Befores
      /\ clock \in Int /\ fLastSyncTime \in Int /\ time \in Nat
  BY TimeAssumption DEF DelayTypeOK, Entries, Dues, Befores
<1>2. /\ Len(queue) \in Nat /\ DOMAIN queue = 1..Len(queue)
      /\ \A i \in 1..Len(queue) : queue[i].task \in Tasks
  BY <1>1, ListParts
<1>3. Queued = {queue[i].task : i \in 1..Len(queue)}
  BY <1>2 DEF Queued
<1> QED
  BY <1>1, <1>2, <1>3

\* The state after a look at the clock, s, or after none.
IsSync(s) ==
  /\ s.queue \in Seq(Entries) /\ s.counted \in Nat /\ s.at \in Int
  /\ Tells(s.queue, measured + s.counted, due, before)
  /\ Len(s.queue) = Len(queue) /\ \A i \in 1..Len(queue) : s.queue[i].task = queue[i].task
  /\ s.counted + Left(clock - s.at) = Left(clock - fLastSyncTime)
  /\ fLastSyncTime <= clock => s.at <= clock

\* synchronize() takes the time since the last call off the list and counts it.
LEMMA SyncKeeps ==
  ASSUME DelayTypeOK, Tells(queue, measured, due, before)
  PROVE  IsSync(Sync) /\ IsSync(SyncUnlessDue)
<1> DEFINE e == Left(clock - fLastSyncTime)
           s == [queue |-> Elapsed(queue, e), counted |-> e, at |-> clock]
           o == [queue |-> queue, counted |-> 0, at |-> fLastSyncTime]
<1>1. e = Max({0, clock - fLastSyncTime}) /\ e \in Nat
  <2>1. clock - fLastSyncTime \in Int
    BY DelayTypes
  <2> QED
    BY <2>1, MaxIsLeft
<1>2. Sync = s
  BY <1>1 DEF Sync
<1>3. /\ Elapsed(queue, e) \in Seq(Entries) /\ Len(Elapsed(queue, e)) = Len(queue)
      /\ \A i \in 1..Len(queue) : Elapsed(queue, e)[i].task = queue[i].task
  BY <1>1, DelayTypes, ElapsedTells
<1>4. Tells(Elapsed(queue, e), measured + e, due, before)
  BY <1>1, DelayTypes, ElapsedKeeps
<1>5. e + Left(clock - clock) = e /\ clock \in Int
  BY <1>1, DelayTypes DEF Left
<1> HIDE DEF e
<1>6. IsSync(s)
  <2>1. s.queue = Elapsed(queue, e) /\ s.counted = e /\ s.at = clock
    OBVIOUS
  <2> HIDE DEF s
  <2> QED
    BY <1>1, <1>3, <1>4, <1>5, <2>1 DEF IsSync, e
<1>7. IsSync(o)
  <2>1. o.queue = queue /\ o.counted = 0 /\ o.at = fLastSyncTime
    OBVIOUS
  <2>2. measured + 0 = measured /\ 0 + e = e
    BY <1>1, DelayTypes
  <2> HIDE DEF o
  <2> QED
    BY <1>1, <2>1, <2>2, DelayTypes DEF IsSync, e
<1>8. SyncUnlessDue = o \/ SyncUnlessDue = Sync
  BY DEF SyncUnlessDue
<1> QED
  BY <1>2, <1>6, <1>7, <1>8

\* The first entry is as far away as its delta says.
LEMMA HeadTells ==
  ASSUME NEW q \in Seq(Entries), q # <<>>
  PROVE  /\ Len(q) \in Nat /\ 1 \in 1..Len(q) /\ Head(q) = q[1] /\ q[1].task \in Tasks
         /\ Head(q).delta \in Nat /\ Until(q)[1] = Head(q).delta
<1>1. Len(q) \in Nat /\ Len(q) # 0 /\ Head(q) = q[1]
  BY EmptySeq, LenProperties
<1>2. 1 \in 1..Len(q)
  BY <1>1
<1>3. q[1].delta \in Nat /\ q[1].task \in Tasks
  BY <1>2, ListParts
<1>4. Until(q)[0] = 0 /\ Until(q)[1] = Until(q)[1 - 1] + q[1].delta
  BY <1>2, UntilAdds
<1> QED
  BY <1>1, <1>2, <1>3, <1>4

\* What each step does to the list and to the history.
LEMMA DelaySteps ==
  ASSUME DelayTypeOK, Tells(queue, measured, due, before), [DelayNext]_dvars
  PROVE  \/ UNCHANGED <<queue, measured, due, before>>
         \/ \E t \in Tasks, d \in Delays : Schedule(t, d)
         \/ \E k \in 1..Len(queue) : Unschedule(k)
         \/ Begin
         \/ HandleAlarm
<1>1. CASE UNCHANGED dvars
  BY <1>1 DEF dvars, delays, history
<1>2. CASE SelectTimesOut \/ TaskReturns \/ SocketReady \/ Tick
  BY <1>2 DEF SelectTimesOut, TaskReturns, SocketReady, Tick, delays, history
<1>3. ASSUME NEW step, SetClock(step) PROVE UNCHANGED <<queue, measured, due, before>>
  BY <1>3 DEF SetClock, delays, history
<1> QED
  BY <1>1, <1>2, <1>3, DelayTypes DEF DelayNext, Loop

\* The inductive invariant behind DeltasTell: no task is queued twice either.
DueInv == DelayTypeOK /\ Tells(queue, measured, due, before)

\* addEntry() leaves a list that tells the truth.
LEMMA ScheduleKeeps ==
  ASSUME DueInv, NEW t \in Tasks, NEW d \in Delays, Schedule(t, d)
  PROVE  DueInv'
<1> DEFINE s == Sync
           q == s.queue
           m == measured + s.counted
           S == {q[i].task : i \in 1..Len(q)}
           earlier == {w \in Queued : due[w].measured <= m + d}
<1>1. IsSync(s)
  BY SyncKeeps DEF DueInv
<1>2. /\ t \notin Queued /\ queue' = Inserted(q, t, d)
      /\ fLastSyncTime' = s.at /\ measured' = m
      /\ due' = [due EXCEPT ![t] = [measured |-> m + d, time |-> time + d]]
      /\ before' = [w \in Tasks |-> IF w = t THEN earlier
                                    ELSE IF w \in Queued \ earlier THEN before[w] \cup {t}
                                    ELSE before[w]]
      /\ UNCHANGED <<clock, stage, wakeAt, time, set>>
  BY DEF Schedule, Synced
<1> HIDE DEF s
<1>3. q \in Seq(Entries) /\ m \in Nat /\ d \in Nat /\ s.at \in Int /\ Tells(q, m, due, before)
  BY <1>1, DelayTypes, TimeAssumption DEF IsSync, DueInv
<1>4. due \in Dues /\ before \in Befores /\ time \in Nat /\ Queued \subseteq Tasks
  BY DelayTypes DEF DueInv
<1>5. S = Queued
  <2>1. Len(q) = Len(queue) /\ \A i \in 1..Len(queue) : q[i].task = queue[i].task
    BY <1>1 DEF IsSync
  <2>2. Queued = {queue[i].task : i \in 1..Len(queue)}
    BY DelayTypes DEF DueInv
  <2> HIDE DEF q
  <2> QED
    BY <2>1, <2>2
<1>6. queue' \in Seq(Entries)
  BY <1>2, <1>3, InsertedTells
<1>7. due' \in Dues /\ before' \in Befores
  <2>1. [measured |-> m + d, time |-> time + d] \in [measured : Nat, time : Nat]
    BY <1>3, <1>4
  <2>2. earlier \subseteq Tasks
    BY <1>4
  <2> HIDE DEF m, earlier
  <2> QED
    BY <1>2, <1>4, <2>1, <2>2 DEF Dues, Befores
<1>8. DelayTypeOK'
  BY <1>2, <1>3, <1>6, <1>7 DEF DelayTypeOK, DueInv, Dues, Befores, Entries
<1>9. due'[t].measured = m + d /\ \A w \in Tasks \ {t} : due'[w] = due[w]
  BY <1>2, <1>4 DEF Dues
<1>10. \A w \in Tasks : before'[w] = IF w = t THEN earlier
                                     ELSE IF w \in S \ earlier THEN before[w] \cup {t} ELSE before[w]
  BY <1>2, <1>5
<1>11. /\ earlier \subseteq S /\ t \notin S
       /\ \A w \in S : w \in earlier <=> due[w].measured <= m + d
  BY <1>2, <1>5
<1>12. /\ \A i \in 1..Len(q) : q[i].task \in S
       /\ \A w \in S : \E i \in 1..Len(q) : w = q[i].task
  OBVIOUS
<1> HIDE DEF S, earlier, m, q
<1>13. Tells(Inserted(q, t, d), m, due', before')
  BY <1>3, <1>4, <1>9, <1>10, <1>11, <1>12, InsertedKeeps, ZenonT(60)
<1> QED
  BY <1>2, <1>8, <1>13 DEF DueInv

\* An entry that leaves a list that tells the truth, with its task forgotten.
LEMMA ForgetKeeps ==
  ASSUME DueInv, NEW q \in Seq(Entries), NEW m \in Nat, Tells(q, m, due, before),
         NEW k \in 1..Len(q), Forget(q[k].task)
  PROVE  /\ Tells(Removed(q, k), m, due', before') /\ Removed(q, k) \in Seq(Entries)
         /\ due' \in Dues /\ before' \in Befores
<1> DEFINE t == q[k].task
<1>1. t \in Tasks
  BY ListParts
<1>2. due \in Dues /\ before \in Befores
  BY DelayTypes DEF DueInv
<1>3. /\ due' = [due EXCEPT ![t] = NotDue]
      /\ before' = [u \in Tasks |-> IF u = t THEN {} ELSE before[u] \ {t}]
  BY DEF Forget
<1>4. t = q[k].task
  OBVIOUS
<1> HIDE DEF t
<1>5. \A w \in Tasks \ {t} : due'[w] = due[w] /\ before'[w] = before[w] \ {t}
  BY <1>2, <1>3 DEF Dues
<1>6. due' \in Dues /\ before' \in Befores
  BY <1>1, <1>2, <1>3 DEF Dues, Befores, NotDue
<1> QED
  BY <1>2, <1>4, <1>5, <1>6, RemovedKeeps, RemovedTells

\* unscheduleDelayedTask() hands the delta of the entry on.
LEMMA UnscheduleKeeps ==
  ASSUME DueInv, NEW k \in 1..Len(queue), Unschedule(k)
  PROVE  DueInv'
<1>1. /\ queue' = Removed(queue, k) /\ Forget(queue[k].task)
      /\ UNCHANGED <<fLastSyncTime, clock, stage, wakeAt, time, measured, set>>
  BY DEF Unschedule
<1>2. queue \in Seq(Entries) /\ measured \in Nat
  BY DelayTypes DEF DueInv
<1>3. /\ Tells(queue', measured, due', before') /\ queue' \in Seq(Entries)
      /\ due' \in Dues /\ before' \in Befores
  BY <1>1, <1>2, ForgetKeeps DEF DueInv
<1>4. DelayTypeOK'
  BY <1>1, <1>3 DEF DueInv, DelayTypeOK, Entries, Dues, Befores
<1> QED
  BY <1>1, <1>3, <1>4 DEF DueInv

\* timeToNextAlarm() leaves a list that tells the truth.
LEMMA BeginKeeps ==
  ASSUME DueInv, Begin
  PROVE  DueInv'
<1> DEFINE s == SyncUnlessDue
<1>1. IsSync(s)
  BY SyncKeeps DEF DueInv
<1>2. /\ queue' = s.queue /\ fLastSyncTime' = s.at /\ measured' = measured + s.counted
      /\ wakeAt' = time + (IF s.queue = <<>> THEN MaxSleep ELSE Min({MaxSleep, Head(s.queue).delta}))
      /\ stage' = "select" /\ UNCHANGED <<clock, time, due, before, set>>
  BY DEF Begin, Synced
<1> HIDE DEF s
<1>3. /\ s.queue \in Seq(Entries) /\ s.counted \in Nat /\ s.at \in Int
      /\ Tells(s.queue, measured + s.counted, due, before)
  BY <1>1 DEF IsSync
<1>4. measured \in Nat /\ time \in Nat /\ MaxSleep \in Nat
  BY DelayTypes, TimeAssumption DEF DueInv
<1>5. wakeAt' \in Nat
  <2>1. CASE s.queue = <<>>
    BY <1>2, <1>4, <2>1
  <2>2. CASE s.queue # <<>>
    <3> DEFINE x == Head(s.queue).delta
    <3>1. x \in Nat
      BY <1>3, <2>2, HeadTells
    <3> HIDE DEF x
    <3>2. Min({MaxSleep, x}) \in Nat
      BY <1>4, <3>1 DEF Min
    <3> QED
      BY <1>2, <1>4, <2>2, <3>2 DEF x
  <2> QED
    BY <2>1, <2>2
<1>6. DelayTypeOK'
  BY <1>2, <1>3, <1>4, <1>5 DEF DueInv, DelayTypeOK, Entries
<1> QED
  BY <1>2, <1>3, <1>6 DEF DueInv

\* handleAlarm() leaves a list that tells the truth, with or without its head.
LEMMA AlarmKeeps ==
  ASSUME DueInv, HandleAlarm
  PROVE  DueInv'
<1> DEFINE s == SyncUnlessDue
           m == measured + s.counted
<1>1. IsSync(s)
  BY SyncKeeps DEF DueInv
<1>2. fLastSyncTime' = s.at /\ measured' = m /\ UNCHANGED <<clock, wakeAt, time, set>>
  BY DEF HandleAlarm, Synced
<1>3. \/ /\ s.queue # <<>>
         /\ queue' = Removed(s.queue, 1) /\ Forget(Head(s.queue).task) /\ stage' = "task"
      \/ queue' = s.queue /\ UNCHANGED <<due, before>> /\ stage' = "begin"
  BY DEF HandleAlarm
<1> HIDE DEF s
<1>4. /\ s.queue \in Seq(Entries) /\ s.counted \in Nat /\ s.at \in Int
      /\ Tells(s.queue, m, due, before) /\ measured \in Nat /\ m \in Nat
  BY <1>1, DelayTypes DEF IsSync, DueInv
<1>5. CASE queue' = s.queue /\ UNCHANGED <<due, before>> /\ stage' = "begin"
  <2>1. DelayTypeOK'
    BY <1>2, <1>4, <1>5 DEF DueInv, DelayTypeOK, Entries
  <2> QED
    BY <1>2, <1>4, <1>5, <2>1 DEF DueInv
<1>6. CASE s.queue # <<>> /\ queue' = Removed(s.queue, 1) /\ Forget(Head(s.queue).task) /\ stage' = "task"
  <2>1. 1 \in 1..Len(s.queue) /\ Head(s.queue) = s.queue[1]
    BY <1>4, <1>6, HeadTells
  <2> HIDE DEF m
  <2>2. /\ Tells(queue', m, due', before') /\ queue' \in Seq(Entries)
        /\ due' \in Dues /\ before' \in Befores
    BY <1>4, <1>6, <2>1, ForgetKeeps
  <2>3. DelayTypeOK'
    BY <1>2, <1>4, <1>6, <2>2 DEF DueInv, DelayTypeOK, Entries, Dues, Befores
  <2> QED
    BY <1>2, <2>2, <2>3 DEF DueInv
<1> QED
  BY <1>3, <1>5, <1>6

\* Every step keeps the invariant.
LEMMA DueKept ==
  ASSUME DueInv, [DelayNext]_dvars
  PROVE  DueInv'
<1>1. CASE UNCHANGED <<queue, measured, due, before>>
  <2>1. DelayTypeOK'
    <3>1. CASE UNCHANGED dvars
      BY <3>1 DEF DueInv, DelayTypeOK, dvars, delays, history
    <3>2. CASE SelectTimesOut \/ SocketReady \/ TaskReturns
      BY <3>2 DEF DueInv, DelayTypeOK, delays, history, SelectTimesOut, SocketReady, TaskReturns
    <3>3. CASE Tick
      <4>1. time' \in 0..MaxTime /\ clock' \in Int
        BY <3>3, TimeAssumption DEF DueInv, DelayTypeOK, Tick
      <4> QED
        BY <3>3, <4>1 DEF DueInv, DelayTypeOK, delays, history, Tick
    <3>4. ASSUME NEW step \in Steps, SetClock(step) \/ SetClock(-step) PROVE DelayTypeOK'
      <4>1. step \in Nat /\ clock' \in Int /\ set' \in {0} \cup Steps \cup {-x : x \in Steps}
        BY <3>4, TimeAssumption DEF DueInv, DelayTypeOK, SetClock
      <4> QED
        BY <3>4, <4>1 DEF DueInv, DelayTypeOK, delays, history, SetClock
    <3>5. ASSUME NEW t \in Tasks, NEW d \in Delays, Schedule(t, d) PROVE DelayTypeOK'
      BY <3>5, ScheduleKeeps DEF DueInv
    <3>6. ASSUME NEW k \in DOMAIN queue, Unschedule(k) PROVE DelayTypeOK'
      BY <3>6, UnscheduleKeeps, DelayTypes DEF DueInv
    <3> QED
      BY <3>1, <3>2, <3>3, <3>4, <3>5, <3>6, BeginKeeps, AlarmKeeps DEF DelayNext, Loop, DueInv
  <2> QED
    BY <1>1, <2>1 DEF DueInv
<1> QED
  BY <1>1, DelaySteps, ScheduleKeeps, UnscheduleKeeps, BeginKeeps, AlarmKeeps DEF DueInv

\* The list is empty at the start.
LEMMA DueInit == DelayInit => DueInv
<1> SUFFICES ASSUME DelayInit PROVE DueInv
  OBVIOUS
<1>1. queue = <<>> /\ queue \in Seq(Entries) /\ Len(queue) = 0
  BY DEF DelayInit
<1>2. DelayTypeOK
  BY TimeAssumption, <1>1 DEF DelayInit, DelayTypeOK, NotDue, Entries
<1>3. Tells(queue, measured, due, before)
  BY <1>1 DEF Tells
<1> QED
  BY <1>2, <1>3 DEF DueInv

\* However tasks are scheduled and unscheduled, and however the clock is set: the
\* deltas up to a task add up to what remains of its delay, and the tasks stand in
\* the order they are to run in.
THEOREM ListTells == DelaySpec => []DeltasTell
<1>1. DueInv => DeltasTell
  <2> SUFFICES ASSUME DueInv PROVE DeltasTell
    OBVIOUS
  <2>1. DelayTypeOK /\ DOMAIN queue = 1..Len(queue) /\ measured \in Nat /\ due \in Dues
        /\ \A i \in 1..Len(queue) : queue[i].task \in Tasks
    BY DelayTypes, ListParts DEF DueInv
  <2>2. \A i \in 1..Len(queue) : /\ Until(queue)[i] = Left(due[queue[i].task].measured - measured)
                                 /\ before[queue[i].task] = {queue[j].task : j \in 1..i - 1}
    BY DEF DueInv, Tells
  <2>3. \A i \in 1..Len(queue) :
          Max({0, due[queue[i].task].measured - measured}) = Left(due[queue[i].task].measured - measured)
    <3> SUFFICES ASSUME NEW i \in 1..Len(queue)
                 PROVE  Max({0, due[queue[i].task].measured - measured})
                          = Left(due[queue[i].task].measured - measured)
      OBVIOUS
    <3>1. due[queue[i].task].measured - measured \in Int
      BY <2>1 DEF Dues
    <3> QED
      BY <3>1, MaxIsLeft
  <2> QED
    BY <2>1, <2>2, <2>3 DEF DeltasTell
<1> QED
  BY <1>1, DueInit, DueKept, PTL DEF DelaySpec

(***************************************************************************)
(* The list and the time.                                                  *)
(***************************************************************************)

\* How much of the time that has passed synchronize() will never have counted.
Lag == time - measured - Left(clock - fLastSyncTime)

\* As much as at the time when u was scheduled, unless the clock is set.
LagThen(u) == due[u].time - due[u].measured

\* A clock that is set back adds to what is not counted.
NotEarly == set <= 0 => \A u \in Queued : LagThen(u) <= Lag

\* A clock that is set forward takes off it.
NotLate == set >= 0 => fLastSyncTime <= clock /\ \A u \in Queued : Lag <= LagThen(u)

TimeInv == NotEarly /\ NotLate

\* The tasks of a list with t.
LEMMA InsertedTasks ==
  ASSUME NEW q \in Seq(Entries), NEW t \in Tasks, NEW d \in Nat, NEW i \in 1..Len(Inserted(q, t, d))
  PROVE  Inserted(q, t, d)[i].task = t \/ \E j \in 1..Len(q) : Inserted(q, t, d)[i].task = q[j].task
<1> DEFINE r == Inserted(q, t, d)
           k == Place(q, d)
           n == Len(q)
<1>1. GoesBehind(r, q, k, t, d) /\ k \in 0..n /\ n \in Nat
  BY InsertedTells, PlaceIs, ListParts
<1> HIDE DEF r, k
<1>2. i \in 1..n + 1
  BY <1>1 DEF GoesBehind, r
<1>3. CASE i <= k
  <2>1. i \in 1..k /\ i \in 1..n
    BY <1>1, <1>2, <1>3
  <2> QED
    BY <1>1, <2>1 DEF GoesBehind, r
<1>4. CASE i = k + 1
  BY <1>1, <1>4 DEF GoesBehind, r
<1>5. CASE i > k + 1
  <2>1. i - 1 \in k + 1..n /\ i - 1 \in 1..n /\ (i - 1) + 1 = i
    BY <1>1, <1>2, <1>5
  <2> QED
    BY <1>1, <2>1 DEF GoesBehind, r
<1> QED
  BY <1>1, <1>2, <1>3, <1>4, <1>5

\* The tasks of a list without the entry k.
LEMMA RemovedTasks ==
  ASSUME NEW q \in Seq(Entries), NEW m, NEW d, NEW b, Tells(q, m, d, b),
         NEW k \in 1..Len(q), NEW i \in 1..Len(Removed(q, k))
  PROVE  \E j \in 1..Len(q) : Removed(q, k)[i].task = q[j].task /\ q[j].task # q[k].task
<1> DEFINE r == Removed(q, k)
           n == Len(q)
<1>1. GoesOn(r, q, k) /\ k \in 1..n /\ n \in Nat
  BY RemovedTells, ListParts
<1>2. \A j \in 1..n : q[j].task = q[k].task => j = k
  BY DEF Tells
<1> HIDE DEF r
<1>3. i \in 1..n - 1
  BY <1>1 DEF GoesOn, r
<1>4. CASE i < k
  <2>1. i \in 1..k - 1 /\ i \in 1..n /\ i # k
    BY <1>1, <1>3, <1>4
  <2> QED
    BY <1>1, <1>2, <2>1 DEF GoesOn, r
<1>5. CASE ~(i < k)
  <2>1. i \in k..n - 1 /\ i + 1 \in 1..n /\ i + 1 # k
    BY <1>1, <1>3, <1>5
  <2> QED
    BY <1>1, <1>2, <2>1 DEF GoesOn, r
<1> QED
  BY <1>4, <1>5

\* A step that does not set the clock and in which no time passes leaves the lag
\* alone, and gives it to a task that it schedules.
Quiet ==
  /\ UNCHANGED <<time, clock, set>> /\ Lag' = Lag
  /\ fLastSyncTime <= clock => fLastSyncTime' <= clock
  /\ \A u \in Queued' : (u \in Queued /\ due'[u] = due[u]) \/ LagThen(u)' = Lag

\* A look at the clock counts the time that is due to be counted.
LEMMA SyncLag ==
  ASSUME DueInv, NEW s, IsSync(s), Synced(s), UNCHANGED <<time, clock>>
  PROVE  /\ Lag' = Lag /\ (fLastSyncTime <= clock => fLastSyncTime' <= clock)
         /\ measured' \in Nat /\ Lag \in Int /\ Lag' = time - measured' - Left(clock - s.at)
<1>1. measured \in Nat /\ time \in Nat /\ clock \in Int /\ fLastSyncTime \in Int
  BY DelayTypes DEF DueInv
<1>2. /\ s.counted \in Nat /\ s.at \in Int
      /\ s.counted + Left(clock - s.at) = Left(clock - fLastSyncTime)
      /\ fLastSyncTime <= clock => s.at <= clock
  BY DEF IsSync
<1>3. fLastSyncTime' = s.at /\ measured' = measured + s.counted
  BY DEF Synced
<1>4. Left(clock - s.at) \in Nat /\ Left(clock - fLastSyncTime) \in Nat
  BY <1>1, <1>2 DEF Left
<1>5. Lag' = time - (measured + s.counted) - Left(clock - s.at)
  BY <1>3 DEF Lag
<1>6. Lag = time - measured - Left(clock - fLastSyncTime)
  BY DEF Lag
<1> DEFINE a == Left(clock - s.at)
           b == Left(clock - fLastSyncTime)
<1>7. a \in Nat /\ b \in Nat /\ s.counted + a = b
  BY <1>2, <1>4
<1> HIDE DEF a, b
<1>8. time - (measured + s.counted) - a = time - measured - b
  BY <1>1, <1>2, <1>7
<1>9. time - measured - b \in Int /\ measured + s.counted \in Nat
  BY <1>1, <1>2, <1>7
<1> QED
  BY <1>2, <1>3, <1>5, <1>6, <1>8, <1>9 DEF a, b

\* The tasks of the list that a look at the clock finds.
LEMMA SyncTasks ==
  ASSUME DueInv, NEW s, IsSync(s)
  PROVE  /\ s.queue \in Seq(Entries) /\ Len(s.queue) = Len(queue)
         /\ Queued = {s.queue[i].task : i \in 1..Len(s.queue)}
<1>1. Queued = {queue[i].task : i \in 1..Len(queue)}
  BY DelayTypes DEF DueInv
<1> QED
  BY <1>1 DEF IsSync

\* A task that is scheduled gets the lag of the moment.
LEMMA ScheduleQuiet ==
  ASSUME DueInv, NEW t \in Tasks, NEW d \in Delays, Schedule(t, d)
  PROVE  Quiet
<1> DEFINE s == Sync
<1>1. IsSync(s)
  BY SyncKeeps DEF DueInv
<1>2. /\ queue' = Inserted(s.queue, t, d) /\ Synced(s) /\ UNCHANGED <<time, clock, set>>
      /\ due' = [due EXCEPT ![t] = [measured |-> measured' + d, time |-> time + d]]
  BY DEF Schedule
<1> HIDE DEF s
<1>3. /\ Lag' = Lag /\ (fLastSyncTime <= clock => fLastSyncTime' <= clock)
      /\ measured' \in Nat /\ Lag' = time - measured' - Left(clock - s.at)
  BY <1>1, <1>2, SyncLag
<1>4. s.at = clock
  BY DEF s, Sync
<1>5. d \in Nat /\ due \in Dues /\ time \in Nat /\ clock \in Int
  BY DelayTypes, TimeAssumption DEF DueInv
<1>6. LagThen(t)' = Lag
  <2> DEFINE m == measured'
             r == [measured |-> m + d, time |-> time + d]
  <2>1. due'[t] = r /\ m \in Nat
    BY <1>2, <1>3, <1>5 DEF Dues
  <2>2. r.time = time + d /\ r.measured = m + d
    OBVIOUS
  <2>3. LagThen(t)' = (time + d) - (m + d)
    BY <2>1, <2>2 DEF LagThen
  <2>4. Left(clock - s.at) = 0
    BY <1>4, <1>5 DEF Left
  <2>5. Lag = time - m - 0
    BY <1>3, <2>4
  <2> HIDE DEF m, r
  <2> QED
    BY <1>5, <2>1, <2>3, <2>5
<1>7. s.queue \in Seq(Entries) /\ Queued = {s.queue[i].task : i \in 1..Len(s.queue)}
  BY <1>1, SyncTasks
<1>8. ASSUME NEW u \in Queued' PROVE u = t \/ u \in Queued
  <2>1. PICK i \in 1..Len(queue') : u = queue'[i].task
    BY DueKept, DelayTypes, <1>8, ScheduleKeeps DEF DueInv, Queued
  <2>2. u = t \/ \E j \in 1..Len(s.queue) : u = s.queue[j].task
    BY <1>2, <1>5, <1>7, <2>1, InsertedTasks
  <2> QED
    BY <1>7, <2>2
<1>9. \A u \in Queued : u # t => due'[u] = due[u]
  BY <1>2, <1>5, DelayTypes DEF DueInv, Dues
<1> QED
  BY <1>2, <1>3, <1>6, <1>8, <1>9 DEF Quiet

\* An entry that is removed changes nothing for the tasks that stay.
LEMMA UnscheduleQuiet ==
  ASSUME DueInv, NEW k \in 1..Len(queue), Unschedule(k)
  PROVE  Quiet
<1>1. /\ queue' = Removed(queue, k) /\ Forget(queue[k].task)
      /\ UNCHANGED <<fLastSyncTime, clock, stage, wakeAt, time, measured, set>>
  BY DEF Unschedule
<1>2. /\ queue \in Seq(Entries) /\ Tells(queue, measured, due, before)
      /\ Queued = {queue[i].task : i \in 1..Len(queue)} /\ Queued \subseteq Tasks /\ due \in Dues
  BY DelayTypes DEF DueInv
<1>3. due' = [due EXCEPT ![queue[k].task] = NotDue]
  BY <1>1 DEF Forget
<1>4. ASSUME NEW u \in Queued' PROVE u \in Queued /\ due'[u] = due[u]
  <2>1. PICK i \in 1..Len(queue') : u = queue'[i].task
    BY DueKept, DelayTypes, <1>4, UnscheduleKeeps DEF DueInv, Queued
  <2>2. PICK j \in 1..Len(queue) : u = queue[j].task /\ queue[j].task # queue[k].task
    BY <1>1, <1>2, <2>1, RemovedTasks
  <2> QED
    BY <1>2, <1>3, <2>2 DEF Dues
<1>5. Lag' = Lag
  BY <1>1 DEF Lag
<1> QED
  BY <1>1, <1>4, <1>5 DEF Quiet

\* timeToNextAlarm() counts the time that has passed.
LEMMA BeginQuiet ==
  ASSUME DueInv, Begin
  PROVE  Quiet
<1> DEFINE s == SyncUnlessDue
<1>1. IsSync(s)
  BY SyncKeeps DEF DueInv
<1>2. queue' = s.queue /\ Synced(s) /\ UNCHANGED <<clock, time, due, before, set>>
  BY DEF Begin
<1> HIDE DEF s
<1>3. Lag' = Lag /\ (fLastSyncTime <= clock => fLastSyncTime' <= clock)
  BY <1>1, <1>2, SyncLag
<1>4. Queued' = Queued
  <2>1. s.queue \in Seq(Entries) /\ Queued = {s.queue[i].task : i \in 1..Len(s.queue)}
    BY <1>1, SyncTasks
  <2>2. DOMAIN s.queue = 1..Len(s.queue)
    BY <2>1, ListParts
  <2> QED
    BY <1>2, <2>1, <2>2 DEF Queued
<1> QED
  BY <1>2, <1>3, <1>4 DEF Quiet

\* handleAlarm() counts it too, and its task is not queued any more.
LEMMA AlarmQuiet ==
  ASSUME DueInv, HandleAlarm
  PROVE  Quiet
<1> DEFINE s == SyncUnlessDue
<1>1. IsSync(s)
  BY SyncKeeps DEF DueInv
<1>2. Synced(s) /\ UNCHANGED <<clock, wakeAt, time, set>>
  BY DEF HandleAlarm
<1>3. \/ s.queue # <<>> /\ queue' = Removed(s.queue, 1) /\ Forget(Head(s.queue).task)
      \/ queue' = s.queue /\ UNCHANGED <<due, before>>
  BY DEF HandleAlarm
<1> HIDE DEF s
<1>4. Lag' = Lag /\ (fLastSyncTime <= clock => fLastSyncTime' <= clock)
  BY <1>1, <1>2, SyncLag
<1>5. /\ s.queue \in Seq(Entries) /\ Queued = {s.queue[i].task : i \in 1..Len(s.queue)}
      /\ DOMAIN s.queue = 1..Len(s.queue) /\ Tells(s.queue, measured + s.counted, due, before)
      /\ Queued \subseteq Tasks /\ due \in Dues
  BY <1>1, SyncTasks, ListParts, DelayTypes DEF IsSync, DueInv
<1>6. CASE queue' = s.queue /\ UNCHANGED <<due, before>>
  <2>1. Queued' = Queued
    BY <1>5, <1>6 DEF Queued
  <2> QED
    BY <1>2, <1>4, <1>6, <2>1 DEF Quiet
<1>7. CASE s.queue # <<>> /\ queue' = Removed(s.queue, 1) /\ Forget(Head(s.queue).task)
  <2>1. 1 \in 1..Len(s.queue) /\ Head(s.queue) = s.queue[1]
    BY <1>5, <1>7, HeadTells
  <2>2. due' = [due EXCEPT ![s.queue[1].task] = NotDue]
    BY <1>7, <2>1 DEF Forget
  <2>3. ASSUME NEW u \in Queued' PROVE u \in Queued /\ due'[u] = due[u]
    <3>1. PICK i \in 1..Len(queue') : u = queue'[i].task
      BY DelayTypes, <2>3, AlarmKeeps DEF DueInv, Queued
    <3>2. PICK j \in 1..Len(s.queue) : u = s.queue[j].task /\ s.queue[j].task # s.queue[1].task
      BY <1>5, <1>7, <2>1, <3>1, RemovedTasks
    <3>3. u \in Queued /\ u \in Tasks /\ u # s.queue[1].task
      BY <1>5, <3>2
    <3>4. due'[u] = due[u]
      BY <1>5, <2>2, <3>3 DEF Dues
    <3> QED
      BY <3>3, <3>4
  <2> QED
    BY <1>2, <1>4, <2>3 DEF Quiet
<1> QED
  BY <1>3, <1>6, <1>7

\* A step of another kind: nothing happens to the list, and time does not pass.
LEMMA IdleQuiet ==
  ASSUME DueInv, UNCHANGED <<delays, clock, time, history, set>>
  PROVE  Quiet
<1>1. UNCHANGED <<queue, fLastSyncTime, clock, time, measured, due, set>>
  BY DEF delays, history
<1> QED
  BY <1>1 DEF Quiet, Queued, Lag

\* The numbers that the lag is made of.
LEMMA LagTypes ==
  ASSUME DueInv
  PROVE  /\ Lag \in Int /\ Left(clock - fLastSyncTime) \in Nat /\ clock \in Int /\ fLastSyncTime \in Int
         /\ time \in Nat /\ measured \in Nat /\ set \in Int
         /\ \A u \in Queued : LagThen(u) \in Int
<1>1. /\ clock \in Int /\ fLastSyncTime \in Int /\ time \in Nat /\ measured \in Nat
      /\ due \in Dues /\ Queued \subseteq Tasks
  BY DelayTypes DEF DueInv
<1>2. Left(clock - fLastSyncTime) \in Nat
  BY <1>1 DEF Left
<1>3. Lag \in Int
  <2> DEFINE l == Left(clock - fLastSyncTime)
  <2>1. l \in Nat
    BY <1>2
  <2> HIDE DEF l
  <2>2. time - measured - l \in Int
    BY <1>1, <2>1
  <2> QED
    BY <2>2 DEF Lag, l
<1>4. set \in Int
  BY TimeAssumption DEF DueInv, DelayTypeOK
<1>5. \A u \in Queued : LagThen(u) \in Int
  BY <1>1 DEF LagThen, Dues
<1> QED
  BY <1>1, <1>2, <1>3, <1>4, <1>5

\* What each step does to the lag.
LEMMA TimeSteps ==
  ASSUME DueInv, [DelayNext]_dvars
  PROVE  Quiet \/ Tick \/ \E step \in Steps : SetClock(step) \/ SetClock(-step)
<1>1. CASE UNCHANGED dvars
  BY <1>1, IdleQuiet DEF dvars
<1>2. CASE SelectTimesOut \/ TaskReturns \/ SocketReady
  BY <1>2, IdleQuiet DEF SelectTimesOut, TaskReturns, SocketReady
<1>3. ASSUME NEW k \in DOMAIN queue, Unschedule(k) PROVE Quiet
  BY <1>3, UnscheduleQuiet, DelayTypes DEF DueInv
<1> QED
  BY <1>1, <1>2, <1>3, ScheduleQuiet, BeginQuiet, AlarmQuiet DEF DelayNext, Loop

\* Only a clock that is set changes what a task is late or early by.
LEMMA TimeKept ==
  ASSUME DueInv, TimeInv, [DelayNext]_dvars
  PROVE  TimeInv'
<1>1. /\ Lag \in Int /\ clock \in Int /\ fLastSyncTime \in Int
      /\ time \in Nat /\ measured \in Nat /\ set \in Int /\ \A u \in Queued : LagThen(u) \in Int
  BY LagTypes
<1>2. NotEarly /\ NotLate
  BY DEF TimeInv
<1>3. CASE Quiet
  <2>1. \A u \in Queued' : (u \in Queued /\ LagThen(u)' = LagThen(u)) \/ LagThen(u)' = Lag
    BY <1>3 DEF Quiet, LagThen
  <2>2. Lag' = Lag /\ set' = set /\ (fLastSyncTime <= clock => fLastSyncTime' <= clock')
    BY <1>3 DEF Quiet
  <2>3. NotEarly'
    BY <1>1, <1>2, <2>1, <2>2 DEF NotEarly
  <2>4. NotLate'
    BY <1>1, <1>2, <2>1, <2>2 DEF NotLate
  <2> QED
    BY <2>3, <2>4 DEF TimeInv
<1>4. CASE Tick
  <2>1. /\ time' = time + 1 /\ clock' = clock + 1
        /\ UNCHANGED <<queue, fLastSyncTime, measured, due, set>>
    BY <1>4 DEF Tick, delays, history
  <2>2. Queued' = Queued /\ \A u \in Queued : LagThen(u)' = LagThen(u)
    BY <2>1 DEF Queued, LagThen
  <2>3. Lag' = (time + 1) - measured - Left(clock + 1 - fLastSyncTime)
    BY <1>1, <2>1 DEF Lag, Left
  <2>4. Lag <= Lag' /\ (fLastSyncTime <= clock => Lag' = Lag)
    BY <1>1, <2>3 DEF Lag, Left
  <2>5. Lag' \in Int
    BY <1>1, <2>3 DEF Left
  <2>6. NotEarly'
    BY <1>1, <1>2, <2>1, <2>2, <2>4, <2>5 DEF NotEarly
  <2>7. NotLate'
    BY <1>1, <1>2, <2>1, <2>2, <2>4, <2>5 DEF NotLate
  <2> QED
    BY <2>6, <2>7 DEF TimeInv
<1>5. ASSUME NEW step \in Steps, SetClock(step) \/ SetClock(-step) PROVE TimeInv'
  <2>1. step \in Nat \ {0}
    BY TimeAssumption
  <2>2. set = 0 /\ UNCHANGED <<queue, fLastSyncTime, measured, due, time>>
    BY <1>5 DEF SetClock, delays, history
  <2>3. Queued' = Queued /\ \A u \in Queued : LagThen(u)' = LagThen(u)
    BY <2>2 DEF Queued, LagThen
  <2>4. CASE SetClock(step)
    <3>1. clock' = clock + step /\ set' = step
      BY <2>4 DEF SetClock
    <3>2. Lag' = time - measured - Left(clock + step - fLastSyncTime)
      BY <1>1, <2>1, <2>2, <3>1 DEF Lag, Left
    <3>3. Lag' <= Lag /\ Lag' \in Int
      BY <1>1, <2>1, <3>2 DEF Lag, Left
    <3>4. NotEarly'
      BY <2>1, <3>1 DEF NotEarly
    <3>5. NotLate'
      BY <1>1, <1>2, <2>1, <2>2, <2>3, <3>1, <3>3 DEF NotLate
    <3> QED
      BY <3>4, <3>5 DEF TimeInv
  <2>5. CASE SetClock(-step)
    <3>1. clock' = clock - step /\ set' = -step
      BY <1>1, <2>1, <2>5 DEF SetClock
    <3>2. Lag' = time - measured - Left(clock - step - fLastSyncTime)
      BY <1>1, <2>1, <2>2, <3>1 DEF Lag, Left
    <3>3. Lag <= Lag' /\ Lag' \in Int
      BY <1>1, <2>1, <3>2 DEF Lag, Left
    <3>4. NotEarly'
      BY <1>1, <1>2, <2>1, <2>2, <2>3, <3>1, <3>3 DEF NotEarly
    <3>5. NotLate'
      BY <2>1, <3>1 DEF NotLate
    <3> QED
      BY <3>4, <3>5 DEF TimeInv
  <2> QED
    BY <1>5, <2>4, <2>5
<1> QED
  BY <1>3, <1>4, <1>5, TimeSteps

\* At the start no time has passed, and no task is queued.
LEMMA TimeInit == DelayInit => TimeInv
<1> SUFFICES ASSUME DelayInit PROVE TimeInv
  OBVIOUS
<1>1. fLastSyncTime = 0 /\ clock = 0 /\ Queued = {}
  BY DEF DelayInit, Queued
<1> QED
  BY <1>1 DEF TimeInv, NotEarly, NotLate

\* The time that remains for the first entry is none, and it is due; a clock that
\* is not set forward has not made it early.
LEMMA NotEarlyStep ==
  ASSUME DueInv, TimeInv, [DelayNext]_dvars
  PROVE  stage = "handlers" /\ stage' = "task" /\ set <= 0 => time >= due[Head(queue).task].time
<1> SUFFICES ASSUME stage = "handlers", stage' = "task", set <= 0
             PROVE  time >= due[Head(queue).task].time
  OBVIOUS
<1>1. HandleAlarm
  BY DEF DelayNext, Loop, Schedule, Unschedule, Begin, SelectTimesOut, SocketReady, TaskReturns,
         Tick, SetClock, dvars
<1> DEFINE s == SyncUnlessDue
<1>2. IsSync(s)
  BY SyncKeeps DEF DueInv
<1>3. Synced(s) /\ UNCHANGED <<clock, time, set>> /\ s.queue # <<>> /\ Head(s.queue).delta = 0
  BY <1>1 DEF HandleAlarm
<1> HIDE DEF s
<1>4. /\ s.queue \in Seq(Entries) /\ Tells(s.queue, measured + s.counted, due, before)
      /\ s.counted \in Nat /\ s.at \in Int
      /\ Len(s.queue) = Len(queue) /\ \A i \in 1..Len(queue) : s.queue[i].task = queue[i].task
  BY <1>2 DEF IsSync
<1>5. /\ 1 \in 1..Len(s.queue) /\ Head(s.queue) = s.queue[1] /\ Until(s.queue)[1] = 0
  BY <1>3, <1>4, HeadTells
<1>6. queue \in Seq(Entries) /\ Len(queue) \in Nat /\ Queued \subseteq Tasks /\ due \in Dues
      /\ Queued = {queue[i].task : i \in 1..Len(queue)}
  BY DelayTypes DEF DueInv
<1> DEFINE t == Head(queue).task
<1>7. t = s.queue[1].task /\ t \in Queued
  <2>1. 1 \in 1..Len(queue)
    BY <1>4, <1>5
  <2>2. Head(queue) = queue[1]
    BY <1>6, <2>1, EmptySeq, HeadTells
  <2> QED
    BY <1>4, <1>6, <2>1, <2>2
<1>8. due[t] \in [measured : Nat, time : Nat]
  BY <1>6, <1>7 DEF Dues
<1>9. Left(due[t].measured - (measured + s.counted)) = 0
  BY <1>4, <1>5, <1>7 DEF Tells
<1>10. LagThen(t) <= Lag
  BY <1>7 DEF TimeInv, NotEarly
<1>11. /\ Lag' = Lag /\ measured' = measured + s.counted
       /\ Lag' = time - measured' - Left(clock - s.at) /\ measured' \in Nat
  BY <1>2, <1>3, SyncLag DEF Synced
<1> DEFINE m == measured'
           l == Left(clock - s.at)
           x == due[t].measured
           y == due[t].time
<1>12. x \in Nat /\ y \in Nat /\ m \in Nat /\ l \in Nat /\ time \in Nat
  <2>1. clock \in Int /\ time \in Nat
    BY LagTypes
  <2>2. l \in Nat
    BY <1>4, <2>1 DEF Left
  <2> QED
    BY <1>8, <1>11, <2>1, <2>2
<1>13. Left(x - m) = 0 /\ y - x <= time - m - l
  BY <1>9, <1>10, <1>11 DEF LagThen
<1>14. y <= time
  <2> HIDE DEF x, y, m, l
  <2> QED
    BY <1>12, <1>13 DEF Left
<1> QED
  BY <1>12, <1>14

\* A task does not run before its delay has passed, unless the clock is set
\* forward.
THEOREM RunsInTime == DelaySpec => NeverEarly
<1>1. DueInv /\ TimeInv /\ [DelayNext]_dvars
        => [stage = "handlers" /\ stage' = "task" /\ set <= 0
              => time >= due[Head(queue).task].time]_dvars
  BY NotEarlyStep
<1>2. DueInv /\ TimeInv /\ [DelayNext]_dvars => DueInv' /\ TimeInv'
  BY DueKept, TimeKept
<1> QED
  BY <1>1, <1>2, DueInit, TimeInit, PTL DEF DelaySpec, NeverEarly

\* When select() is called, it is asked to return no later than the first task is
\* due: the clock has just been looked at, or the task is due now.
LEMMA BeginInTime ==
  ASSUME DueInv, TimeInv, Begin, time' < wakeAt', set' >= 0, NEW t \in Queued'
  PROVE  wakeAt' <= due'[t].time
<1> DEFINE s == SyncUnlessDue
           h == Head(s.queue).delta
<1>1. IsSync(s)
  BY SyncKeeps DEF DueInv
<1>2. /\ queue' = s.queue /\ Synced(s) /\ UNCHANGED <<clock, time, due, set>>
      /\ wakeAt' = time + (IF s.queue = <<>> THEN MaxSleep ELSE Min({MaxSleep, h}))
  BY DEF Begin
<1>3. s.at = clock \/ s.queue = <<>> \/ h = 0
  BY DEF SyncUnlessDue, Sync
<1> HIDE DEF s
<1>4. /\ s.queue \in Seq(Entries) /\ Tells(s.queue, measured + s.counted, due, before)
      /\ s.counted \in Nat /\ s.at \in Int /\ Len(s.queue) = Len(queue)
  BY <1>1 DEF IsSync
<1>5. /\ t \in Queued /\ Queued = {s.queue[i].task : i \in 1..Len(s.queue)}
      /\ due \in Dues /\ Queued \subseteq Tasks
  <2>1. Queued = {s.queue[i].task : i \in 1..Len(s.queue)}
    BY <1>1, SyncTasks
  <2>2. DOMAIN s.queue = 1..Len(s.queue)
    BY <1>4, ListParts
  <2>3. Queued' = Queued
    BY <1>2, <2>1, <2>2 DEF Queued
  <2> QED
    BY <2>1, <2>3, DelayTypes DEF DueInv
<1>6. PICK i \in 1..Len(s.queue) : t = s.queue[i].task
  BY <1>5
<1>7. s.queue # <<>> /\ Len(s.queue) \in Nat
  BY <1>4, <1>6, ListParts
<1>8. h \in Nat /\ Until(s.queue)[1] = h /\ 1 \in 1..Len(s.queue)
  BY <1>4, <1>7, HeadTells
<1>9. h <= Until(s.queue)[i] /\ Until(s.queue)[i] = Left(due[t].measured - (measured + s.counted))
  <2>1. 1 <= i /\ i \in 0..Len(s.queue) /\ 1 \in 0..Len(s.queue)
    BY <1>6, <1>7, <1>8
  <2>2. Until(s.queue)[1] <= Until(s.queue)[i]
    BY <1>4, <2>1, UntilRises
  <2> QED
    BY <1>4, <1>6, <1>8, <2>2 DEF Tells
<1>10. Min({MaxSleep, h}) <= h /\ Min({MaxSleep, h}) \in Nat
  <2> HIDE DEF h
  <2>1. h \in Nat /\ MaxSleep \in Nat
    BY <1>8, TimeAssumption
  <2>2. \E w \in {MaxSleep, h} : \A y \in {MaxSleep, h} : w <= y
    BY <2>1
  <2>3. Min({MaxSleep, h}) \in {MaxSleep, h} /\ \A y \in {MaxSleep, h} : Min({MaxSleep, h}) <= y
    BY <2>2 DEF Min
  <2> QED
    BY <2>1, <2>3
<1>11. due[t] \in [measured : Nat, time : Nat]
  BY <1>5 DEF Dues
<1>12. Lag <= LagThen(t)
  BY <1>2, <1>5 DEF TimeInv, NotLate
<1>13. /\ Lag' = Lag /\ measured' = measured + s.counted
       /\ Lag' = time - measured' - Left(clock - s.at) /\ measured' \in Nat
  BY <1>1, <1>2, SyncLag DEF Synced
<1>14. time \in Nat /\ clock \in Int
  BY LagTypes
<1> DEFINE m == measured'
           x == due[t].measured
           y == due[t].time
           w == Min({MaxSleep, h})
<1>15. x \in Nat /\ y \in Nat /\ m \in Nat /\ w \in Nat /\ h \in Nat /\ w <= h
  BY <1>8, <1>10, <1>11, <1>13
<1>16. wakeAt' = time + w /\ time < time + w
  BY <1>2, <1>7
<1>17. h <= Left(x - m)
  BY <1>9, <1>13
<1>18. s.at = clock
  <2> HIDE DEF w, h
  <2> QED
    BY <1>3, <1>7, <1>14, <1>15, <1>16
<1>19. Left(clock - s.at) = 0
  BY <1>14, <1>18 DEF Left
<1>20. time - m - 0 <= y - x
  BY <1>12, <1>13, <1>19 DEF LagThen
<1>21. time + w <= y
  <2> HIDE DEF w, h, m, x, y
  <2> QED
    BY <1>14, <1>15, <1>16, <1>17, <1>20 DEF Left
<1> QED
  BY <1>2, <1>16, <1>21

\* The thread does not sleep past the time at which a task is due, unless the
\* clock is set back.
THEOREM SleepsInTime == DelaySpec => []WakesInTime
<1>1. DelayInit => WakesInTime
  BY DEF DelayInit, WakesInTime
<1>2. ASSUME DueInv, TimeInv, WakesInTime, [DelayNext]_dvars PROVE WakesInTime'
  <2> SUFFICES ASSUME stage' = "select", time' < wakeAt', set' >= 0, NEW t \in Queued'
               PROVE  wakeAt' <= due'[t].time
    BY DEF WakesInTime
  <2>1. CASE Begin
    BY <1>2, <2>1, BeginInTime
  <2>2. CASE ~Begin
    <3>1. stage = "select" /\ UNCHANGED <<queue, due, wakeAt>> /\ time <= time'
      <4>1. CASE UNCHANGED dvars
        BY <1>2, <4>1, LagTypes DEF dvars, delays, history
      <4>2. CASE Tick
        BY <1>2, <4>2, LagTypes DEF Tick, delays, history
      <4>3. ASSUME NEW step \in Steps, SetClock(step) \/ SetClock(-step)
            PROVE  stage = "select" /\ UNCHANGED <<queue, due, wakeAt>> /\ time <= time'
        BY <1>2, <4>3, LagTypes DEF SetClock, delays, history
      <4>4. ASSUME NEW u \in Tasks, NEW d \in Delays, Schedule(u, d) PROVE FALSE
        BY <4>4 DEF Schedule
      <4>5. ASSUME NEW k \in DOMAIN queue, Unschedule(k) PROVE FALSE
        BY <4>5 DEF Unschedule
      <4>6. ~SelectTimesOut /\ ~SocketReady /\ ~HandleAlarm /\ ~TaskReturns
        BY DEF SelectTimesOut, SocketReady, HandleAlarm, TaskReturns
      <4> QED
        BY <1>2, <2>2, <4>1, <4>2, <4>3, <4>4, <4>5, <4>6 DEF DelayNext, Loop
    <3>2. set >= 0
      <4>1. CASE set' = set
        BY <4>1
      <4>2. CASE set = 0
        BY <4>2
      <4> QED
        BY <1>2, <2>2, <4>1, <4>2 DEF DelayNext, Loop, Schedule, Unschedule, SelectTimesOut, SocketReady,
           HandleAlarm, TaskReturns, Tick, SetClock, dvars
    <3>3. t \in Queued /\ time < wakeAt
      <4>1. time \in Nat /\ time' \in Nat /\ wakeAt \in Nat
        BY <1>2, DueKept, LagTypes, DelayTypes DEF DueInv, DelayTypeOK
      <4> QED
        BY <3>1, <4>1 DEF Queued
    <3> QED
      BY <1>2, <3>1, <3>2, <3>3 DEF WakesInTime
  <2> QED
    BY <2>1, <2>2
<1> QED
  BY <1>1, <1>2, DueKept, TimeKept, DueInit, TimeInit, PTL DEF DelaySpec
=============================================================================
