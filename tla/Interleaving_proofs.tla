------------------------- MODULE Interleaving_proofs -------------------------
(***************************************************************************)
(* The bytes of the connection, for any subsessions, any server, and bytes *)
(* that come in any pieces: who reads the socket and for whom, and what    *)
(* the interfaces are given (Interleaving); and how RTSPClient cuts what   *)
(* it is given into responses and finds their requests (ResponseBuffer).   *)
(***************************************************************************)
EXTENDS Interleaving, ResponseBuffer, FiniteSetTheorems, SequenceTheorems, WellFoundedInduction, TLAPS

\* The channels on which somebody listens, as the application knows it.
Listening ==
  {Rtcp(i) : i \in open} \cup {Rtp(i) : i \in playing} \cup
  {Rtp(i) : i \in {j \in open : Rtp(j) \notin fReadHandlerProc}}

Types ==
  /\ open \subseteq Subsessions /\ playing \subseteq open
  /\ phase \in {"idle", "loop", "callback"}
  /\ {exists, fServerRequestAlternativeByteHandler, broken, detached,
      fReadErrorOccurred, fDeleteMyselfNext} \subseteq BOOLEAN

\* Whatever happens to the connection and to the interfaces: a descriptor that has lost
\* all of them is in its loop, and to be deleted.
Descriptor ==
  /\ reader = "descriptor" <=> exists
  /\ InLoop => exists
  /\ ~exists => fSubChannelHashTable = {}
  /\ exists /\ fSubChannelHashTable = {} => fDeleteMyselfNext
  /\ exists => fServerRequestAlternativeByteHandler \/ broken \/ detached
  /\ fDeleteMyselfNext => InLoop
  /\ fReadErrorOccurred => broken

\* As long as the connection is not lost and no interface detached, within the loop too:
\* interfaces have their records, and the descriptor knows those that listen; it is to be
\* deleted only when all subsessions are closed.
Connected ==
  /\ fTCPStreams = UNION {ChannelsOf(i) : i \in open}
  /\ \A i \in playing : Rtp(i) \in fReadHandlerProc
  /\ \A i \in Subsessions \ open : Rtp(i) \notin fReadHandlerProc
  /\ fSubChannelHashTable = Listening
  /\ exists <=> open # {} \/ fDeleteMyselfNext
  /\ fDeleteMyselfNext => open = {}
  /\ reader = IF exists THEN "descriptor" ELSE "client"

Undisturbed == ~broken /\ ~detached
IInv == Types /\ Descriptor /\ (Undisturbed => Connected)

-----------------------------------------------------------------------------
(***************************************************************************)
(* Channels.                                                               *)
(***************************************************************************)

\* No two interfaces share a channel.
LEMMA ChannelsApart ==
  ASSUME NEW i \in Subsessions, NEW j \in Subsessions
  PROVE  /\ Rtp(i) # Rtcp(j)
         /\ Rtp(i) = Rtp(j) => i = j
         /\ Rtcp(i) = Rtcp(j) => i = j
BY SubsessionsAssumption DEF Rtp, Rtcp

\* Somebody listens if and only if a subsession is open.
LEMMA ListeningIfOpen == ASSUME Types PROVE Listening = {} <=> open = {}
BY DEF Types, Listening

\* The initial states.
LEMMA InitIInv == Init => IInv
<1> SUFFICES ASSUME Init PROVE IInv
  OBVIOUS
<1>1. Types
  BY DEF Init, Types
<1>2. Descriptor
  BY DEF Init, Descriptor, InLoop
<1>3. Connected
  BY DEF Init, Connected, Listening
<1> QED
  BY <1>1, <1>2, <1>3 DEF IInv

-----------------------------------------------------------------------------
(***************************************************************************)
(* The steps.                                                              *)
(***************************************************************************)

\* Steps that neither set up nor take down anything.
LEMMA ReadingIInv ==
  ASSUME IInv, UNCHANGED <<app, interfaces, descriptor, broken, reader>>,
         phase' \in {"idle", "loop", "callback"}, InLoop => InLoop', InLoop' => exists
  PROVE  IInv'
<1>1. Types'
  BY DEF IInv, Types, app, descriptor
<1>2. Descriptor'
  BY DEF IInv, Descriptor, descriptor, app
<1>3. Undisturbed' => Connected'
  BY DEF IInv, Connected, Listening, Undisturbed, app, interfaces, descriptor
<1> QED
  BY <1>1, <1>2, <1>3 DEF IInv

\* handleSETUPResponse(): what is set up for the first time is registered; RTCP, once more.
LEMMA SetupIInv ==
  ASSUME IInv, NEW S \in SUBSET Subsessions, Setup(S), ~fDeleteMyselfNext,
         UNCHANGED broken, phase' \in {"idle", "loop", "callback"}, InLoop' <=> exists
  PROVE  IInv'
<1> DEFINE rtcp    == {Rtcp(i) : i \in S}
           new     == {Rtp(i) : i \in S} \ fTCPStreams
           emptied == exists /\ rtcp \cap fTCPStreams # {} /\ (fSubChannelHashTable \cup new) \ rtcp = {}
           first   == S \ open
<1>1. /\ open' = open \cup S /\ playing' = playing
      /\ fTCPStreams' = fTCPStreams \cup new \cup rtcp
      /\ fReadHandlerProc' = fReadHandlerProc \cup rtcp
      /\ detached' = (detached \/ emptied)
      /\ fServerRequestAlternativeByteHandler' =
           (fServerRequestAlternativeByteHandler \/ (S # {} /\ exists'))
  BY DEF Setup
<1>2. \/ /\ S = {}
         /\ UNCHANGED <<exists, fSubChannelHashTable, reader, fReadErrorOccurred, fDeleteMyselfNext>>
      \/ /\ S # {} /\ exists' = TRUE
         /\ fSubChannelHashTable' = fSubChannelHashTable \cup (new \cup rtcp)
         /\ reader' = IF fSubChannelHashTable = {} \/ emptied THEN "descriptor" ELSE reader
         /\ fDeleteMyselfNext' = (exists /\ emptied)
         /\ fReadErrorOccurred' \in BOOLEAN /\ (fReadErrorOccurred' => fReadErrorOccurred)
  BY DEF Setup, Register, IInv, Types
<1>3. Types /\ Descriptor
  BY DEF IInv
<1>4. S # {} => fSubChannelHashTable' # {}
  BY <1>2
<1>5. Types'
  BY <1>1, <1>2, <1>3 DEF Types
<1>6. Descriptor'
  <2>1. CASE S = {}
    <3>1. UNCHANGED <<exists, fSubChannelHashTable, reader, fReadErrorOccurred, fDeleteMyselfNext>>
      BY <1>2, <2>1
    <3>2. /\ fServerRequestAlternativeByteHandler => fServerRequestAlternativeByteHandler'
          /\ detached => detached'
      BY <1>1
    <3> QED
      BY <1>3, <3>1, <3>2 DEF Descriptor
  <2>2. CASE S # {}
    <3>1. exists' /\ fServerRequestAlternativeByteHandler' /\ fSubChannelHashTable' # {}
      BY <1>1, <1>2, <1>4, <2>2
    <3>2. (fReadErrorOccurred' => broken) /\ (fDeleteMyselfNext' => exists)
      <4> HIDE DEF rtcp, new, emptied
      <4>1. (fReadErrorOccurred' => fReadErrorOccurred) /\ fDeleteMyselfNext' = (exists /\ emptied)
        BY <1>2, <2>2
      <4> QED
        BY <1>3, <4>1 DEF Descriptor
    <3>3. reader' = "descriptor"
      BY <1>2, <1>3, <2>2 DEF Descriptor
    <3>4. (InLoop' <=> exists) /\ broken' = broken
      OBVIOUS
    <3> HIDE DEF rtcp, new, emptied
    <3> QED
      BY <3>1, <3>2, <3>3, <3>4 DEF Descriptor
  <2> QED
    BY <2>1, <2>2
<1>7. ASSUME Undisturbed' PROVE Connected'
  <2>1. /\ Undisturbed /\ ~emptied
    BY <1>1, <1>3, <1>7 DEF Undisturbed, Types
  <2> HIDE DEF emptied
  <2>2. /\ Connected /\ Types /\ (exists <=> open # {})
        /\ (fSubChannelHashTable = {} <=> open = {})
    BY <2>1, ListeningIfOpen DEF IInv, Connected
  <2>3. \A c : c \in fTCPStreams <=> \E i \in open : c = Rtp(i) \/ c = Rtcp(i)
    BY <2>2 DEF Connected, ChannelsOf
  <2>4. \A c : c \in new \cup rtcp <=> \/ \E i \in first : c = Rtp(i)
                                       \/ \E i \in S : c = Rtcp(i)
    <3>1. \A i \in first : Rtp(i) \notin fTCPStreams
      BY <2>2, <2>3, ChannelsApart DEF Types
    <3>2. \A i \in S \ first : Rtp(i) \in fTCPStreams
      BY <2>3
    <3> QED
      BY <3>1, <3>2
  <2>5. fTCPStreams' = UNION {ChannelsOf(i) : i \in open'}
    <3>1. \A c : c \in fTCPStreams' <=> c \in fTCPStreams \/ c \in new \cup rtcp
      BY <1>1
    <3>2. \A c : c \in UNION {ChannelsOf(i) : i \in open'} <=> \E i \in open' : c = Rtp(i) \/ c = Rtcp(i)
      BY DEF ChannelsOf
    <3>3. open' = open \cup S
      BY <1>1
    <3>4. \A c : c \in fTCPStreams' <=> \E i \in open' : c = Rtp(i) \/ c = Rtcp(i)
      BY <2>3, <2>4, <3>1, <3>3
    <3> QED
      BY <3>2, <3>4
  <2>6. \A i \in Subsessions : Rtp(i) \in fReadHandlerProc' <=> Rtp(i) \in fReadHandlerProc
    BY <1>1, ChannelsApart
  <2>7. \A i \in first : Rtp(i) \notin fReadHandlerProc'
    BY <2>2, <2>6 DEF Connected
  <2>8. \A i \in playing' : Rtp(i) \in fReadHandlerProc'
    BY <1>1, <2>2 DEF Connected
  <2>9. \A i \in Subsessions \ open' : Rtp(i) \notin fReadHandlerProc'
    BY <1>1, <2>2, <2>6 DEF Connected
  <2>10. fSubChannelHashTable' = fSubChannelHashTable \cup (new \cup rtcp)
    <3>1. CASE S = {}
      <4>1. new \cup rtcp = {}
        BY <3>1
      <4> QED
        BY <1>2, <3>1, <4>1
    <3> QED
      BY <1>2, <3>1
  <2>11. fSubChannelHashTable' = Listening'
    <3>1. \A c : c \in Listening' <=> c \in Listening \/ c \in new \cup rtcp
      BY <1>1, <2>2, <2>4, <2>6, <2>7 DEF Listening, Types
    <3> QED
      BY <2>2, <2>10, <3>1 DEF Connected
  <2>12. (exists' <=> open' # {}) /\ fDeleteMyselfNext' = FALSE
    <3>1. CASE S = {}
      <4>1. exists' = exists /\ fDeleteMyselfNext' = fDeleteMyselfNext
        BY <1>2, <3>1
      <4>2. fDeleteMyselfNext \in BOOLEAN
        BY <2>2 DEF Types
      <4>3. open' = open
        BY <1>1, <3>1
      <4> QED
        BY <2>2, <4>1, <4>2, <4>3
    <3>2. CASE S # {}
      <4>1. exists' = TRUE /\ fDeleteMyselfNext' = FALSE
        BY <1>2, <2>1, <3>2
      <4> QED
        BY <1>1, <3>2, <4>1
    <3> QED
      BY <3>1, <3>2
  <2>13. reader' = IF exists' THEN "descriptor" ELSE "client"
    <3>1. CASE S = {}
      <4>1. exists' = exists /\ reader' = reader
        BY <1>2, <3>1
      <4> QED
        BY <2>2, <4>1 DEF Connected
    <3>2. CASE S # {}
      <4>1. exists' /\ (reader' = "descriptor" <=> exists')
        BY <1>2, <1>6, <3>2 DEF Descriptor
      <4> QED
        BY <4>1
    <3> QED
      BY <3>1, <3>2
  <2> QED
    BY <2>5, <2>8, <2>9, <2>11, <2>12, <2>13 DEF Connected
<1> QED
  BY <1>5, <1>6, <1>7 DEF IInv

\* doGetNextFrame(): a source that starts to read is registered once more.
LEMMA PlayIInv == ASSUME IInv, NEW i \in Subsessions, Play(i) PROVE IInv'
<1>1. /\ i \in open /\ i \notin playing /\ open' = open /\ playing' = playing \cup {i}
      /\ fReadHandlerProc' = fReadHandlerProc \cup {Rtp(i)}
      /\ UNCHANGED <<detached, fTCPStreams, phase, broken>>
  BY DEF Play, loop, wire
<1>2. \/ /\ Rtp(i) \in fTCPStreams /\ exists' = TRUE
         /\ fSubChannelHashTable' = fSubChannelHashTable \cup {Rtp(i)}
         /\ reader' = IF fSubChannelHashTable = {} THEN "descriptor" ELSE reader
         /\ fServerRequestAlternativeByteHandler' = (exists /\ fServerRequestAlternativeByteHandler)
         /\ IF exists THEN fDeleteMyselfNext' = (fDeleteMyselfNext \/ FALSE) /\ UNCHANGED fReadErrorOccurred
            ELSE fReadErrorOccurred' = FALSE /\ fDeleteMyselfNext' = FALSE
      \/ /\ Rtp(i) \notin fTCPStreams
         /\ UNCHANGED <<exists, fSubChannelHashTable, reader, fServerRequestAlternativeByteHandler,
                        fReadErrorOccurred, fDeleteMyselfNext>>
  BY DEF Play, Register, descriptor
<1>3. Types /\ Descriptor
  BY DEF IInv
<1>4. ASSUME Undisturbed
      PROVE  /\ Connected /\ exists = TRUE /\ Rtp(i) \in fTCPStreams /\ fSubChannelHashTable # {}
  <2>1. Connected /\ exists = TRUE
    BY <1>1, <1>3, <1>4 DEF IInv, Connected, Types
  <2>2. Rtp(i) \in fTCPStreams
    BY <1>1, <2>1 DEF Connected, ChannelsOf
  <2> QED
    BY <1>1, <1>3, <2>1, <2>2, ListeningIfOpen DEF Connected
<1>5. Types'
  BY <1>1, <1>2, <1>3 DEF Types
<1>6. Descriptor'
  <2>1. ~exists => broken \/ detached
    BY <1>3, <1>4 DEF Undisturbed, Types
  <2>2. CASE Rtp(i) \in fTCPStreams
    <3>1. exists' /\ fSubChannelHashTable' # {} /\ reader' = "descriptor"
      BY <1>2, <1>3, <2>2 DEF Descriptor
    <3>2. (fDeleteMyselfNext' => fDeleteMyselfNext) /\ (fReadErrorOccurred' => fReadErrorOccurred)
      BY <1>2, <2>2
    <3>3. fServerRequestAlternativeByteHandler' \/ broken' \/ detached'
      <4>1. fServerRequestAlternativeByteHandler' = (exists /\ fServerRequestAlternativeByteHandler)
        BY <1>2, <2>2
      <4> QED
        BY <1>1, <1>3, <2>1, <4>1 DEF Descriptor
    <3> QED
      BY <1>1, <1>3, <3>1, <3>2, <3>3 DEF Descriptor, InLoop
  <2>3. CASE Rtp(i) \notin fTCPStreams
    BY <1>1, <1>2, <1>3, <2>3 DEF Descriptor, InLoop
  <2> QED
    BY <2>2, <2>3
<1>7. ASSUME Undisturbed' PROVE Connected'
  <2>1. Undisturbed
    BY <1>1, <1>7 DEF Undisturbed
  <2>2. /\ UNCHANGED <<exists, reader, fReadErrorOccurred>>
        /\ fDeleteMyselfNext' = fDeleteMyselfNext
        /\ fSubChannelHashTable' = fSubChannelHashTable \cup {Rtp(i)}
    BY <1>2, <1>3, <1>4, <2>1 DEF Types
  <2>3. \A j \in Subsessions : Rtp(j) \in fReadHandlerProc' <=> Rtp(j) \in fReadHandlerProc \/ j = i
    BY <1>1, ChannelsApart
  <2>4. fSubChannelHashTable' = Listening'
    <3>1. \A c : c \in Listening' <=> c \in Listening \cup {Rtp(i)}
      BY <1>1, <1>3, <2>3 DEF Listening, Types
    <3> QED
      BY <1>4, <2>1, <2>2, <3>1 DEF Connected
  <2>5. \A j \in playing' : Rtp(j) \in fReadHandlerProc'
    BY <1>1, <1>4, <2>1 DEF Connected
  <2>6. \A j \in Subsessions \ open' : Rtp(j) \notin fReadHandlerProc'
    BY <1>1, <1>4, <2>1, <2>3 DEF Connected
  <2> QED
    BY <1>1, <1>4, <2>1, <2>2, <2>4, <2>5, <2>6 DEF Connected
<1> QED
  BY <1>5, <1>6, <1>7 DEF IInv

\* deregisterSocket() keeps what does not depend on the connection.
LEMMA DeregisterDescriptor ==
  ASSUME IInv, NEW S, NEW gone, Deregister(S, gone), UNCHANGED <<phase, broken>>,
         detached => detached'
  PROVE  /\ Descriptor'
         /\ {exists, fServerRequestAlternativeByteHandler, broken,
             fReadErrorOccurred, fDeleteMyselfNext}' \subseteq BOOLEAN
<1>1. Types /\ Descriptor
  BY DEF IInv
<1>2. CASE exists /\ fSubChannelHashTable \ S = {} /\ ~InLoop
  <2>1. Delete(gone, FALSE)
    BY <1>2 DEF Deregister
  <2> QED
    BY <1>1, <1>2, <2>1 DEF Delete, Types, Descriptor, InLoop
<1>3. CASE ~(exists /\ fSubChannelHashTable \ S = {} /\ ~InLoop)
  <2>1. /\ fDeleteMyselfNext' = (fDeleteMyselfNext \/ (exists /\ fSubChannelHashTable \ S = {}))
        /\ fSubChannelHashTable' = fSubChannelHashTable \ S
        /\ UNCHANGED <<exists, fServerRequestAlternativeByteHandler, fReadErrorOccurred, reader>>
    BY <1>3 DEF Deregister
  <2>2. fDeleteMyselfNext' \in BOOLEAN /\ (fDeleteMyselfNext' => InLoop)
    BY <1>1, <1>3, <2>1 DEF Types, Descriptor
  <2> QED
    BY <1>1, <2>1, <2>2 DEF Types, Descriptor, InLoop
<1> QED
  BY <1>2, <1>3

\* doStopGettingFrames()
LEMMA PauseIInv == ASSUME IInv, NEW i \in Subsessions, Pause(i) PROVE IInv'
<1>1. /\ i \in open /\ i \in playing /\ open' = open /\ playing' = playing \ {i}
      /\ Deregister({Rtp(i)} \cap fTCPStreams, {})
      /\ UNCHANGED <<detached, fReadHandlerProc, phase, broken>>
  BY DEF Pause, loop, wire
<1>2. Types /\ Descriptor
  BY DEF IInv
<1>3. Types'
  BY <1>1, <1>2, DeregisterDescriptor DEF Types
<1>4. Descriptor'
  BY <1>1, DeregisterDescriptor
<1>5. ASSUME Undisturbed' PROVE Connected'
  <2>1. Connected
    BY <1>1, <1>5 DEF IInv, Undisturbed
  <2>2. Rtp(i) \in fTCPStreams
    BY <1>1, <2>1 DEF Connected, ChannelsOf
  <2>3. Rtcp(i) \in fSubChannelHashTable \ {Rtp(i)}
    BY <1>1, <2>1, ChannelsApart DEF Connected, Listening
  <2>4. /\ fSubChannelHashTable' = fSubChannelHashTable \ {Rtp(i)}
        /\ fTCPStreams' = fTCPStreams
        /\ (fDeleteMyselfNext' <=> fDeleteMyselfNext) /\ UNCHANGED <<exists, reader>>
    <3>1. {Rtp(i)} \cap fTCPStreams = {Rtp(i)}
      BY <2>2
    <3> QED
      BY <1>1, <2>3, <3>1 DEF Deregister
  <2>5. fSubChannelHashTable' = Listening'
    <3>1. \A c : c \in Listening' <=> c \in Listening \ {Rtp(i)}
      BY <1>1, <1>2, <2>1, ChannelsApart DEF Listening, Connected, Types
    <3> QED
      BY <2>1, <2>4, <3>1 DEF Connected
  <2> QED
    BY <1>1, <2>1, <2>4, <2>5 DEF Connected
<1> QED
  BY <1>1, <1>3, <1>4, <1>5 DEF IInv

\* deInitiate(): the last subsession takes the descriptor with it, after the loop.
LEMMA CloseIInv == ASSUME IInv, NEW i \in Subsessions, Close(i) PROVE IInv'
<1>1. /\ i \in open /\ open' = open \ {i} /\ playing' = playing \ {i}
      /\ Deregister(ChannelsOf(i) \cap fTCPStreams, ChannelsOf(i))
      /\ fReadHandlerProc' = fReadHandlerProc \ ChannelsOf(i)
      /\ UNCHANGED <<detached, phase, broken>>
  BY DEF Close, loop, wire
<1>2. Types /\ Descriptor
  BY DEF IInv
<1>3. Types'
  BY <1>1, <1>2, DeregisterDescriptor DEF Types
<1>4. Descriptor'
  BY <1>1, DeregisterDescriptor
<1>5. ASSUME Undisturbed' PROVE Connected'
  <2>1. Connected /\ exists
    BY <1>1, <1>5 DEF IInv, Connected, Undisturbed
  <2>2. ChannelsOf(i) \cap fTCPStreams = ChannelsOf(i)
    BY <1>1, <2>1 DEF Connected
  <2>3. ~fDeleteMyselfNext
    BY <1>1, <2>1 DEF Connected
  <2>4. \A j \in Subsessions : j # i => Rtp(j) \notin ChannelsOf(i) /\ Rtcp(j) \notin ChannelsOf(i)
    BY ChannelsApart DEF ChannelsOf
  <2>5. Rtp(i) \in ChannelsOf(i) /\ Rtcp(i) \in ChannelsOf(i)
    BY DEF ChannelsOf
  <2>6. fSubChannelHashTable \ ChannelsOf(i) = Listening'
    <3>1. \A j \in open' : Rtp(j) \in fReadHandlerProc' <=> Rtp(j) \in fReadHandlerProc
      BY <1>1, <1>2, <2>4 DEF Types
    <3>2. ASSUME NEW c PROVE c \in Listening' <=> c \in Listening /\ c \notin ChannelsOf(i)
      BY <1>1, <1>2, <2>4, <2>5, <3>1 DEF Listening, Types
    <3> QED
      BY <2>1, <3>2 DEF Connected
  <2>7. Listening' = {} <=> open' = {}
    BY <1>3 DEF Listening, Types
  <2>8. fTCPStreams' = UNION {ChannelsOf(j) : j \in open'}
    <3>1. fTCPStreams' = fTCPStreams \ ChannelsOf(i)
      BY <1>1 DEF Deregister, Delete
    <3>2. \A j \in open : j # i => ChannelsOf(j) \cap ChannelsOf(i) = {}
      BY <1>2, <2>4 DEF Types, ChannelsOf
    <3> QED
      BY <1>1, <2>1, <3>1, <3>2 DEF Connected
  <2>9. /\ \A j \in playing' : Rtp(j) \in fReadHandlerProc'
        /\ \A j \in Subsessions \ open' : Rtp(j) \notin fReadHandlerProc'
    BY <1>1, <1>2, <2>1, <2>4, <2>5 DEF Connected, Types
  <2>10. CASE open' = {} /\ ~InLoop
    <3>1. Delete(ChannelsOf(i), FALSE)
      BY <1>1, <2>1, <2>2, <2>6, <2>7, <2>10 DEF Deregister
    <3>2. /\ exists' = FALSE /\ fSubChannelHashTable' = {} /\ fDeleteMyselfNext' = FALSE
          /\ reader' = "client"
      BY <1>1, <1>2, <1>5, <2>1, <3>1 DEF Delete, Descriptor, Undisturbed
    <3> QED
      BY <2>7, <2>8, <2>9, <2>10, <3>2 DEF Connected
  <2>11. CASE ~(open' = {} /\ ~InLoop)
    <3>1. /\ fSubChannelHashTable' = fSubChannelHashTable \ ChannelsOf(i)
          /\ fDeleteMyselfNext' = (fDeleteMyselfNext \/ (exists /\ open' = {}))
          /\ UNCHANGED <<exists, reader>>
      BY <1>1, <2>2, <2>6, <2>7, <2>11 DEF Deregister
    <3> QED
      BY <2>1, <2>3, <2>6, <2>8, <2>9, <3>1 DEF Connected
  <2> QED
    BY <2>10, <2>11
<1> QED
  BY <1>1, <1>3, <1>4, <1>5 DEF IInv

\* A report cannot be sent: its interface is detached.
LEMMA SendFailsIInv == ASSUME IInv, NEW i \in Subsessions, SendFails(i) PROVE IInv'
<1>1. /\ Deregister({Rtcp(i)}, {Rtcp(i)}) /\ detached' = TRUE
      /\ UNCHANGED <<open, playing, phase, broken>>
  BY DEF SendFails, loop, wire
<1>2. Types' /\ Descriptor'
  BY <1>1, DeregisterDescriptor DEF IInv, Types
<1> QED
  BY <1>1, <1>2 DEF IInv, Undisturbed

\* The connection is lost.
LEMMA BreakIInv == ASSUME IInv, Break PROVE IInv'
<1>1. /\ broken' = TRUE
      /\ UNCHANGED <<open, playing, detached, phase, exists, fSubChannelHashTable,
                     fServerRequestAlternativeByteHandler, fReadErrorOccurred, fDeleteMyselfNext, reader>>
  BY DEF Break, app, loop, descriptor
<1>2. Types' /\ Descriptor'
  BY <1>1 DEF IInv, Types, Descriptor, InLoop
<1> QED
  BY <1>1, <1>2 DEF IInv, Undisturbed

\* RTSPClient reads the socket.
LEMMA ClientIInv == ASSUME IInv, ClientReads \/ ClientReadFails PROVE IInv'
<1>1. CASE ClientReads
  <2>1. /\ Setup(Answered(taken + 1, arrived)) /\ phase = "idle" /\ reader = "client"
        /\ UNCHANGED <<phase, broken>> /\ Answered(taken + 1, arrived) \in SUBSET Subsessions
    BY <1>1 DEF ClientReads, loop, wire, Answered
  <2>2. ~fDeleteMyselfNext /\ ~InLoop' /\ ~exists
    BY <2>1 DEF IInv, Descriptor, InLoop
  <2> QED
    BY <2>1, <2>2, SetupIInv
<1>2. CASE ClientReadFails
  <2>1. /\ broken /\ reader = "client" /\ reader' = "none"
        /\ UNCHANGED <<open, playing, detached, phase, exists, fSubChannelHashTable,
                       fServerRequestAlternativeByteHandler, fReadErrorOccurred, fDeleteMyselfNext, broken>>
    BY <1>2 DEF ClientReadFails, app, loop, descriptor, wire
  <2>2. Types' /\ Descriptor'
    BY <2>1 DEF IInv, Types, Descriptor, InLoop
  <2> QED
    BY <2>1, <2>2 DEF IInv, Undisturbed
<1> QED
  BY <1>1, <1>2

\* A byte between packets goes to RTSPClient, which may find a SETUP answered.
LEMMA AwaitingDollarIInv == ASSUME IInv, AwaitingDollar PROVE IInv'
<1>1. phase = "loop" /\ ~fDeleteMyselfNext /\ exists /\ UNCHANGED broken
  BY DEF AwaitingDollar, ReadingHeader, Reading, IInv, Descriptor, InLoop, wire
<1>2. CASE UNCHANGED <<app, interfaces, descriptor, phase, reader>>
  BY <1>1, <1>2, ReadingIInv DEF InLoop
<1>3. CASE phase' = "callback" /\ Setup(Answered(taken + 1, taken + 1))
  <2>1. Answered(taken + 1, taken + 1) \in SUBSET Subsessions
    BY DEF Answered
  <2>2. InLoop'
    BY <1>3 DEF InLoop
  <2> QED
    BY <1>1, <1>3, <2>1, <2>2, SetupIInv
<1> QED
  BY <1>2, <1>3 DEF AwaitingDollar

\* The other steps that read the socket.
LEMMA PacketIInv ==
  ASSUME IInv,
         \/ Arrive \/ Readable \/ AwaitingChannel \/ AwaitingSize1 \/ AwaitingSize2
         \/ NothingToRead \/ SkipByte \/ PacketDone \/ ReadPacket \/ HandlerReturns
  PROVE  IInv'
<1>1. Types /\ Descriptor
  BY DEF IInv
<1>2. UNCHANGED <<app, interfaces, descriptor, broken, reader>>
  BY DEF Arrive, Readable, AwaitingChannel, AwaitingSize1, AwaitingSize2, NothingToRead,
         SkipByte, PacketDone, ReadPacket, HandlerReturns, wire
<1>3. CASE UNCHANGED phase
  BY <1>1, <1>2, <1>3, ReadingIInv DEF InLoop, Types, Descriptor
<1>4. CASE phase' \in {"loop", "callback"} /\ exists
  BY <1>2, <1>4, ReadingIInv DEF InLoop
<1>5. CASE Readable
  BY <1>1, <1>4, <1>5 DEF Readable, Descriptor
<1>6. CASE ReadPacket \/ HandlerReturns
  <2>1. phase \in {"loop", "callback"} /\ phase' \in {"loop", "callback"}
    BY <1>6 DEF ReadPacket, HandlerReturns, ReadingData, Reading
  <2> QED
    BY <1>1, <1>4, <2>1 DEF Descriptor, InLoop
<1>7. CASE Arrive \/ AwaitingChannel \/ AwaitingSize1 \/ AwaitingSize2 \/ NothingToRead
           \/ SkipByte \/ PacketDone
  <2>1. UNCHANGED phase
    BY <1>7 DEF Arrive, AwaitingChannel, AwaitingSize1, AwaitingSize2, NothingToRead,
                SkipByte, PacketDone, loop
  <2> QED
    BY <1>3, <2>1
<1> QED
  BY <1>5, <1>6, <1>7

\* An error ends the loop.
LEMMA ReadFailsIInv == ASSUME IInv, ReadFails PROVE IInv'
<1>1. /\ broken /\ phase = "loop" /\ fReadErrorOccurred' = TRUE /\ fDeleteMyselfNext' = TRUE
      /\ UNCHANGED <<open, playing, detached, phase, exists, fSubChannelHashTable,
                     fServerRequestAlternativeByteHandler, reader, broken>>
  BY DEF ReadFails, ReadingHeader, Skipping, ReadingData, Reading, app, wire
<1>2. Types' /\ Descriptor'
  BY <1>1 DEF IInv, Types, Descriptor, InLoop
<1> QED
  BY <1>1, <1>2 DEF IInv, Undisturbed

\* The loop ends, and the descriptor with it if it was to be deleted.
LEMMA LoopEndsIInv == ASSUME IInv, LoopEnds PROVE IInv'
<1>1. /\ phase = "loop" /\ phase' = "idle" /\ exists
      /\ UNCHANGED <<open, playing, detached, fReadHandlerProc, broken>>
  BY DEF LoopEnds, IInv, Descriptor, InLoop, app, wire
<1>2. Types /\ Descriptor
  BY DEF IInv
<1>3. CASE ~fDeleteMyselfNext
  <2>1. UNCHANGED <<exists, fSubChannelHashTable, fServerRequestAlternativeByteHandler,
                    fReadErrorOccurred, fDeleteMyselfNext, reader, fTCPStreams>>
    BY <1>3 DEF LoopEnds, descriptor
  <2>2. Types' /\ Descriptor'
    BY <1>1, <1>2, <1>3, <2>1 DEF Types, Descriptor, InLoop
  <2>3. Undisturbed' => Connected'
    BY <1>1, <2>1 DEF IInv, Connected, Listening, Undisturbed
  <2> QED
    BY <2>2, <2>3 DEF IInv
<1>4. CASE fDeleteMyselfNext
  <2>1. Delete(fSubChannelHashTable, fReadErrorOccurred)
    BY <1>4 DEF LoopEnds
  <2>2. Types' /\ Descriptor'
    BY <1>1, <1>2, <2>1 DEF Types, Descriptor, InLoop, Delete
  <2>3. ASSUME Undisturbed' PROVE Connected'
    <3>1. Undisturbed /\ Connected /\ open = {} /\ playing = {}
      BY <1>1, <1>2, <1>4, <2>3 DEF IInv, Connected, Types, Undisturbed
    <3>2. fSubChannelHashTable = {}
      BY <3>1 DEF Connected, Listening
    <3>3. fServerRequestAlternativeByteHandler /\ ~fReadErrorOccurred
      BY <1>1, <1>2, <3>1 DEF Descriptor, Undisturbed
    <3>4. /\ exists' = FALSE /\ fSubChannelHashTable' = {} /\ fDeleteMyselfNext' = FALSE
          /\ reader' = "client" /\ fTCPStreams' = fTCPStreams
      BY <2>1, <3>2, <3>3 DEF Delete
    <3> QED
      BY <1>1, <3>1, <3>4 DEF Connected, Listening
  <2> QED
    BY <1>1, <2>2, <2>3 DEF IInv
<1> QED
  BY <1>3, <1>4

\* The invariant is kept by every step.
LEMMA NextIInv == IInv /\ [Next]_vars => IInv'
<1> SUFFICES ASSUME IInv, [Next]_vars PROVE IInv'
  OBVIOUS
<1>1. CASE UNCHANGED vars
  <2>1. UNCHANGED <<app, interfaces, descriptor, broken, reader, phase>>
    BY <1>1 DEF vars, state, loop, wire
  <2> QED
    BY <2>1, ReadingIInv DEF IInv, Types, Descriptor, InLoop
<1>2. ASSUME NEW i \in Subsessions, Play(i) \/ Pause(i) \/ Close(i) \/ SendFails(i) PROVE IInv'
  BY <1>2, PlayIInv, PauseIInv, CloseIInv, SendFailsIInv
<1>3. CASE Arrive \/ Break \/ Step
  BY <1>3, PacketIInv, BreakIInv, ClientIInv, AwaitingDollarIInv, ReadFailsIInv, LoopEndsIInv
     DEF Step
<1> QED
  BY <1>1, <1>2, <1>3 DEF Next

-----------------------------------------------------------------------------
(***************************************************************************)
(* The results.                                                            *)
(***************************************************************************)

\* What the invariant says when the loop is not running.
LEMMA IInvAttends == IInv => Attended
<1> SUFFICES ASSUME IInv PROVE Attended
  OBVIOUS
<1>1. Types /\ Descriptor
  BY DEF IInv
<1>2. phase = "idle" => (exists <=> fSubChannelHashTable # {})
  BY <1>1 DEF Descriptor, InLoop
<1>3. ASSUME phase = "idle", ~broken, ~detached
      PROVE  /\ fSubChannelHashTable = Listening
             /\ reader = IF exists THEN "descriptor" ELSE "client"
  BY <1>3 DEF IInv, Connected, Undisturbed
<1> QED
  BY <1>1, <1>2, <1>3 DEF Attended, Descriptor, Listening

\* The socket has one reader; as long as it is the descriptor, that one has an interface,
\* but for the end of its loop, within which it is not deleted; and it knows all that
\* listen until the connection is lost or an interface detached (lookupSocketDescriptor(),
\* deregisterRTPInterface(), tcpReadHandler(), setStreamSocket()): for any subsessions,
\* whatever the server sends, whichever SETUPs it answers again, whenever the application
\* pauses or closes, a report cannot be sent or the connection breaks.
THEOREM OneReader == Spec => []Attended
BY InitIInv, NextIInv, IInvAttends, PTL DEF Spec

-----------------------------------------------------------------------------
(***************************************************************************)
(* What the bytes become: Framed. The descriptor is always at the end of a *)
(* unit or at a place within a packet that its state tells; and the        *)
(* handlers were given the units before.                                   *)
(***************************************************************************)

Units == DOMAIN world.wire
IsPacket(k) == world.wire[k].to # RTSP
Attached == \A i \in open : ChannelsOf(i) \subseteq fTCPStreams
Empty == \A c \in Channels : fInBuf[c] = <<>>

\* In a calm world, whatever becomes of the connection: the descriptor is there as long as
\* it has interfaces, all of them of open subsessions; those have a handler, whatever is
\* sent to them; and a subsession that is open has had its answer.
Ruled ==
  /\ fSubChannelHashTable = fTCPStreams
  /\ fTCPStreams \subseteq UNION {ChannelsOf(i) : i \in open}
  /\ exists <=> fSubChannelHashTable # {}
  /\ reader = "descriptor" <=> exists
  /\ exists => fServerRequestAlternativeByteHandler
  /\ \A i \in Subsessions : Rtp(i) \in fReadHandlerProc => i \in open
  /\ \A i \in open : Rtcp(i) \in fReadHandlerProc
  /\ \A k \in Units, i \in Subsessions :
       IsPacket(k) /\ End(k - 1) < arrived /\ world.wire[k].to \in ChannelsOf(i) => Rtp(i) \in fReadHandlerProc
  /\ \A i \in open : \E k \in Units : ~IsPacket(k) /\ world.wire[k].setup = i /\ End(k) <= taken
  /\ broken => world.breaks
  /\ detached => world.breaks \/ world.stalls

\* Where the descriptor is: at the end of a unit, or within packet `k'.
Between(k) ==
  /\ taken = End(k) /\ Empty
  /\ \/ fTCPReadingState = "AWAITING_DOLLAR"
     \/ /\ fTCPReadingState = "AWAITING_PACKET_DATA"
        /\ chan \in fSubChannelHashTable /\ fNextTCPReadSize[chan] = 0
Header(k) ==
  LET u == world.wire[k]
      n == taken - End(k - 1)
  IN /\ Empty
     /\ \/ fTCPReadingState = "AWAITING_STREAM_CHANNEL_ID" /\ n = 1
        \/ fTCPReadingState = "AWAITING_SIZE1" /\ n = 2 /\ chan = u.to
        \/ fTCPReadingState = "AWAITING_SIZE2" /\ n = 3 /\ chan = u.to /\ fSizeByte1 = Len(u.data) \div Radix
Inside(k) ==
  LET u == world.wire[k]
      left == fNextTCPReadSize[chan]
  IN /\ fTCPReadingState = "AWAITING_PACKET_DATA" /\ chan = u.to /\ left > 0
     /\ taken > End(k - 1)
     /\ chan \in fNextTCPReadStreamSocketNum =>
          /\ left <= Len(u.data) /\ taken + left = End(k)
          /\ fInBuf[chan] = SubSeq(u.data, 1, Len(u.data) - left)
          /\ \A c \in Channels \ {chan} : fInBuf[c] = <<>>
Parsed(k) ==
  /\ k \in 0..Len(world.wire) /\ GivenUpTo(k)
  /\ Between(k) \/ (k + 1 \in Units /\ IsPacket(k + 1) /\ (Header(k + 1) \/ Inside(k + 1)))
FInv == TypeOK /\ IInv /\ (Calm => Ruled) /\ (Steady => \E k \in 0..Len(world.wire) : Parsed(k))

-----------------------------------------------------------------------------
(***************************************************************************)
(* What is sent.                                                           *)
(***************************************************************************)

\* Some number of a set is the least.
LEMMA Least ==
  ASSUME NEW T, T \subseteq Nat, T # {}
  PROVE  \E x \in T : \A y \in T : ~(y < x)
<1>1. PICK x \in T : \A y \in T : ~(<<y, x>> \in OpToRel(<, Nat))
  BY NatLessThanWellFounded, WFMin
<1> QED
  BY <1>1 DEF OpToRel

\* Channels are numbers.
LEMMA ChannelsTypes == Channels \subseteq Nat /\ RTSP \notin Channels /\ RtcpChannels \subseteq Channels
<1>1. Channels \subseteq Nat /\ RtcpChannels \subseteq Channels
  BY SubsessionsAssumption DEF Channels, ChannelsOf, RtcpChannels, Rtp, Rtcp
<1> QED
  BY <1>1 DEF RTSP

\* The bytes of a unit.
LEMMA UnitBytes ==
  ASSUME NEW u \in Packets \cup Texts
  PROVE  /\ u.data \in Seq(Nat) /\ Encoded(u) \in Seq(Nat) /\ Len(Encoded(u)) \in Nat \ {0}
         /\ u.to = RTSP => Encoded(u) = u.data /\ Len(u.data) = 1 /\ u \in Texts
         /\ u.to # RTSP =>
              /\ u \in Packets /\ u.to \in Channels /\ Len(Encoded(u)) = 4 + Len(u.data)
              /\ Encoded(u)[1] = Dollar /\ Encoded(u)[2] = u.to
              /\ Encoded(u)[3] = Len(u.data) \div Radix /\ Encoded(u)[4] = Len(u.data) % Radix
              /\ \A i \in 1..Len(u.data) : Encoded(u)[4 + i] = u.data[i]
<1>1. u.data \in Seq(Nat) /\ Len(u.data) \in Nat
  BY LenProperties DEF Packets, Texts
<1> DEFINE d == u.data
           e == Encoded(u)
           n == Len(d)
<1>2. d \in Seq(Nat) /\ n \in Nat
  BY <1>1
<1>3. CASE u \in Texts
  <2>1. u.to = RTSP /\ n = 1
    BY <1>3 DEF Texts
  <2>2. e = d
    BY <2>1 DEF Encoded
  <2> HIDE DEF d, e
  <2>3. Len(e) = 1 /\ e \in Seq(Nat)
    BY <1>2, <2>1, <2>2, Zenon
  <2>4. Len(e) \in Nat \ {0}
    BY <2>3
  <2> QED
    BY <1>2, <1>3, <2>1, <2>2, <2>3, <2>4 DEF d, e
<1>4. CASE u \in Packets
  <2>1. u.to \in Channels /\ u.to # RTSP /\ u.to \in Nat
    BY <1>4, ChannelsTypes DEF Packets
  <2> DEFINE h == <<Dollar, u.to, n \div Radix, n % Radix>>
  <2>2. Radix \in Nat \ {0}
    BY SizesAssumption
  <2>3. e = h \o d
    BY <2>1 DEF Encoded
  <2> HIDE DEF d, e, n
  <2>4. n \div Radix \in Nat /\ n % Radix \in Nat
    BY <1>2, <2>2
  <2>5. h \in Seq(Nat) /\ Len(h) = 4 /\ h[1] = Dollar /\ h[2] = u.to /\ h[3] = n \div Radix /\ h[4] = n % Radix
    <3>1. Dollar \in Nat
      BY DEF Dollar
    <3> QED
      BY <2>1, <2>4, <3>1
  <2> HIDE DEF h
  <2>6. n = Len(d)
    BY DEF n
  <2>7. /\ h \o d \in Seq(Nat) /\ Len(h \o d) = Len(h) + Len(d)
        /\ \A i \in 1..Len(h) + Len(d) : (h \o d)[i] = IF i <= Len(h) THEN h[i] ELSE d[i - Len(h)]
    BY <1>2, <2>5, ConcatProperties
  <2>8. e \in Seq(Nat) /\ Len(e) = 4 + n /\ \A i \in 1..4 + n : e[i] = IF i <= 4 THEN h[i] ELSE d[i - 4]
    BY <2>3, <2>5, <2>6, <2>7
  <2>9. \A i \in 1..n : e[4 + i] = d[i]
    <3>1. ASSUME NEW i \in 1..n PROVE 4 + i \in 1..4 + n /\ ~(4 + i <= 4) /\ 4 + i - 4 = i
      BY <1>2
    <3> QED
      BY <2>8, <3>1
  <2>10. e[1] = h[1] /\ e[2] = h[2] /\ e[3] = h[3] /\ e[4] = h[4]
    BY <1>2, <2>8
  <2>11. Len(e) \in Nat \ {0}
    BY <1>2, <2>8
  <2> QED
    BY <1>2, <1>4, <2>1, <2>5, <2>8, <2>9, <2>10, <2>11 DEF d, e, n
<1> QED
  BY <1>3, <1>4

\* The function that EndOf is made of exists.
LEMMA EndExists ==
  ASSUME NEW w \in Worlds
  PROVE  \E f : f = [k \in 0..Len(w.wire) |-> IF k = 0 THEN 0 ELSE f[k - 1] + Len(Encoded(w.wire[k]))]
<1> DEFINE n == Len(w.wire)
           s == w.wire
           Ends(m, f) == f = [k \in 0..m |-> IF k = 0 THEN 0 ELSE f[k - 1] + Len(Encoded(s[k]))]
           T == {m \in 0..n : ~ \E f : Ends(m, f)}
<1>1. n \in Nat
  BY LenProperties, WorldsAssumption
<1> HIDE DEF n, s
<1>2. SUFFICES ASSUME T # {} PROVE FALSE
  BY <1>1 DEF n, s
<1>3. T \subseteq Nat
  BY <1>1
<1>4. PICK m \in T : \A k \in T : ~(k < m)
  BY <1>2, <1>3, Least
<1>5. m \in Nat /\ m \in 0..n
  BY <1>3
<1>6. CASE m = 0
  <2> DEFINE f == [k \in 0..0 |-> 0]
  <2>1. Ends(0, f)
    OBVIOUS
  <2> QED
    BY <1>4, <1>6, <2>1
<1>7. CASE m # 0
  <2>1. m - 1 \in 0..n /\ m - 1 < m
    BY <1>1, <1>5, <1>7
  <2>2. PICK f : Ends(m - 1, f)
    BY <1>4, <2>1
  <2> DEFINE g == [k \in 0..m |-> IF k = m THEN f[m - 1] + Len(Encoded(s[m])) ELSE f[k]]
  <2>3. \A k \in 0..m : g[k] = IF k = 0 THEN 0 ELSE g[k - 1] + Len(Encoded(s[k]))
    <3> SUFFICES ASSUME NEW k \in 0..m PROVE g[k] = IF k = 0 THEN 0 ELSE g[k - 1] + Len(Encoded(s[k]))
      OBVIOUS
    <3>1. CASE k = m
      BY <1>5, <1>7, <3>1
    <3>2. CASE k # m
      <4>1. k \in 0..m - 1 /\ (k = 0 \/ k - 1 \in 0..m - 1)
        BY <1>5, <3>2
      <4>2. g[k] = f[k] /\ (k # 0 => g[k - 1] = f[k - 1])
        BY <1>5, <3>2, <4>1
      <4> QED
        BY <2>2, <4>1, <4>2
    <3> QED
      BY <3>1, <3>2
  <2>4. Ends(m, g)
    BY <2>3
  <2> QED
    BY <1>4, <2>4
<1> QED
  BY <1>6, <1>7

\* Where units end: one after the other.
LEMMA EndOfUnits ==
  ASSUME NEW w \in Worlds
  PROVE  /\ Len(w.wire) \in Nat /\ DOMAIN w.wire = 1..Len(w.wire)
         /\ \A k \in 1..Len(w.wire) : w.wire[k] \in Packets \cup Texts
         /\ EndOf[w][0] = 0
         /\ \A k \in 0..Len(w.wire) : EndOf[w][k] \in Nat
         /\ \A k \in 1..Len(w.wire) : EndOf[w][k] = EndOf[w][k - 1] + Len(Encoded(w.wire[k]))
<1> DEFINE n == Len(w.wire)
           s == w.wire
           e == EndOf[w]
<1>1. n \in Nat /\ DOMAIN s = 1..n /\ \A k \in 1..n : s[k] \in Packets \cup Texts
  BY LenProperties, ElementOfSeq, WorldsAssumption
<1>2. e = [k \in 0..n |-> IF k = 0 THEN 0 ELSE e[k - 1] + Len(Encoded(s[k]))]
  BY EndExists DEF EndOf
<1> HIDE DEF n, s, e
<1>3. e[0] = 0
  BY <1>1, <1>2
<1>4. \A k \in 1..n : k \in 0..n /\ k # 0 /\ k - 1 \in 0..n
  BY <1>1
<1>5. \A k \in 1..n : e[k] = e[k - 1] + Len(Encoded(s[k]))
  BY <1>2, <1>4
<1>6. \A k \in 0..n : e[k] \in Nat
  <2> DEFINE T == {k \in 0..n : e[k] \notin Nat}
  <2>1. SUFFICES ASSUME T # {} PROVE FALSE
    OBVIOUS
  <2>2. T \subseteq Nat
    BY <1>1
  <2>3. PICK k \in T : \A j \in T : ~(j < k)
    BY <2>1, <2>2, Least
  <2>4. k # 0 /\ k \in 1..n
    BY <1>1, <1>3, <2>3
  <2>5. e[k - 1] \in Nat
    BY <1>1, <1>4, <2>3, <2>4
  <2>6. Len(Encoded(s[k])) \in Nat
    BY <1>1, <2>4, UnitBytes
  <2> QED
    BY <1>5, <2>3, <2>4, <2>5, <2>6
<1> QED
  BY <1>1, <1>3, <1>5, <1>6 DEF n, s, e

\* Units do not overlap.
LEMMA EndsApart ==
  ASSUME NEW w \in Worlds, NEW j \in 0..Len(w.wire), NEW k \in 0..Len(w.wire), j < k
  PROVE  EndOf[w][j] < EndOf[w][k]
<1> DEFINE n == Len(w.wire)
           e == EndOf[w]
           T == {m \in j + 1..n : ~(e[j] < e[m])}
<1>1. /\ n \in Nat /\ \A m \in 0..n : e[m] \in Nat
      /\ \A m \in 1..n : e[m] = e[m - 1] + Len(Encoded(w.wire[m])) /\ Len(Encoded(w.wire[m])) \in Nat \ {0}
  BY EndOfUnits, UnitBytes
<1> HIDE DEF e, n
<1>2. j \in 0..n /\ k \in 0..n
  BY DEF n
<1>3. SUFFICES ASSUME T # {} PROVE FALSE
  <2>1. k \in j + 1..n
    BY <1>1, <1>2
  <2> QED
    BY <2>1 DEF e
<1>4. T \subseteq Nat
  BY <1>1, <1>2
<1>5. PICK m \in T : \A i \in T : ~(i < m)
  BY <1>3, <1>4, Least
<1>6. m \in 1..n /\ m - 1 \in 0..n /\ j <= m - 1 /\ m - 1 < m
  BY <1>1, <1>2, <1>5
<1>7. e[m - 1] < e[m]
  BY <1>1, <1>6
<1>8. e[j] <= e[m - 1]
  <2>1. CASE j = m - 1
    BY <1>1, <1>2, <2>1
  <2>2. CASE j # m - 1
    <3>1. m - 1 \in j + 1..n
      BY <1>1, <1>2, <1>6, <2>2
    <3>2. m - 1 \notin T
      BY <1>5, <1>6
    <3>3. e[j] < e[m - 1]
      BY <3>1, <3>2
    <3> QED
      BY <1>1, <1>2, <1>6, <3>3
  <2> QED
    BY <2>1, <2>2
<1>9. e[j] < e[m]
  BY <1>1, <1>2, <1>6, <1>7, <1>8
<1> QED
  BY <1>5, <1>9

\* Every byte is one of a unit.
LEMMA UnitAt ==
  ASSUME NEW w \in Worlds, NEW b \in 1..EndOf[w][Len(w.wire)]
  PROVE  \E k \in 1..Len(w.wire) : b \in EndOf[w][k - 1] + 1..EndOf[w][k]
<1> DEFINE n == Len(w.wire)
           e == EndOf[w]
           T == {m \in 0..n : b <= e[m]}
<1>1. n \in Nat /\ e[0] = 0 /\ \A m \in 0..n : e[m] \in Nat
  BY EndOfUnits
<1> HIDE DEF e, n
<1>2. b \in 1..e[n] /\ n \in 0..n
  BY <1>1 DEF e, n
<1>3. T \subseteq Nat /\ n \in T
  BY <1>1, <1>2
<1>4. PICK m \in T : \A i \in T : ~(i < m)
  BY <1>3, Least
<1>5. m # 0 /\ m \in 1..n /\ m - 1 \in 0..n /\ m \in 0..n /\ m - 1 < m
  BY <1>1, <1>2, <1>4
<1>6. ~(b <= e[m - 1])
  BY <1>4, <1>5
<1>7. b \in e[m - 1] + 1..e[m]
  BY <1>1, <1>2, <1>4, <1>5, <1>6
<1> QED
  BY <1>5, <1>7 DEF e, n

\* It is one of no other.
LEMMA UnitOnce ==
  ASSUME NEW w \in Worlds, NEW b, NEW j \in 1..Len(w.wire), NEW k \in 1..Len(w.wire),
         b \in EndOf[w][j - 1] + 1..EndOf[w][j], b \in EndOf[w][k - 1] + 1..EndOf[w][k]
  PROVE  j = k
<1> DEFINE n == Len(w.wire)
           e == EndOf[w]
<1>1. n \in Nat /\ j \in 1..n /\ k \in 1..n
  BY EndOfUnits
<1>2. j - 1 \in 0..n /\ j \in 0..n /\ k - 1 \in 0..n /\ k \in 0..n
  BY <1>1
<1>3. /\ e[j - 1] \in Nat /\ e[j] \in Nat /\ e[k - 1] \in Nat /\ e[k] \in Nat
  BY <1>2, EndOfUnits
<1>4. j < k => j = k - 1 \/ e[j] < e[k - 1]
  BY <1>1, <1>2, EndsApart
<1>5. k < j => k = j - 1 \/ e[k] < e[j - 1]
  BY <1>1, <1>2, EndsApart
<1> HIDE DEF n, e
<1>6. b \in e[j - 1] + 1..e[j] /\ b \in e[k - 1] + 1..e[k]
  BY DEF e
<1>7. b \in Nat /\ e[j - 1] < b /\ b <= e[j] /\ e[k - 1] < b /\ b <= e[k]
  BY <1>3, <1>6
<1>8. ~(j < k)
  BY <1>3, <1>4, <1>7
<1>9. ~(k < j)
  BY <1>3, <1>5, <1>7
<1> QED
  BY <1>1, <1>8, <1>9

\* The bytes, unit by unit.
LEMMA BytesOfUnits ==
  ASSUME NEW w \in Worlds
  PROVE  /\ BytesOf[w] \in Seq(Nat) /\ Len(BytesOf[w]) = EndOf[w][Len(w.wire)]
         /\ \A k \in 1..Len(w.wire) : \A i \in 1..Len(Encoded(w.wire[k])) :
              BytesOf[w][EndOf[w][k - 1] + i] = Encoded(w.wire[k])[i]
<1> DEFINE n == Len(w.wire)
           s == w.wire
           e == EndOf[w]
           At(b) == CHOOSE k \in DOMAIN s : b \in e[k - 1] + 1..e[k]
           byte(b) == Encoded(s[At(b)])[b - e[At(b) - 1]]
<1>1. /\ n \in Nat /\ DOMAIN s = 1..n /\ e[0] = 0 /\ \A m \in 0..n : e[m] \in Nat
      /\ \A m \in 1..n : s[m] \in Packets \cup Texts
      /\ \A m \in 1..n : e[m] = e[m - 1] + Len(Encoded(s[m]))
  BY EndOfUnits
<1>2. \A m \in 1..n : Encoded(s[m]) \in Seq(Nat) /\ Len(Encoded(s[m])) \in Nat \ {0}
  BY <1>1, UnitBytes
<1>3. \A j, k \in 0..n : j < k => e[j] < e[k]
  BY EndsApart
<1>4. \A b \in 1..e[n] : \E k \in 1..n : b \in e[k - 1] + 1..e[k]
  BY UnitAt
<1>5. BytesOf[w] = [b \in 1..e[n] |-> byte(b)]
  BY DEF BytesOf
<1> HIDE DEF n, s, e
<1>6. ASSUME NEW b \in 1..e[n], NEW k \in 1..n, b \in e[k - 1] + 1..e[k] PROVE At(b) = k
  <2>1. PICK m \in 1..n : m = At(b) /\ b \in e[m - 1] + 1..e[m]
    BY <1>1, <1>6
  <2>2. m = k
    BY <1>6, <2>1, UnitOnce DEF n, e
  <2> QED
    BY <2>1, <2>2
<1> HIDE DEF At
<1>7. ASSUME NEW k \in 1..n, NEW i \in 1..Len(Encoded(s[k]))
      PROVE  /\ e[k - 1] + i \in 1..e[n] /\ e[k - 1] + i \in e[k - 1] + 1..e[k]
             /\ byte(e[k - 1] + i) = Encoded(s[k])[i]
  <2>1. k \in 0..n /\ k - 1 \in 0..n /\ n \in 0..n
    BY <1>1
  <2>2. e[k] <= e[n]
    BY <1>1, <1>3, <2>1
  <2> DEFINE b == e[k - 1] + i
             x == e[k - 1]
  <2>3. x \in Nat /\ e[k] \in Nat /\ e[n] \in Nat /\ e[k] = x + Len(Encoded(s[k]))
        /\ Len(Encoded(s[k])) \in Nat /\ i \in 1..Len(Encoded(s[k]))
    BY <1>1, <1>2, <2>1
  <2>4. b \in 1..e[n] /\ b \in x + 1..e[k] /\ b - x = i
    <3> DEFINE z == e[n]
               y == e[k]
               l == Len(Encoded(s[k]))
    <3>1. b = x + i
      OBVIOUS
    <3>2. x \in Nat /\ y \in Nat /\ z \in Nat /\ y = x + l /\ l \in Nat /\ i \in 1..l /\ y <= z
      BY <2>2, <2>3
    <3> HIDE DEF x, y, z, l, b, At, byte
    <3>3. b \in 1..z /\ b \in x + 1..y /\ b - x = i
      BY <3>1, <3>2
    <3> QED
      BY <3>3 DEF y, z
  <2>5. At(b) = k
    BY <1>6, <2>4
  <2> QED
    BY <2>4, <2>5
<1>8. ASSUME NEW b \in 1..e[n] PROVE byte(b) \in Nat
  <2>1. PICK k \in 1..n : b \in e[k - 1] + 1..e[k]
    BY <1>4 DEF e, n
  <2> DEFINE x == e[k - 1]
             c == Encoded(s[k])
  <2>2. k - 1 \in 0..n /\ k \in 0..n
    BY <1>1
  <2>3. x \in Nat /\ e[k] = x + Len(c) /\ c \in Seq(Nat) /\ Len(c) \in Nat /\ b \in x + 1..e[k]
    BY <1>1, <1>2, <2>1, <2>2
  <2>4. At(b) = k
    BY <1>6, <2>1
  <2>5. byte(b) = c[b - x]
    BY <2>4
  <2> HIDE DEF x, c, byte
  <2>6. b - x \in 1..Len(c)
    BY <2>3
  <2> QED
    BY <2>3, <2>5, <2>6, ElementOfSeq
<1> HIDE DEF byte
<1>9. e[n] \in Nat
  BY <1>1
<1>10. BytesOf[w] \in Seq(Nat) /\ Len(BytesOf[w]) = e[n]
  BY <1>5, <1>8, <1>9
<1>11. \A k \in 1..n : \A i \in 1..Len(Encoded(s[k])) : BytesOf[w][e[k - 1] + i] = Encoded(s[k])[i]
  BY <1>5, <1>7
<1> QED
  BY <1>10, <1>11 DEF n, s, e

\* The units of the world that was chosen.
LEMMA Layout ==
  ASSUME world \in Worlds
  PROVE  /\ Len(world.wire) \in Nat /\ Units = 1..Len(world.wire)
         /\ Bytes \in Seq(Nat) /\ Len(Bytes) = End(Len(world.wire))
         /\ End(0) = 0 /\ \A k \in 0..Len(world.wire) : End(k) \in Nat
         /\ \A k \in 0..Len(world.wire) : End(k) <= Len(Bytes)
         /\ \A j, k \in 0..Len(world.wire) : j < k => End(j) < End(k)
         /\ \A k \in Units : k \in 0..Len(world.wire) /\ k - 1 \in 0..Len(world.wire)
         /\ \A k \in Units : world.wire[k] \in Packets \cup Texts
<1> DEFINE n == Len(world.wire)
           e == EndOf[world]
<1>1. n \in Nat /\ Units = 1..n /\ e[0] = 0 /\ (\A k \in 0..n : e[k] \in Nat)
      /\ \A k \in 1..n : world.wire[k] \in Packets \cup Texts
  BY EndOfUnits DEF Units
<1>2. Bytes \in Seq(Nat) /\ Len(Bytes) = e[n]
  BY BytesOfUnits DEF Bytes
<1>3. \A j, k \in 0..n : j < k => e[j] < e[k]
  BY EndsApart
<1>4. \A k : End(k) = e[k]
  BY DEF End
<1> HIDE DEF n, e
<1>5. \A k \in 0..n : e[k] <= e[n]
  <2> SUFFICES ASSUME NEW k \in 0..n PROVE e[k] <= e[n]
    OBVIOUS
  <2>1. k = n \/ k < n
    BY <1>1
  <2>2. n \in 0..n /\ e[k] \in Nat /\ e[n] \in Nat
    BY <1>1
  <2> QED
    BY <1>3, <2>1, <2>2
<1>6. \A k \in 1..n : k \in 0..n /\ k - 1 \in 0..n
  BY <1>1
<1> QED
  BY <1>1, <1>2, <1>3, <1>4, <1>5, <1>6 DEF n

\* A unit that is a byte between packets.
LEMMA TextUnit ==
  ASSUME world \in Worlds, NEW k \in Units, ~IsPacket(k)
  PROVE  /\ End(k) = End(k - 1) + 1 /\ Bytes[End(k - 1) + 1] = world.wire[k].data[1]
         /\ world.wire[k].data = <<world.wire[k].data[1]>> /\ world.wire[k].data # <<>>
         /\ world.wire[k].to = RTSP /\ world.wire[k].setup \in Subsessions \cup {RTSP}
<1> DEFINE n == Len(world.wire)
           u == world.wire[k]
           d == u.data
<1>1. k \in 1..n /\ u \in Packets \cup Texts /\ u.to = RTSP
  BY Layout DEF IsPacket
<1>2. d \in Seq(Nat) /\ Encoded(u) = d /\ Len(d) = 1 /\ u \in Texts
  BY <1>1, UnitBytes
<1>3. End(k) = End(k - 1) + 1
  BY <1>1, <1>2, EndOfUnits DEF End
<1>4. Bytes[End(k - 1) + 1] = d[1]
  <2>1. 1 \in 1..Len(Encoded(u))
    BY <1>2
  <2>2. BytesOf[world][EndOf[world][k - 1] + 1] = Encoded(u)[1]
    BY <1>1, <2>1, BytesOfUnits
  <2> QED
    BY <1>2, <2>2 DEF Bytes, End
<1>5. u.setup \in Subsessions \cup {RTSP}
  BY <1>2 DEF Texts
<1>6. d = <<d[1]>> /\ d # <<>>
  <2> HIDE DEF d
  <2>1. d \in Seq(Nat) /\ Len(d) = 1
    BY <1>2
  <2> QED
    BY <2>1
<1> QED
  BY <1>1, <1>3, <1>4, <1>5, <1>6

\* A unit that is a packet.
LEMMA PacketUnit ==
  ASSUME world \in Worlds, NEW k \in Units, IsPacket(k)
  PROVE  /\ world.wire[k].to \in Channels /\ world.wire[k].to # RTSP
         /\ world.wire[k].data \in Seq(Nat) /\ Len(world.wire[k].data) \in Nat
         /\ End(k) = End(k - 1) + 4 + Len(world.wire[k].data)
         /\ Bytes[End(k - 1) + 1] = Dollar /\ Bytes[End(k - 1) + 2] = world.wire[k].to
         /\ Bytes[End(k - 1) + 3] = Len(world.wire[k].data) \div Radix
         /\ Bytes[End(k - 1) + 4] = Len(world.wire[k].data) % Radix
         /\ \A i \in 1..Len(world.wire[k].data) : Bytes[End(k - 1) + 4 + i] = world.wire[k].data[i]
<1> DEFINE n == Len(world.wire)
           u == world.wire[k]
           c == Encoded(u)
           l == Len(u.data)
           x == End(k - 1)
<1>1. k \in 1..n /\ u \in Packets \cup Texts /\ u.to # RTSP /\ k - 1 \in 0..n /\ x \in Nat
  BY Layout DEF IsPacket
<1>2. /\ u.data \in Seq(Nat) /\ u.to \in Channels /\ Len(c) = 4 + l
      /\ c[1] = Dollar /\ c[2] = u.to /\ c[3] = l \div Radix /\ c[4] = l % Radix
      /\ \A i \in 1..l : c[4 + i] = u.data[i]
  BY <1>1, UnitBytes
<1>3. l \in Nat
  BY <1>2
<1>4. \A i \in 1..Len(c) : Bytes[x + i] = c[i]
  BY <1>1, BytesOfUnits DEF Bytes, End
<1>5. End(k) = x + Len(c)
  BY <1>1, EndOfUnits DEF End
<1> HIDE DEF n, u, c, l, x
<1>6. End(k) = x + 4 + l
  BY <1>1, <1>2, <1>3, <1>5
<1>7. 1 \in 1..Len(c) /\ 2 \in 1..Len(c) /\ 3 \in 1..Len(c) /\ 4 \in 1..Len(c)
  BY <1>2, <1>3
<1>8. \A i \in 1..l : Bytes[x + 4 + i] = u.data[i]
  <2> SUFFICES ASSUME NEW i \in 1..l PROVE Bytes[x + 4 + i] = u.data[i]
    OBVIOUS
  <2>1. 4 + i \in 1..Len(c) /\ x + 4 + i = x + (4 + i)
    BY <1>1, <1>2, <1>3
  <2> QED
    BY <1>2, <1>4, <2>1
<1> QED
  BY <1>1, <1>2, <1>3, <1>4, <1>6, <1>7, <1>8 DEF u, l, x

-----------------------------------------------------------------------------
(***************************************************************************)
(* What was given.                                                         *)
(***************************************************************************)

\* The places of the units that are not empty count them.
LEMMA PlacesCount ==
  ASSUME world \in Worlds
  PROVE  /\ Place(0) = 0
         /\ \A k \in 0..Len(world.wire) : Place(k) \in Nat
         /\ \A k \in Units : Place(k) = IF world.wire[k].data # <<>> THEN Place(k - 1) + 1 ELSE Place(k - 1)
         /\ \A k \in 0..Len(world.wire) : \A j \in 1..k :
              Place(j) <= Place(k) /\ (world.wire[j].data # <<>> => Place(j) \in 1..Place(k))
<1> DEFINE n == Len(world.wire)
           F(k) == {j \in 1..k : world.wire[j].data # <<>>}
<1>1. n \in Nat /\ Units = 1..n
  BY Layout
<1>2. \A k : Place(k) = Cardinality(F(k))
  BY DEF Place
<1> HIDE DEF n
<1>3. \A k \in 0..n : IsFiniteSet(F(k)) /\ Cardinality(F(k)) \in Nat
  <2> SUFFICES ASSUME NEW k \in 0..n PROVE IsFiniteSet(F(k)) /\ Cardinality(F(k)) \in Nat
    OBVIOUS
  <2>1. k \in Int /\ IsFiniteSet(1..k)
    BY <1>1, FS_Interval
  <2>2. F(k) \in SUBSET (1..k)
    OBVIOUS
  <2> HIDE DEF F
  <2>3. IsFiniteSet(F(k))
    BY <2>1, <2>2, FS_Subset
  <2> QED
    BY <2>3, FS_CardinalityType
<1>4. F(0) = {}
  OBVIOUS
<1>5. ASSUME NEW k \in Units
      PROVE  Place(k) = IF world.wire[k].data # <<>> THEN Place(k - 1) + 1 ELSE Place(k - 1)
  <2>1. k \in 1..n /\ k - 1 \in 0..n /\ 1..k = 1..k - 1 \cup {k} /\ k \notin 1..k - 1
    BY <1>1
  <2>2. world.wire[k].data = <<>> => F(k) = F(k - 1)
    BY <2>1
  <2>3. world.wire[k].data # <<>> => F(k) = F(k - 1) \cup {k}
    BY <2>1
  <2>4. k \notin F(k - 1)
    BY <2>1
  <2> HIDE DEF F
  <2>5. Cardinality(F(k - 1) \cup {k}) = Cardinality(F(k - 1)) + 1
    BY <1>3, <2>1, <2>4, FS_AddElement
  <2> QED
    BY <1>2, <2>2, <2>3, <2>5
<1>6. ASSUME NEW k \in 0..n, NEW j \in 1..k PROVE Place(j) <= Place(k) /\ j \in Units /\ j - 1 \in 0..n
  <2>1. F(j) \in SUBSET F(k) /\ j \in 1..n /\ j - 1 \in 0..n
    BY <1>1
  <2> HIDE DEF F
  <2> QED
    BY <1>1, <1>2, <1>3, <2>1, FS_Subset
<1>7. Place(0) = 0
  BY <1>2, <1>4, FS_EmptySet
<1>8. \A k \in 0..n : Place(k) \in Nat
  BY <1>2, <1>3
<1>9. ASSUME NEW k \in 0..n, NEW j \in 1..k, world.wire[j].data # <<>> PROVE Place(j) \in 1..Place(k)
  <2>1. Place(j) = Place(j - 1) + 1 /\ Place(j) <= Place(k)
    BY <1>5, <1>6, <1>9
  <2>2. Place(j - 1) \in Nat /\ Place(k) \in Nat
    BY <1>6, <1>8
  <2> QED
    BY <2>1, <2>2
<1> QED
  BY <1>5, <1>6, <1>7, <1>8, <1>9 DEF n

Given == [to : Channels \cup {RTSP}, data : Seq(Nat)]

\* One more unit is given, if it has something to give.
LEMMA GivenNext ==
  ASSUME world \in Worlds, world' = world, given \in Seq(Given),
         NEW k \in 0..Len(world.wire), k + 1 \in Units, GivenUpTo(k),
         given' = IF world.wire[k + 1].data # <<>>
                  THEN Append(given, [to |-> world.wire[k + 1].to, data |-> world.wire[k + 1].data])
                  ELSE given
  PROVE  GivenUpTo(k + 1)'
<1> DEFINE u(j) == world.wire[j]
           r(j) == [to |-> u(j).to, data |-> u(j).data]
<1>1. Len(given) = Place(k) /\ \A j \in 1..k : u(j).data # <<>> => given[Place(j)] = r(j)
  BY DEF GivenUpTo
<1>2. /\ Place(k) \in Nat
      /\ Place(k + 1) = IF u(k + 1).data # <<>> THEN Place(k) + 1 ELSE Place(k)
      /\ \A j \in 1..k : u(j).data # <<>> => Place(j) \in 1..Place(k)
  <2>1. k + 1 - 1 = k
    BY Layout
  <2>2. Place(k + 1) = IF world.wire[k + 1].data # <<>> THEN Place(k + 1 - 1) + 1 ELSE Place(k + 1 - 1)
    BY PlacesCount
  <2>3. Place(k) \in Nat
    BY PlacesCount
  <2>4. \A j \in 1..k : world.wire[j].data # <<>> => Place(j) \in 1..Place(k)
    BY PlacesCount
  <2> QED
    BY <2>1, <2>2, <2>3, <2>4
<1>3. GivenUpTo(k + 1)' <=> /\ Len(given') = Place(k + 1)
                            /\ \A j \in 1..k + 1 : u(j).data # <<>> => given'[Place(j)] = r(j)
  BY DEF GivenUpTo, Place
<1>4. \A j \in 1..k + 1 : j \in 1..k \/ j = k + 1
  BY Layout
<1> HIDE DEF r
<1>5. CASE u(k + 1).data # <<>>
  <2>1. given' = Append(given, r(k + 1))
    BY <1>5 DEF r
  <2>2. Len(given') = Place(k) + 1 /\ given'[Place(k) + 1] = r(k + 1)
        /\ \A i \in 1..Place(k) : given'[i] = given[i]
    BY <1>1, <1>2, <2>1
  <2> HIDE DEF u
  <2> QED
    BY <1>1, <1>2, <1>3, <1>4, <1>5, <2>2
<1>6. CASE u(k + 1).data = <<>>
  <2>1. given' = given
    BY <1>6
  <2> HIDE DEF u
  <2> QED
    BY <1>1, <1>2, <1>3, <1>4, <1>6, <2>1
<1> QED
  BY <1>5, <1>6

-----------------------------------------------------------------------------
(***************************************************************************)
(* The values of the variables.                                            *)
(***************************************************************************)

\* The world remains.
LEMMA SameWorld ==
  ASSUME world' = world
  PROVE  /\ Units' = Units /\ Bytes' = Bytes /\ Calm' = Calm
         /\ \A k : End(k)' = End(k) /\ IsPacket(k)' = IsPacket(k)
BY DEF Units, Bytes, Calm, End, IsPacket

\* The initial values.
LEMMA InitTypes == Init => TypeOK
<1> SUFFICES ASSUME Init PROVE TypeOK
  OBVIOUS
<1>1. Len(Bytes) \in Nat
  BY Layout, LenProperties DEF Init
<1>2. 0 \in 0..Len(Bytes) /\ 0 \in 0..0 /\ MaxCalls \in Nat
  BY <1>1, SizesAssumption
<1>3. fInBuf \in [Channels -> Seq(Nat)] /\ given \in Seq([to : Channels \cup {RTSP}, data : Seq(Nat)])
  <2>1. <<>> \in Seq(Nat)
    OBVIOUS
  <2> QED
    BY <2>1 DEF Init
<1>4. fNextTCPReadSize \in [Channels -> Nat]
  BY DEF Init
<1>5. 0 \in 0..MaxCalls
  BY <1>2
<1> QED
  BY <1>1, <1>2, <1>3, <1>4, <1>5 DEF Init, TypeOK, States

\* An interface registers.
LEMMA RegisterTypes ==
  ASSUME TypeOK, NEW S \in SUBSET Channels, NEW emptied \in BOOLEAN, Register(S, emptied)
  PROVE  /\ exists' \in BOOLEAN /\ fSubChannelHashTable' \subseteq Channels
         /\ reader' \in {"client", "descriptor", "none"}
         /\ fTCPReadingState' \in States /\ fStreamChannelId' \in Nat /\ fSizeByte1' \in Nat
         /\ fReadErrorOccurred' \in BOOLEAN /\ fDeleteMyselfNext' \in BOOLEAN
<1>1. /\ exists' = TRUE /\ fSubChannelHashTable' = fSubChannelHashTable \cup S
      /\ reader' \in {"descriptor", reader} /\ fTCPReadingState' \in {"AWAITING_DOLLAR", fTCPReadingState}
      /\ fStreamChannelId' = fStreamChannelId /\ fSizeByte1' = fSizeByte1
  BY DEF Register, parsing
<1>2. fReadErrorOccurred' \in BOOLEAN /\ fDeleteMyselfNext' \in BOOLEAN
  BY DEF Register, TypeOK
<1> QED
  BY <1>1, <1>2 DEF TypeOK, States

\* Setup() and what it leaves alone.
LEMMA SetupTypes ==
  ASSUME TypeOK, NEW S \in SUBSET Subsessions, Setup(S)
  PROVE  /\ exists' \in BOOLEAN /\ fSubChannelHashTable' \subseteq Channels
         /\ fServerRequestAlternativeByteHandler' \in BOOLEAN
         /\ reader' \in {"client", "descriptor", "none"}
         /\ fTCPReadingState' \in States /\ fStreamChannelId' \in Nat /\ fSizeByte1' \in Nat
         /\ fReadErrorOccurred' \in BOOLEAN /\ fDeleteMyselfNext' \in BOOLEAN
         /\ fTCPStreams' \subseteq Channels /\ fReadHandlerProc' \subseteq Channels
         /\ open' \subseteq Subsessions /\ playing' \subseteq open' /\ detached' \in BOOLEAN
<1> DEFINE rtcp    == {Rtcp(i) : i \in S}
           new     == {Rtp(i) : i \in S} \ fTCPStreams
           emptied == exists /\ rtcp \cap fTCPStreams # {} /\ (fSubChannelHashTable \cup new) \ rtcp = {}
<1>1. new \subseteq Channels /\ rtcp \subseteq Channels /\ emptied \in BOOLEAN
  BY DEF Channels, ChannelsOf, TypeOK
<1>2. /\ open' = open \cup S /\ playing' = playing /\ fTCPStreams' = fTCPStreams \cup new \cup rtcp
      /\ fReadHandlerProc' = fReadHandlerProc \cup rtcp
      /\ detached' = (detached \/ emptied)
      /\ fServerRequestAlternativeByteHandler' =
           (fServerRequestAlternativeByteHandler \/ (S # {} /\ exists'))
  BY DEF Setup
<1>3. \/ UNCHANGED <<exists, fSubChannelHashTable, reader, parsing, fReadErrorOccurred, fDeleteMyselfNext>>
      \/ Register(new \cup rtcp, emptied)
  BY DEF Setup
<1> HIDE DEF new, rtcp, emptied
<1>4. /\ open' \subseteq Subsessions /\ playing' \subseteq open' /\ fTCPStreams' \subseteq Channels
      /\ fReadHandlerProc' \subseteq Channels /\ detached' \in BOOLEAN
  BY <1>1, <1>2 DEF TypeOK
<1>5. CASE UNCHANGED <<exists, fSubChannelHashTable, reader, parsing, fReadErrorOccurred, fDeleteMyselfNext>>
  BY <1>2, <1>4, <1>5 DEF TypeOK, parsing
<1>6. CASE Register(new \cup rtcp, emptied)
  <2>1. new \cup rtcp \subseteq Channels
    BY <1>1
  <2>2. /\ exists' \in BOOLEAN /\ fSubChannelHashTable' \subseteq Channels
        /\ reader' \in {"client", "descriptor", "none"}
        /\ fTCPReadingState' \in States /\ fStreamChannelId' \in Nat /\ fSizeByte1' \in Nat
        /\ fReadErrorOccurred' \in BOOLEAN /\ fDeleteMyselfNext' \in BOOLEAN
    BY <1>1, <1>6, <2>1, RegisterTypes
  <2> QED
    BY <1>2, <1>4, <2>2 DEF TypeOK
<1> QED
  BY <1>3, <1>5, <1>6

\* The network.
LEMMA NetworkTypes == ASSUME TypeOK, Arrive \/ Break PROVE TypeOK'
<1>1. CASE Arrive
  <2>1. PICK n \in arrived + 1..Len(Bytes) : arrived' = n
    BY <1>1 DEF Arrive
  <2>2. Len(Bytes) \in Nat /\ arrived \in 0..Len(Bytes) /\ taken \in 0..arrived
    BY Layout, LenProperties DEF TypeOK
  <2>3. arrived' \in 0..Len(Bytes) /\ taken \in 0..arrived'
    BY <2>1, <2>2
  <2>4. UNCHANGED <<world, broken, app, interfaces, reading, parsing, descriptor, loop, taken, reader, given, told>>
    BY <1>1 DEF Arrive
  <2> QED
    BY <2>3, <2>4, SameWorld DEF TypeOK, app, interfaces, reading, parsing, descriptor, loop
<1>2. CASE Break
  BY <1>2, SameWorld DEF Break, TypeOK, app, interfaces, reading, parsing, descriptor, loop
<1> QED
  BY <1>1, <1>2

\* The application.
LEMMA ApplicationTypes ==
  ASSUME TypeOK, NEW i \in Subsessions, Play(i) \/ Pause(i) \/ Close(i) \/ SendFails(i)
  PROVE  TypeOK'
<1>1. Rtp(i) \in Channels /\ ChannelsOf(i) \subseteq Channels
  BY DEF Channels, ChannelsOf
<1>2. CASE Play(i)
  <2>1. /\ UNCHANGED <<world, open, detached, fTCPStreams, reading, loop, wire, taken, given, told>>
        /\ i \in open /\ playing' = playing \cup {i} /\ fReadHandlerProc' = fReadHandlerProc \cup {Rtp(i)}
    BY <1>2 DEF Play
  <2>2. CASE Register({Rtp(i)}, FALSE) /\ fServerRequestAlternativeByteHandler' = (exists /\ fServerRequestAlternativeByteHandler)
    <3>1. {Rtp(i)} \in SUBSET Channels /\ FALSE \in BOOLEAN
      BY <1>1
    <3>2. /\ exists' \in BOOLEAN /\ fSubChannelHashTable' \subseteq Channels
          /\ reader' \in {"client", "descriptor", "none"}
          /\ fTCPReadingState' \in States /\ fStreamChannelId' \in Nat /\ fSizeByte1' \in Nat
          /\ fReadErrorOccurred' \in BOOLEAN /\ fDeleteMyselfNext' \in BOOLEAN
      BY <2>2, <3>1, RegisterTypes
    <3>3. /\ fReadHandlerProc' \subseteq Channels /\ open' \subseteq Subsessions /\ playing' \subseteq open'
          /\ fServerRequestAlternativeByteHandler' \in BOOLEAN
      BY <1>1, <2>1, <2>2 DEF TypeOK
    <3> QED
      BY <2>1, <3>2, <3>3, SameWorld DEF TypeOK, reading, loop, wire
  <2>3. CASE UNCHANGED <<parsing, descriptor, reader>>
    BY <1>1, <2>1, <2>3, SameWorld DEF TypeOK, reading, loop, wire, parsing, descriptor
  <2> QED
    BY <1>2, <2>2, <2>3 DEF Play
<1>3. CASE Pause(i) \/ Close(i) \/ SendFails(i)
  <2>1. \E S, T : Deregister(S, T)
    BY <1>3 DEF Pause, Close, SendFails
  <2>2. /\ exists' \in BOOLEAN /\ fSubChannelHashTable' \subseteq Channels /\ fTCPStreams' \subseteq Channels
        /\ fServerRequestAlternativeByteHandler' \in BOOLEAN /\ told' \in BOOLEAN
        /\ reader' \in {"client", "descriptor", "none"}
        /\ fReadErrorOccurred' \in BOOLEAN /\ fDeleteMyselfNext' \in BOOLEAN
    BY <2>1 DEF Deregister, Delete, TypeOK
  <2>3. /\ UNCHANGED <<world, parsing, loop, wire, taken, given>>
        /\ fReadHandlerProc' \subseteq fReadHandlerProc /\ open' \subseteq Subsessions /\ playing' \subseteq open'
        /\ fNextTCPReadStreamSocketNum' \subseteq fNextTCPReadStreamSocketNum /\ detached' \in BOOLEAN
    BY <1>3 DEF Pause, Close, SendFails, TypeOK, reading
  <2>4. fNextTCPReadSize' \in [Channels -> Nat] /\ fInBuf' \in [Channels -> Seq(Nat)]
    <3>1. <<>> \in Seq(Nat) /\ 0 \in Nat
      OBVIOUS
    <3>2. CASE Pause(i)
      BY <1>1, <3>1, <3>2 DEF Pause, TypeOK
    <3>3. CASE Close(i)
      BY <1>1, <3>1, <3>3 DEF Close, TypeOK
    <3>4. CASE SendFails(i)
      BY <3>4 DEF SendFails, TypeOK, reading
    <3> QED
      BY <1>3, <3>2, <3>3, <3>4
  <2> QED
    BY <2>2, <2>3, <2>4, SameWorld DEF TypeOK, parsing, loop, wire
<1> QED
  BY <1>2, <1>3

\* RTSPClient reads.
LEMMA ClientTypes == ASSUME TypeOK, ClientReads \/ ClientReadFails PROVE TypeOK'
<1>1. CASE ClientReads
  <2> DEFINE S == Answered(taken + 1, arrived)
             new == [k \in 1..arrived - taken |-> [to |-> RTSP, data |-> <<Bytes[taken + k]>>]]
  <2>1. S \in SUBSET Subsessions /\ Setup(S) /\ UNCHANGED <<world, reading, loop, wire, told>>
        /\ taken' = arrived /\ given' = given \o new
    BY <1>1 DEF ClientReads, Answered
  <2>2. Bytes \in Seq(Nat) /\ Len(Bytes) \in Nat /\ arrived \in 0..Len(Bytes) /\ taken \in 0..arrived
    BY Layout, LenProperties DEF TypeOK
  <2>3. new \in Seq([to : Channels \cup {RTSP}, data : Seq(Nat)])
    <3>1. \A k \in 1..arrived - taken : taken + k \in 1..Len(Bytes)
      BY <2>2
    <3>2. \A k \in 1..arrived - taken : Bytes[taken + k] \in Nat
      BY <2>2, <3>1, ElementOfSeq
    <3> DEFINE m == arrived - taken
               item(k) == [to |-> RTSP, data |-> <<Bytes[taken + k]>>]
               T == [to : Channels \cup {RTSP}, data : Seq(Nat)]
    <3>3. \A k \in 1..m : item(k) \in T
      BY <3>2
    <3>4. m \in Nat
      BY <2>2
    <3>5. new = [k \in 1..m |-> item(k)]
      OBVIOUS
    <3> HIDE DEF m, item, T, new
    <3>6. new \in Seq(T)
      BY <3>3, <3>4, <3>5
    <3> QED
      BY <3>6 DEF T
  <2> HIDE DEF new, S
  <2>4. given' \in Seq([to : Channels \cup {RTSP}, data : Seq(Nat)])
    BY <2>1, <2>3, ConcatProperties DEF TypeOK
  <2>5. taken' \in 0..arrived
    BY <2>1, <2>2
  <2> QED
    BY <2>1, <2>4, <2>5, SetupTypes, SameWorld DEF TypeOK, reading, loop, wire
<1>2. CASE ClientReadFails
  BY <1>2, SameWorld DEF ClientReadFails, TypeOK, app, interfaces, reading, parsing, descriptor, loop, wire
<1> QED
  BY <1>1, <1>2

\* The next byte is a number.
LEMMA NextByte == ASSUME TypeOK, taken < arrived PROVE taken + 1 \in 0..arrived /\ Byte \in Nat
<1>1. Bytes \in Seq(Nat) /\ Len(Bytes) \in Nat /\ arrived \in 0..Len(Bytes) /\ taken \in 0..arrived
  BY Layout, LenProperties DEF TypeOK
<1>2. taken + 1 \in 0..arrived /\ taken + 1 \in 1..Len(Bytes)
  BY <1>1
<1> QED
  BY <1>1, <1>2, ElementOfSeq DEF Byte

\* The loop goes on, or ends.
LEMMA AgainTypes == ASSUME TypeOK, Reading PROVE count - 1 \in 0..MaxCalls /\ 0 \in 0..MaxCalls
BY SizesAssumption DEF TypeOK, Reading

\* The headers.
LEMMA HeaderTypes ==
  ASSUME TypeOK, AwaitingDollar \/ AwaitingChannel \/ AwaitingSize1 \/ AwaitingSize2
  PROVE  TypeOK'
<1>1. /\ Reading /\ taken < arrived /\ taken' = taken + 1 /\ count' = count - 1
      /\ UNCHANGED <<world, wire, told, fInBuf>>
  BY DEF AwaitingDollar, AwaitingChannel, AwaitingSize1, AwaitingSize2, ReadingHeader, Again, reading
<1>2. taken' \in 0..arrived' /\ count' \in 0..MaxCalls /\ Byte \in Nat
  BY <1>1, NextByte, AgainTypes DEF wire
<1>3. CASE AwaitingDollar
  <2>1. UNCHANGED <<reading>>
    BY <1>3 DEF AwaitingDollar
  <2>2. CASE UNCHANGED <<app, interfaces, fStreamChannelId, fSizeByte1, descriptor, phase, reader, given>>
             /\ fTCPReadingState' \in {"AWAITING_STREAM_CHANNEL_ID", fTCPReadingState}
    BY <1>1, <1>2, <2>1, <2>2, SameWorld DEF TypeOK, States, app, interfaces, reading, descriptor, wire
  <2>3. CASE /\ given' = Append(given, [to |-> RTSP, data |-> <<Byte>>])
             /\ phase' = "callback" /\ Setup(Answered(taken + 1, taken + 1))
    <3>1. given' \in Seq([to : Channels \cup {RTSP}, data : Seq(Nat)])
      <4>1. [to |-> RTSP, data |-> <<Byte>>] \in [to : Channels \cup {RTSP}, data : Seq(Nat)]
        BY <1>2
      <4> QED
        BY <2>3, <4>1 DEF TypeOK
    <3>2. Answered(taken + 1, taken + 1) \in SUBSET Subsessions
      BY DEF Answered
    <3> QED
      BY <1>1, <1>2, <2>1, <2>3, <3>1, <3>2, SetupTypes, SameWorld DEF TypeOK, reading, wire
  <2> QED
    BY <1>3, <2>2, <2>3 DEF AwaitingDollar, parsing
<1>4. CASE AwaitingChannel
  <2>1. /\ UNCHANGED <<app, interfaces, reading, fSizeByte1, descriptor, phase, reader, given>>
        /\ fTCPReadingState' \in States /\ fStreamChannelId' \in {Byte, fStreamChannelId}
    BY <1>4 DEF AwaitingChannel, States
  <2> QED
    BY <1>1, <1>2, <2>1, SameWorld DEF TypeOK, app, interfaces, reading, descriptor, wire
<1>5. CASE AwaitingSize1
  <2>1. /\ UNCHANGED <<app, interfaces, reading, fStreamChannelId, descriptor, phase, reader, given>>
        /\ fTCPReadingState' \in States /\ fSizeByte1' = Byte
    BY <1>5 DEF AwaitingSize1, States
  <2> QED
    BY <1>1, <1>2, <2>1, SameWorld DEF TypeOK, app, interfaces, reading, descriptor, wire
<1>6. CASE AwaitingSize2
  <2>1. /\ UNCHANGED <<app, interfaces, fStreamChannelId, fSizeByte1, descriptor, phase, reader, given>>
        /\ fTCPReadingState' \in States
    BY <1>6 DEF AwaitingSize2, States
  <2>2. fNextTCPReadSize' \in [Channels -> Nat] /\ fNextTCPReadStreamSocketNum' \subseteq Channels
    <3>1. fSizeByte1 * Radix + Byte \in Nat
      <4>1. fSizeByte1 \in Nat /\ Radix \in Nat /\ Byte \in Nat
        BY <1>2, SizesAssumption DEF TypeOK
      <4>2. \A x, y, z \in Nat : x * y + z \in Nat
        OBVIOUS
      <4> QED
        BY <4>1, <4>2
    <3> QED
      BY <1>6, <3>1 DEF AwaitingSize2, TypeOK
  <2> QED
    BY <1>1, <1>2, <2>1, <2>2, SameWorld DEF TypeOK, app, interfaces, descriptor, wire
<1> QED
  BY <1>3, <1>4, <1>5, <1>6

\* What handleRead() gets, if it reads: no more than it asks for, and than there is.
LEMMA GotTypes ==
  ASSUME TypeOK, chan \in Channels, ~HitLimit
  PROVE  /\ Got \in Nat /\ Got <= fNextTCPReadSize[chan] /\ taken + Got \in 0..arrived
         /\ Data \in Seq(Nat) /\ Len(Data) = Len(fInBuf[chan]) + Got
         /\ \A j \in 1..Len(fInBuf[chan]) : Data[j] = fInBuf[chan][j]
         /\ \A j \in 1..Got : Data[Len(fInBuf[chan]) + j] = Bytes[taken + j]
         /\ fNextTCPReadSize[chan] > 0 /\ taken < arrived => Got > 0
<1> DEFINE s == fNextTCPReadSize[chan]
           b == fInBuf[chan]
           l == Len(b)
           g == Got
           a == Asked
           t == SubSeq(Bytes, taken + 1, taken + g)
<1>1. /\ Bytes \in Seq(Nat) /\ Len(Bytes) \in Nat /\ arrived \in 0..Len(Bytes) /\ taken \in 0..arrived
      /\ s \in Nat /\ b \in Seq(Nat) /\ l \in Nat
  BY Layout, LenProperties DEF TypeOK
<1>2. MaxRtcp \in Nat
  BY SizesAssumption
<1>3. a \in Nat /\ a <= s /\ (s > 0 => a > 0)
  <2>1. CASE chan \in RtcpChannels
    <3>1. ~(l >= MaxRtcp)
      BY <2>1 DEF HitLimit
    <3>2. a = IF s < MaxRtcp - l THEN s ELSE MaxRtcp - l
      BY <2>1 DEF Asked, Smaller
    <3> HIDE DEF s, l, a
    <3> QED
      BY <1>1, <1>2, <3>1, <3>2
  <2>2. CASE chan \notin RtcpChannels
    BY <1>1, <2>2 DEF Asked
  <2> QED
    BY <2>1, <2>2
<1>4. g = IF a < arrived - taken THEN a ELSE arrived - taken
  BY DEF Got, Smaller
<1>5. Data = b \o t
  BY DEF Data
<1> HIDE DEF s, b, a, g
<1>6. g \in Nat /\ g <= s /\ taken + g \in 0..arrived /\ (s > 0 /\ taken < arrived => g > 0)
  BY <1>1, <1>3, <1>4
<1>7. t \in Seq(Nat) /\ Len(t) = g /\ \A j \in 1..g : t[j] = Bytes[taken + j]
  <2>1. \A j \in taken + 1..taken + g : Bytes[j] \in Nat
    <3>1. \A j \in taken + 1..taken + g : j \in 1..Len(Bytes)
      BY <1>1, <1>6
    <3> QED
      BY <1>1, <3>1, ElementOfSeq
  <2> DEFINE m == taken + 1
             n == taken + g
             B == Bytes
  <2>2. m \in Int /\ n \in Int /\ n - m + 1 = g /\ (m <= n <=> g > 0) /\ \A j \in 1..g : m + j - 1 = taken + j
    BY <1>1, <1>6
  <2>3. t = SubSeq(B, m, n)
    BY DEF t
  <2>4. \A j \in m..n : B[j] \in Nat
    BY <2>1
  <2> HIDE DEF m, n, B, t
  <2>5. /\ SubSeq(B, m, n) \in Seq(Nat) /\ Len(SubSeq(B, m, n)) = IF m <= n THEN n - m + 1 ELSE 0
        /\ \A j \in 1..n - m + 1 : SubSeq(B, m, n)[j] = B[m + j - 1]
    BY ONLY <2>2, <2>4, SubSeqProperties
  <2>6. Len(t) = g
    BY <1>6, <2>2, <2>3, <2>5
  <2>7. \A j \in 1..g : t[j] = B[taken + j]
    BY <2>2, <2>3, <2>5
  <2> QED
    BY <2>3, <2>5, <2>6, <2>7 DEF B
<1> HIDE DEF t
<1>8. /\ b \o t \in Seq(Nat) /\ Len(b \o t) = Len(b) + Len(t)
      /\ \A j \in 1..Len(b) + Len(t) : (b \o t)[j] = IF j <= Len(b) THEN b[j] ELSE t[j - Len(b)]
  BY <1>1, <1>7, ConcatProperties
<1> DEFINE d == b \o t
<1> HIDE DEF d
<1>9. /\ d \in Seq(Nat) /\ Len(d) = l + g
      /\ \A j \in 1..l + g : d[j] = IF j <= l THEN b[j] ELSE t[j - l]
  BY <1>7, <1>8 DEF d
<1> HIDE DEF l
<1>10. \A j \in 1..l : j \in 1..l + g /\ j <= l
  BY <1>1, <1>6
<1>11. \A j \in 1..l : d[j] = b[j]
  BY <1>9, <1>10
<1>12. ASSUME NEW j \in 1..g PROVE d[l + j] = Bytes[taken + j]
  <2> DEFINE x == l + j
  <2>1. x \in 1..l + g /\ ~(x <= l) /\ x - l = j
    BY <1>1, <1>6
  <2> HIDE DEF x
  <2>2. d[x] = t[j]
    BY <1>9, <2>1
  <2> QED
    BY <1>7, <2>2 DEF x
<1> QED
  BY <1>5, <1>6, <1>9, <1>11, <1>12 DEF d, l, b, s, g

\* The packets, the errors, and the ends of the loop.
LEMMA PacketTypes ==
  ASSUME TypeOK,
         \/ Readable \/ NothingToRead \/ ReadFails \/ SkipByte \/ PacketDone \/ ReadPacket
         \/ HandlerReturns \/ LoopEnds
  PROVE  TypeOK'
<1>0. MaxCalls \in 0..MaxCalls /\ 0 \in 0..MaxCalls
  BY SizesAssumption
<1>1. CASE Readable \/ NothingToRead \/ PacketDone \/ HandlerReturns
  <2>1. /\ UNCHANGED <<world, app, interfaces, reading, fStreamChannelId, fSizeByte1, descriptor, wire,
                       taken, reader, given, told>>
        /\ fTCPReadingState' \in States /\ phase' \in {"idle", "loop", "callback"} /\ count' \in 0..MaxCalls
    BY <1>0, <1>1 DEF Readable, NothingToRead, PacketDone, HandlerReturns, TypeOK, States, parsing
  <2> QED
    BY <2>1, SameWorld DEF TypeOK, app, interfaces, reading, descriptor, wire
<1>2. CASE ReadFails
  <2>1. /\ UNCHANGED <<world, app, interfaces, reading, fStreamChannelId, fSizeByte1, exists,
                       fSubChannelHashTable, fServerRequestAlternativeByteHandler, phase, wire,
                       taken, reader, given, told>>
        /\ fTCPReadingState' \in States /\ count' = 0
        /\ fReadErrorOccurred' = TRUE /\ fDeleteMyselfNext' = TRUE
    BY <1>2 DEF ReadFails, TypeOK, States
  <2> QED
    BY <1>0, <2>1, SameWorld DEF TypeOK, app, interfaces, reading, wire
<1>3. CASE SkipByte
  <2>1. /\ UNCHANGED <<world, app, interfaces, fNextTCPReadStreamSocketNum, fInBuf, parsing, descriptor,
                       phase, wire, reader, given, told>>
        /\ Reading /\ taken < arrived /\ taken' = taken + 1 /\ count' = count - 1
        /\ chan \in fSubChannelHashTable /\ fNextTCPReadSize[chan] > 0
        /\ fNextTCPReadSize' = [fNextTCPReadSize EXCEPT ![chan] = fNextTCPReadSize[chan] - 1]
    BY <1>3 DEF SkipByte, Skipping, ReadingData, Again
  <2>2. taken' \in 0..arrived /\ count' \in 0..MaxCalls
    BY <2>1, NextByte, AgainTypes
  <2>3. fNextTCPReadSize' \in [Channels -> Nat]
    <3>1. fNextTCPReadSize[chan] \in Nat
      BY <2>1 DEF TypeOK
    <3>2. fNextTCPReadSize[chan] - 1 \in Nat
      BY <2>1, <3>1
    <3> QED
      BY <2>1, <3>2 DEF TypeOK
  <2> QED
    BY <2>1, <2>2, <2>3, SameWorld DEF TypeOK, app, interfaces, parsing, descriptor, wire
<1>4. CASE ReadPacket
  <2>1. /\ UNCHANGED <<world, app, interfaces, parsing, descriptor, wire, reader, told>>
        /\ count' = 0 /\ chan \in fSubChannelHashTable
    BY <1>4 DEF ReadPacket
  <2>2. CASE UNCHANGED <<reading, taken, given, phase>>
    BY <1>0, <2>1, <2>2, SameWorld DEF TypeOK, app, interfaces, parsing, reading, descriptor, wire
  <2>3. CASE ~UNCHANGED <<reading, taken, given, phase>>
    <3>1. ~HitLimit /\ chan \in Channels
      BY <1>4, <2>1, <2>3 DEF ReadPacket, TypeOK
    <3>2. /\ taken' = taken + Got
          /\ fNextTCPReadSize' = [fNextTCPReadSize EXCEPT ![chan] = fNextTCPReadSize[chan] - Got]
          /\ \E x \in {<<>>, Data} : fInBuf' = [fInBuf EXCEPT ![chan] = x]
          /\ fNextTCPReadStreamSocketNum' \subseteq fNextTCPReadStreamSocketNum
          /\ given' \in {given, Append(given, [to |-> chan, data |-> Data])}
          /\ phase' \in {phase, "callback"}
      BY <1>4, <2>3 DEF ReadPacket
    <3>3. Got \in Nat /\ Got <= fNextTCPReadSize[chan] /\ fNextTCPReadSize[chan] \in Nat
          /\ taken' \in 0..arrived /\ Data \in Seq(Nat)
      BY <3>1, <3>2, GotTypes DEF TypeOK
    <3>4. fNextTCPReadSize[chan] - Got \in Nat
      BY <3>3
    <3>5. fNextTCPReadSize' \in [Channels -> Nat]
      BY <3>1, <3>2, <3>4 DEF TypeOK
    <3>6. fInBuf' \in [Channels -> Seq(Nat)]
      <4>1. <<>> \in Seq(Nat)
        OBVIOUS
      <4> QED
        BY <3>1, <3>2, <3>3, <4>1 DEF TypeOK
    <3>7. given' \in Seq([to : Channels \cup {RTSP}, data : Seq(Nat)])
      <4> DEFINE r == [to |-> chan, data |-> Data]
                 R == [to : Channels \cup {RTSP}, data : Seq(Nat)]
      <4>1. r \in R /\ given \in Seq(R) /\ given' \in {given, Append(given, r)}
        BY <3>1, <3>2, <3>3 DEF TypeOK
      <4> HIDE DEF r, R
      <4>2. Append(given, r) \in Seq(R)
        BY <4>1
      <4>3. given' \in Seq(R)
        BY <4>1, <4>2
      <4> QED
        BY <4>3 DEF R
    <3>8. count' \in 0..MaxCalls /\ phase' \in {"idle", "loop", "callback"} /\ Bytes' = Bytes
          /\ fNextTCPReadStreamSocketNum' \subseteq Channels
      BY <1>0, <2>1, <3>2, SameWorld DEF TypeOK
    <3>9. /\ UNCHANGED <<world, arrived, broken, told, reader, exists, fSubChannelHashTable, fTCPReadingState,
                         fServerRequestAlternativeByteHandler, fStreamChannelId, fSizeByte1, open, playing, detached,
                         fReadErrorOccurred, fDeleteMyselfNext, fTCPStreams, fReadHandlerProc>>
          /\ taken' \in 0..arrived
      BY <2>1, <3>3 DEF app, interfaces, parsing, descriptor, wire
    <3> QED
      BY <3>5, <3>6, <3>7, <3>8, <3>9 DEF TypeOK
  <2> QED
    BY <2>2, <2>3
<1>5. CASE LoopEnds
  <2>1. /\ UNCHANGED <<world, app, fReadHandlerProc, reading, parsing, wire, taken, given>>
        /\ phase' = "idle" /\ count' = 0
    BY <1>5 DEF LoopEnds
  <2>2. /\ exists' \in BOOLEAN /\ fSubChannelHashTable' \subseteq Channels /\ fTCPStreams' \subseteq Channels
        /\ fServerRequestAlternativeByteHandler' \in BOOLEAN /\ told' \in BOOLEAN
        /\ reader' \in {"client", "descriptor", "none"}
        /\ fReadErrorOccurred' \in BOOLEAN /\ fDeleteMyselfNext' \in BOOLEAN
    BY <1>5 DEF LoopEnds, Delete, TypeOK, descriptor
  <2> QED
    BY <1>0, <2>1, <2>2, SameWorld DEF TypeOK, app, reading, parsing, wire
<1> QED
  BY <1>1, <1>2, <1>3, <1>4, <1>5

\* Every step.
LEMMA NextTypes == TypeOK /\ [Next]_vars => TypeOK'
<1> SUFFICES ASSUME TypeOK, [Next]_vars PROVE TypeOK'
  OBVIOUS
<1>1. CASE UNCHANGED vars
  BY <1>1, SameWorld DEF vars, state, TypeOK, app, interfaces, reading, parsing, descriptor, loop, wire
<1>2. CASE Next
  BY <1>2, NetworkTypes, ApplicationTypes, ClientTypes, HeaderTypes, PacketTypes DEF Next, Step
<1> QED
  BY <1>1, <1>2

-----------------------------------------------------------------------------
(***************************************************************************)
(* Nobody stops: what the interfaces and the descriptor know of each       *)
(* other, wherever the connection breaks.                                  *)
(***************************************************************************)

\* What the calm worlds forbid, and what they say of a connection that breaks or stalls.
LEMMA CalmWorld ==
  ASSUME Calm
  PROVE  /\ ~world.stops /\ ~world.early
         /\ \A k \in Units : ~IsPacket(k) => world.wire[k].data[1] \notin {Dollar} \cup Signals
         /\ world.breaks \/ world.stalls => \A j, k \in Units :
              ~IsPacket(j) /\ ~IsPacket(k) /\ world.wire[j].setup = world.wire[k].setup
                /\ world.wire[j].setup \in Subsessions => j = k
BY DEF Calm, Units, IsPacket

\* The SETUPs that are answered between two places.
LEMMA AnsweredUnits ==
  ASSUME NEW first, NEW last
  PROVE  /\ Answered(first, last) \in SUBSET Subsessions
         /\ \A i \in Answered(first, last) :
              \E k \in Units : ~IsPacket(k) /\ world.wire[k].setup = i /\ End(k) \in first..last
BY DEF Answered, Units, IsPacket

\* A step that leaves the interfaces and the descriptor, and reads on perhaps.
LEMMA SameRuled ==
  ASSUME TypeOK, Ruled, world' = world, taken' \in Int, taken <= taken',
         UNCHANGED <<open, detached, fTCPStreams, fReadHandlerProc, exists, fSubChannelHashTable, reader,
                     fServerRequestAlternativeByteHandler, arrived, broken>>
  PROVE  Ruled'
<1>1. Units' = Units /\ \A k \in Units : End(k)' = End(k) /\ (IsPacket(k)' <=> IsPacket(k))
                                          /\ End(k) \in Nat
  BY SameWorld, Layout DEF TypeOK
<1>2. taken \in Int
  BY Layout, LenProperties DEF TypeOK
<1>3. \A k \in Units : End(k) <= taken => End(k) <= taken'
  BY <1>1, <1>2
<1>4. \A i \in open : \E k \in Units : ~IsPacket(k) /\ world.wire[k].setup = i /\ End(k) <= taken'
  BY <1>3 DEF Ruled
<1>5. \A k \in Units : End(k - 1)' = End(k - 1)
  BY SameWorld
<1> QED
  BY <1>1, <1>4, <1>5 DEF Ruled

\* A subsession that is set up has all its interfaces, and their handlers for RTCP.
LEMMA SetupRuled ==
  ASSUME TypeOK, IInv, Ruled, world' = world, taken' \in Int, taken <= taken', UNCHANGED <<arrived, broken>>,
         NEW S \in SUBSET Subsessions, Setup(S),
         \A i \in S : \E k \in Units : ~IsPacket(k) /\ world.wire[k].setup = i /\ End(k) <= taken'
  PROVE  Ruled'
<1> DEFINE rtcp    == {Rtcp(i) : i \in S}
           new     == {Rtp(i) : i \in S} \ fTCPStreams
           emptied == exists /\ rtcp \cap fTCPStreams # {} /\ (fSubChannelHashTable \cup new) \ rtcp = {}
<1>1. Units' = Units /\ \A k \in Units : End(k)' = End(k) /\ (IsPacket(k)' <=> IsPacket(k))
                                          /\ End(k) \in Nat /\ End(k - 1)' = End(k - 1)
  BY SameWorld, Layout DEF TypeOK
<1>2. taken \in Int
  BY Layout, LenProperties DEF TypeOK
<1>3. \A k \in Units : End(k) <= taken => End(k) <= taken'
  BY <1>1, <1>2
<1>4. /\ open' = open \cup S /\ fTCPStreams' = fTCPStreams \cup new \cup rtcp
      /\ fReadHandlerProc' = fReadHandlerProc \cup rtcp
      /\ detached' = (detached \/ emptied)
      /\ fServerRequestAlternativeByteHandler' =
           (fServerRequestAlternativeByteHandler \/ (S # {} /\ exists'))
  BY DEF Setup
<1>5. \/ S = {} /\ UNCHANGED <<exists, fSubChannelHashTable, reader>>
      \/ /\ S # {} /\ exists' = TRUE /\ fSubChannelHashTable' = fSubChannelHashTable \cup (new \cup rtcp)
         /\ reader' = IF fSubChannelHashTable = {} \/ emptied THEN "descriptor" ELSE reader
  BY DEF Setup, Register
<1>6. fSubChannelHashTable = fTCPStreams
  BY DEF Ruled
<1>7. ~emptied
  <2>1. \A i \in S : Rtp(i) \in fSubChannelHashTable \cup new /\ Rtp(i) \notin rtcp
    BY <1>6, ChannelsApart
  <2>2. rtcp # {} => \E i \in S : Rtp(i) \in (fSubChannelHashTable \cup new) \ rtcp
    BY <2>1
  <2> QED
    BY <2>2
<1>8. new \cup rtcp \subseteq UNION {ChannelsOf(i) : i \in S} /\ (S # {} => rtcp # {}) /\ (S = {} => new \cup rtcp = {})
  BY DEF ChannelsOf
<1>9. \A i \in Subsessions : Rtp(i) \in fReadHandlerProc' => i \in open'
  <2>1. \A i \in Subsessions : Rtp(i) \notin rtcp
    BY ChannelsApart
  <2> QED
    BY <1>4, <2>1 DEF Ruled
<1>10. \A i \in open' : Rtcp(i) \in fReadHandlerProc'
  BY <1>4 DEF Ruled
<1>11. \A i \in open' : \E k \in Units : ~IsPacket(k) /\ world.wire[k].setup = i /\ End(k) <= taken'
  BY <1>3, <1>4 DEF Ruled
<1> HIDE DEF new, rtcp, emptied
<1>12. fTCPStreams' \subseteq UNION {ChannelsOf(i) : i \in open'}
  BY <1>4, <1>8 DEF Ruled
<1>13. fSubChannelHashTable' = fTCPStreams' /\ (exists' <=> fSubChannelHashTable' # {})
       /\ (exists' => fServerRequestAlternativeByteHandler')
  <2>1. (exists <=> fSubChannelHashTable # {}) /\ (exists => fServerRequestAlternativeByteHandler)
    BY DEF Ruled
  <2>2. CASE S = {}
    <3>1. UNCHANGED <<exists, fSubChannelHashTable>> /\ fTCPStreams' = fTCPStreams
      BY <1>4, <1>5, <1>8, <2>2
    <3> QED
      BY <1>4, <1>6, <2>1, <3>1
  <2>3. CASE S # {}
    <3>1. exists' /\ fSubChannelHashTable' = fTCPStreams' /\ fSubChannelHashTable' # {}
      BY <1>4, <1>5, <1>6, <1>8, <2>3
    <3> QED
      BY <1>4, <2>3, <3>1
  <2> QED
    BY <2>2, <2>3
<1>14. reader' = "descriptor" <=> exists'
  BY <1>5, <1>7 DEF Ruled
<1>15. \A k \in Units, i \in Subsessions :
         IsPacket(k) /\ End(k - 1) < arrived /\ world.wire[k].to \in ChannelsOf(i) => Rtp(i) \in fReadHandlerProc'
  BY <1>4 DEF Ruled
<1>16. detached' => world.breaks \/ world.stalls
  BY <1>4, <1>7 DEF Ruled
<1> QED
  BY <1>1, <1>9, <1>10, <1>11, <1>12, <1>13, <1>14, <1>15, <1>16 DEF Ruled

\* The network: packets arrive for subsessions that are played only.
LEMMA NetworkRuled == ASSUME TypeOK, IInv, Calm, Ruled, Arrive \/ Break PROVE Ruled'
<1>1. world' = world /\ UNCHANGED <<open, detached, fTCPStreams, fReadHandlerProc, exists, fSubChannelHashTable, reader,
                     fServerRequestAlternativeByteHandler, taken>>
  BY DEF Arrive, Break, app, interfaces, descriptor
<1>2. Units' = Units /\ \A k \in Units : End(k)' = End(k) /\ (IsPacket(k)' <=> IsPacket(k))
                                         /\ End(k - 1)' = End(k - 1)
  BY <1>1, SameWorld
<1>3. broken' => world.breaks
  BY DEF Arrive, Break, Ruled
<1>4. ASSUME NEW k \in Units, NEW i \in Subsessions, IsPacket(k), End(k - 1) < arrived',
             world.wire[k].to \in ChannelsOf(i)
      PROVE  Rtp(i) \in fReadHandlerProc
  <2>1. CASE Break
    BY <1>4, <2>1 DEF Break, Ruled
  <2>2. CASE Arrive
    <3>1. MaySend(k)
      BY <1>4, <2>2 DEF Arrive, Units
    <3>2. PICK j \in Subsessions : world.wire[k].to \in ChannelsOf(j) /\ Rtp(j) \in fReadHandlerProc
      BY <1>4, <3>1, CalmWorld DEF MaySend, IsPacket
    <3>3. i = j
      BY <1>4, <3>2, ChannelsApart DEF ChannelsOf
    <3> QED
      BY <3>2, <3>3
  <2> QED
    BY <2>1, <2>2
<1> QED
  BY <1>1, <1>2, <1>3, <1>4 DEF Ruled

\* A source starts to read, or the connection fails for an interface.
LEMMA ApplicationRuled ==
  ASSUME TypeOK, IInv, Calm, Ruled, NEW i \in Subsessions, Play(i) \/ Pause(i) \/ Close(i) \/ SendFails(i)
  PROVE  Ruled'
<1>1. Play(i) \/ SendFails(i)
  BY CalmWorld DEF Pause, Close
<1>2. world' = world /\ UNCHANGED <<open, taken, arrived, broken>>
  BY <1>1 DEF Play, SendFails, wire
<1>3. Units' = Units /\ \A k \in Units : End(k)' = End(k) /\ (IsPacket(k)' <=> IsPacket(k))
                                         /\ End(k - 1)' = End(k - 1)
  BY <1>2, SameWorld
<1>4. CASE Play(i)
  <2>1. /\ i \in open /\ fReadHandlerProc' = fReadHandlerProc \cup {Rtp(i)} /\ fTCPStreams' = fTCPStreams
        /\ detached' = detached
    BY <1>4 DEF Play
  <2>2. /\ UNCHANGED <<exists, fSubChannelHashTable, reader>>
        /\ exists => (fServerRequestAlternativeByteHandler' <=> fServerRequestAlternativeByteHandler)
        /\ exists' => exists
    BY <1>4 DEF Play, Register, Ruled, descriptor
  <2>3. \A j \in Subsessions : Rtp(j) = Rtp(i) => j \in open
    BY <2>1, ChannelsApart
  <2>4. \A j \in Subsessions : Rtp(j) \in fReadHandlerProc' => j \in open
    BY <2>1, <2>3 DEF Ruled
  <2>5. exists => fServerRequestAlternativeByteHandler'
    BY <2>2 DEF Ruled
  <2> QED
    BY <1>2, <1>3, <2>1, <2>2, <2>4, <2>5 DEF Ruled
<1>5. CASE SendFails(i)
  <2>1. /\ fReadHandlerProc' = fReadHandlerProc /\ (broken \/ world.stalls) /\ phase = "idle"
        /\ Rtcp(i) \in fTCPStreams /\ Deregister({Rtcp(i)}, {Rtcp(i)})
    BY <1>5 DEF SendFails
  <2>2. exists /\ ~InLoop
    BY <2>1 DEF Ruled, InLoop
  <2>3. fTCPStreams' = fTCPStreams \ {Rtcp(i)} /\ fSubChannelHashTable' = fSubChannelHashTable \ {Rtcp(i)}
    BY <2>1 DEF Deregister, Delete
  <2>4. \/ /\ fSubChannelHashTable' # {}
           /\ UNCHANGED <<exists, reader, fServerRequestAlternativeByteHandler>>
        \/ /\ fSubChannelHashTable' = {} /\ exists' = FALSE /\ reader' # "descriptor"
    BY <2>1, <2>2 DEF Deregister, Delete
  <2>5. fTCPStreams' \subseteq fTCPStreams
    BY <2>3
  <2>6. /\ fSubChannelHashTable' = fTCPStreams'
        /\ exists' <=> fSubChannelHashTable' # {}
        /\ reader' = "descriptor" <=> exists'
        /\ exists' => fServerRequestAlternativeByteHandler'
    BY <2>2, <2>3, <2>4 DEF Ruled
  <2>7. world.breaks \/ world.stalls
    BY <2>1 DEF Ruled
  <2> QED
    BY <1>2, <1>3, <2>1, <2>5, <2>6, <2>7 DEF Ruled
<1> QED
  BY <1>1, <1>4, <1>5

\* A descriptor that is deleted leaves no interface behind.
LEMMA LoopEndsRuled == ASSUME TypeOK, IInv, Ruled, LoopEnds PROVE Ruled'
<1>1. world' = world /\ UNCHANGED <<open, detached, fReadHandlerProc, taken, arrived, broken>>
  BY DEF LoopEnds, app, wire
<1>2. taken' \in Int /\ taken <= taken'
  BY <1>1, Layout, LenProperties DEF TypeOK
<1>3. CASE ~fDeleteMyselfNext
  <2>1. UNCHANGED <<fTCPStreams, exists, fSubChannelHashTable, reader, fServerRequestAlternativeByteHandler>>
    BY <1>3 DEF LoopEnds, descriptor
  <2> QED
    BY <1>1, <1>2, <2>1, SameRuled
<1>4. CASE fDeleteMyselfNext
  <2>1. /\ fTCPStreams' = fTCPStreams \ fSubChannelHashTable /\ exists' = FALSE /\ fSubChannelHashTable' = {}
        /\ reader' # "descriptor"
    BY <1>4 DEF LoopEnds, Delete
  <2>2. fTCPStreams' = {}
    BY <2>1 DEF Ruled
  <2>3. Units' = Units /\ \A k \in Units : End(k)' = End(k) /\ (IsPacket(k)' <=> IsPacket(k))
                                           /\ End(k - 1)' = End(k - 1)
    BY <1>1, SameWorld
  <2> QED
    BY <1>1, <2>1, <2>2, <2>3 DEF Ruled
<1> QED
  BY <1>3, <1>4

\* What RTSPClient is given sets up the subsessions whose answers are in it.
LEMMA SetsUp ==
  ASSUME TypeOK, IInv, Ruled, AwaitingDollar \/ ClientReads
  PROVE  \/ \E S \in SUBSET Subsessions :
              /\ S = Answered(taken + 1, taken')
              /\ Setup(S)
              /\ \A i \in S : \E k \in Units : /\ ~IsPacket(k) /\ world.wire[k].setup = i
                                               /\ taken < End(k) /\ End(k) <= taken'
         \/ UNCHANGED <<open, detached, fTCPStreams, fReadHandlerProc, exists, fSubChannelHashTable, reader,
                        fServerRequestAlternativeByteHandler>>
<1>1. taken \in Nat /\ taken' \in Nat /\ taken < taken' /\ (AwaitingDollar => taken' = taken + 1)
      /\ (ClientReads => taken' = arrived)
  <2>1. taken \in Nat /\ arrived \in Nat
    BY Layout, LenProperties DEF TypeOK
  <2>2. (AwaitingDollar => taken' = taken + 1) /\ (ClientReads => taken < arrived /\ taken' = arrived)
    BY DEF AwaitingDollar, ClientReads
  <2> QED
    BY <2>1, <2>2
<1>2. CASE UNCHANGED <<app, interfaces, descriptor, reader>>
  BY <1>2 DEF app, interfaces, descriptor
<1>3. CASE ~UNCHANGED <<app, interfaces, descriptor, reader>>
  <2> DEFINE S == Answered(taken + 1, taken')
  <2>1. Setup(S)
    BY <1>1, <1>3 DEF AwaitingDollar, ClientReads
  <2>2. S \in SUBSET Subsessions
        /\ \A i \in S : \E k \in Units : ~IsPacket(k) /\ world.wire[k].setup = i /\ End(k) \in taken + 1..taken'
    BY AnsweredUnits
  <2>3. \A e \in taken + 1..taken' : taken < e /\ e <= taken'
    BY <1>1
  <2> QED
    BY <2>1, <2>2, <2>3
<1> QED
  BY <1>2, <1>3

\* Every step keeps the rules.
LEMMA NextRuled == TypeOK /\ IInv /\ Calm /\ Ruled /\ [Next]_vars => Ruled'
<1> SUFFICES ASSUME TypeOK, IInv, Calm, Ruled, [Next]_vars PROVE Ruled'
  OBVIOUS
<1>1. taken \in Int /\ arrived \in Int
  BY Layout, LenProperties DEF TypeOK
<1>2. TypeOK'
  BY NextTypes
<1>3. CASE \/ UNCHANGED vars \/ Readable \/ AwaitingChannel \/ AwaitingSize1 \/ AwaitingSize2 \/ NothingToRead
           \/ ReadFails \/ SkipByte \/ PacketDone \/ ReadPacket \/ HandlerReturns
  <2>1. world' = world /\ UNCHANGED <<open, detached, fTCPStreams, fReadHandlerProc, exists, fSubChannelHashTable, reader,
                     fServerRequestAlternativeByteHandler, arrived, broken>>
    BY <1>3 DEF vars, state, Readable, AwaitingChannel, AwaitingSize1, AwaitingSize2, NothingToRead,
       ReadFails, SkipByte, PacketDone, ReadPacket, HandlerReturns, app, interfaces, descriptor, wire
  <2>2. taken' = taken \/ taken' = taken + 1 \/ (ReadPacket /\ ~HitLimit /\ taken' = taken + Got)
    BY <1>3 DEF vars, state, Readable, AwaitingChannel, AwaitingSize1, AwaitingSize2, NothingToRead,
       ReadFails, SkipByte, PacketDone, ReadPacket, HandlerReturns
  <2>3. taken' \in Int /\ taken <= taken'
    <3>1. CASE taken' = taken \/ taken' = taken + 1
      BY <1>1, <3>1
    <3>2. CASE ReadPacket /\ ~HitLimit /\ taken' = taken + Got
      <4>1. chan \in Channels
        BY <3>2 DEF ReadPacket, TypeOK
      <4>2. Got \in Nat
        BY <3>2, <4>1, GotTypes
      <4> QED
        BY <1>1, <3>2, <4>2
    <3> QED
      BY <2>2, <3>1, <3>2
  <2> QED
    BY <2>1, <2>3, SameRuled
<1>4. CASE AwaitingDollar \/ ClientReads
  <2>1. world' = world /\ UNCHANGED <<arrived, broken>>
    BY <1>4 DEF AwaitingDollar, ClientReads, wire
  <2>2. taken' \in Int /\ taken <= taken'
    BY <1>1, <1>4 DEF AwaitingDollar, ClientReads
  <2> QED
    BY <1>4, <2>1, <2>2, SetsUp, SetupRuled, SameRuled
<1>5. CASE ClientReadFails
  <2>1. /\ world' = world /\ reader = "client" /\ reader' = "none"
        /\ UNCHANGED <<open, detached, fTCPStreams, fReadHandlerProc, exists, fSubChannelHashTable,
                     fServerRequestAlternativeByteHandler, arrived, broken, taken>>
    BY <1>5 DEF ClientReadFails, app, interfaces, descriptor, wire
  <2>2. Units' = Units /\ \A k \in Units : End(k)' = End(k) /\ (IsPacket(k)' <=> IsPacket(k))
                                           /\ End(k - 1)' = End(k - 1)
    BY <2>1, SameWorld
  <2> QED
    BY <2>1, <2>2 DEF Ruled
<1>6. CASE Arrive \/ Break
  BY <1>6, NetworkRuled
<1>7. CASE \E i \in Subsessions : Play(i) \/ Pause(i) \/ Close(i) \/ SendFails(i)
  BY <1>7, ApplicationRuled
<1>8. CASE LoopEnds
  BY <1>8, LoopEndsRuled
<1> QED
  BY <1>3, <1>4, <1>5, <1>6, <1>7, <1>8 DEF Next, Step

\* An interface that has lost the connection never gets it back.
LEMMA SteadyBefore == TypeOK /\ IInv /\ (Calm => Ruled) /\ [Next]_vars /\ Steady' => Steady
<1> SUFFICES ASSUME TypeOK, IInv, Calm => Ruled, [Next]_vars, Steady', ~Steady PROVE FALSE
  OBVIOUS
<1>1. world' = world
  BY DEF Next, vars, state, Step, Arrive, Break, Readable, AwaitingDollar, AwaitingChannel, AwaitingSize1,
     AwaitingSize2, NothingToRead, ReadFails, SkipByte, PacketDone, ReadPacket, HandlerReturns, LoopEnds,
     ClientReads, ClientReadFails, Play, Pause, Close, SendFails
<1>2. Calm /\ Ruled /\ Attached' /\ ~Attached
  BY <1>1, SameWorld DEF Steady, Attached
<1>3. PICK i \in open : ~(ChannelsOf(i) \subseteq fTCPStreams)
  BY <1>2 DEF Attached
<1>4. PICK c \in ChannelsOf(i) : i \in open /\ c \notin fTCPStreams
  BY <1>3
<1>5. ASSUME open \subseteq open', c \notin fTCPStreams' PROVE FALSE
  BY <1>2, <1>4, <1>5 DEF Attached
<1>6. world.breaks \/ world.stalls
  <2>1. broken \/ detached
    BY <1>2, <1>4 DEF IInv, Connected, Undisturbed
  <2> QED
    BY <1>2, <2>1 DEF Ruled
<1>7. PICK k \in Units : ~IsPacket(k) /\ world.wire[k].setup = i /\ End(k) <= taken
  BY <1>2, <1>4 DEF Ruled
<1>8. i \in Subsessions
  BY <1>4 DEF TypeOK
<1>9. CASE AwaitingDollar \/ ClientReads
  <2>1. CASE UNCHANGED <<open, fTCPStreams>>
    BY <1>4, <1>5, <2>1
  <2>2. CASE ~UNCHANGED <<open, fTCPStreams>>
    <3>1. PICK S \in SUBSET Subsessions :
              /\ Setup(S)
              /\ \A j \in S : \E m \in Units : ~IsPacket(m) /\ world.wire[m].setup = j /\ taken < End(m)
      BY <1>2, <1>9, <2>2, SetsUp
    <3>2. i \notin S
      <4>1. SUFFICES ASSUME i \in S PROVE FALSE
        OBVIOUS
      <4>2. PICK m \in Units : ~IsPacket(m) /\ world.wire[m].setup = i /\ taken < End(m)
        BY <3>1, <4>1
      <4>3. m = k
        BY <1>2, <1>6, <1>7, <1>8, <4>2, CalmWorld
      <4>4. taken \in Int /\ End(k) \in Int
        BY Layout, LenProperties DEF TypeOK
      <4> QED
        BY <1>7, <4>2, <4>3, <4>4
    <3>3. \A j \in S : c \notin ChannelsOf(j)
      BY <1>4, <1>8, <3>1, <3>2, ChannelsApart DEF ChannelsOf
    <3>4. open \subseteq open' /\ fTCPStreams' \subseteq fTCPStreams \cup UNION {ChannelsOf(j) : j \in S}
      <4>1. open' = open \cup S /\ fTCPStreams' = fTCPStreams \cup ({Rtp(j) : j \in S} \ fTCPStreams) \cup {Rtcp(j) : j \in S}
        BY <3>1 DEF Setup
      <4> QED
        BY <4>1 DEF ChannelsOf
    <3> QED
      BY <1>4, <1>5, <3>3, <3>4
  <2> QED
    BY <2>1, <2>2
<1>10. CASE ~(AwaitingDollar \/ ClientReads)
  <2>1. ~(\E j \in Subsessions : Pause(j) \/ Close(j))
    BY <1>2, CalmWorld DEF Pause, Close
  <2>2. open' = open /\ fTCPStreams' \subseteq fTCPStreams
    BY <1>10, <2>1 DEF Next, vars, state, Step, Arrive, Break, Readable, AwaitingChannel, AwaitingSize1,
     AwaitingSize2, NothingToRead, ReadFails, SkipByte, PacketDone, ReadPacket, HandlerReturns, LoopEnds,
     ClientReadFails, Play, SendFails, Deregister, Delete, app, interfaces
  <2> QED
    BY <1>4, <1>5, <2>2
<1> QED
  BY <1>9, <1>10

-----------------------------------------------------------------------------
(***************************************************************************)
(* Where the descriptor is, step by step.                                  *)
(***************************************************************************)

\* Whoever a packet is for that has come in reads it.
LEMMA PacketAttached ==
  ASSUME TypeOK, Calm, Ruled, Attached, NEW k \in Units, IsPacket(k), End(k - 1) < arrived
  PROVE  /\ world.wire[k].to \in fSubChannelHashTable \cap fReadHandlerProc /\ exists
         /\ fServerRequestAlternativeByteHandler /\ reader = "descriptor"
<1>1. PICK i \in Subsessions : world.wire[k].to \in ChannelsOf(i)
  <2>1. world.wire[k].to \in Channels
    BY PacketUnit DEF TypeOK
  <2> QED
    BY <2>1 DEF Channels
<1>2. Rtp(i) \in fReadHandlerProc
  BY <1>1 DEF Ruled
<1>3. i \in open
  BY <1>2 DEF Ruled
<1>4. Rtcp(i) \in fReadHandlerProc
  BY <1>3 DEF Ruled
<1>5. world.wire[k].to \in fTCPStreams
  BY <1>1, <1>3 DEF Attached
<1>6. world.wire[k].to \in fReadHandlerProc
  BY <1>1, <1>2, <1>4 DEF ChannelsOf
<1> QED
  BY <1>5, <1>6 DEF Ruled

\* The places of the world are numbers.
LEMMA Numbered ==
  ASSUME TypeOK, NEW k \in 0..Len(world.wire)
  PROVE  /\ End(k) \in Nat /\ taken \in Nat /\ arrived \in Nat /\ taken <= arrived
         /\ k + 1 - 1 = k /\ k \in Nat
         /\ arrived <= End(Len(world.wire))
         /\ k + 1 \in Units => k + 1 \in 0..Len(world.wire)
         /\ k + 1 \notin Units => k = Len(world.wire)
BY Layout, LenProperties DEF TypeOK

\* A packet whose header or data is being read is one for an interface that reads it.
LEMMA WithinPacket ==
  ASSUME TypeOK, Calm, Ruled, Attached, NEW k \in 0..Len(world.wire), Parsed(k), ~Between(k)
  PROVE  /\ k + 1 \in Units /\ IsPacket(k + 1) /\ (Header(k + 1) \/ Inside(k + 1))
         /\ End(k) < taken /\ End(k) < arrived
         /\ world.wire[k + 1].to \in fSubChannelHashTable \cap fReadHandlerProc
<1>1. k + 1 \in Units /\ IsPacket(k + 1) /\ (Header(k + 1) \/ Inside(k + 1))
  BY DEF Parsed
<1>2. k + 1 - 1 = k /\ End(k) \in Nat /\ taken \in Nat /\ arrived \in Nat /\ taken <= arrived
  BY Numbered
<1>3. End(k) < taken
  BY <1>1, <1>2 DEF Header, Inside
<1>4. End(k + 1 - 1) < arrived
  BY <1>2, <1>3
<1> QED
  BY <1>1, <1>2, <1>3, <1>4, PacketAttached

\* A step that reads nothing, and takes no interface away.
LEMMA SameParsed ==
  ASSUME NEW k \in 0..Len(world.wire), Parsed(k), world' = world, fSubChannelHashTable \subseteq fSubChannelHashTable',
         UNCHANGED <<given, taken, reading, fTCPReadingState, fStreamChannelId, fSizeByte1>>
  PROVE  Parsed(k)'
<1>1. Units' = Units /\ (\A m : End(m)' = End(m) /\ IsPacket(m)' = IsPacket(m))
  BY SameWorld
<1>2. UNCHANGED <<fNextTCPReadSize, fNextTCPReadStreamSocketNum, fInBuf, chan>>
  BY DEF reading, chan
<1>3. GivenUpTo(k)' = GivenUpTo(k)
  BY DEF GivenUpTo, Place
<1>4. Between(k) => Between(k)'
  BY <1>1, <1>2 DEF Between, Empty
<1>5. Header(k + 1) => Header(k + 1)'
  BY <1>1, <1>2 DEF Header, Empty
<1>6. Inside(k + 1) => Inside(k + 1)'
  BY <1>1, <1>2 DEF Inside
<1> QED
  BY <1>1, <1>3, <1>4, <1>5, <1>6 DEF Parsed

\* Steps of the network, the application and the loop that read nothing.
LEMMA QuietParsed ==
  ASSUME TypeOK, IInv, Calm, Ruled, Attached, Attached', [Next]_vars,
         ~(AwaitingDollar \/ AwaitingChannel \/ AwaitingSize1 \/ AwaitingSize2),
         ~(PacketDone \/ ReadPacket \/ ClientReads),
         NEW k \in 0..Len(world.wire), Parsed(k)
  PROVE  Parsed(k)'
<1>1. ~Skipping
  <2>1. SUFFICES ASSUME Skipping PROVE FALSE
    OBVIOUS
  <2>2. fTCPReadingState = "AWAITING_PACKET_DATA" /\ chan \notin fReadHandlerProc /\ fNextTCPReadSize[chan] > 0
    BY <2>1 DEF Skipping, ReadingData
  <2>3. ~Between(k)
    BY <2>2 DEF Between
  <2>4. Inside(k + 1)
    BY <2>2, <2>3, WithinPacket DEF Header
  <2> QED
    BY <2>2, <2>3, <2>4, WithinPacket DEF Inside
<1>2. ASSUME NEW i \in Subsessions, Play(i) \/ Pause(i) \/ Close(i) \/ SendFails(i) PROVE Parsed(k)'
  <2>1. Play(i)
    <3>1. ~SendFails(i)
      <4>1. SUFFICES ASSUME SendFails(i) PROVE FALSE
        OBVIOUS
      <4>2. i \in open' /\ Rtcp(i) \notin fTCPStreams'
        BY <4>1 DEF SendFails, Deregister, Delete
      <4> QED
        BY <4>2 DEF Attached, ChannelsOf
    <3> QED
      BY <1>2, <3>1, CalmWorld DEF Pause, Close
  <2>2. /\ world' = world /\ UNCHANGED <<given, taken, reading>>
        /\ i \in open /\ Rtp(i) \in fTCPStreams
    BY <2>1 DEF Play, Attached, ChannelsOf
  <2>3. exists
    BY <2>2 DEF Ruled
  <2>4. fSubChannelHashTable \subseteq fSubChannelHashTable'
        /\ UNCHANGED <<fTCPReadingState, fStreamChannelId, fSizeByte1>>
    BY <2>1, <2>2, <2>3 DEF Play, Register, parsing
  <2> QED
    BY <2>2, <2>4, SameParsed
<1>3. CASE LoopEnds
  <2>1. ~fDeleteMyselfNext
    <3>1. SUFFICES ASSUME fDeleteMyselfNext PROVE FALSE
      OBVIOUS
    <3>2. open' = open /\ fTCPStreams' = fTCPStreams \ fSubChannelHashTable
      BY <1>3, <3>1 DEF LoopEnds, Delete, app
    <3>3. open = {}
      BY <3>2 DEF Attached, Ruled, ChannelsOf
    <3>4. ~exists
      BY <3>3 DEF Ruled
    <3>5. InLoop
      BY <1>3 DEF LoopEnds, InLoop
    <3> QED
      BY <3>4, <3>5 DEF IInv, Descriptor
  <2>2. /\ world' = world /\ UNCHANGED <<given, taken, reading, fTCPReadingState, fStreamChannelId, fSizeByte1>>
        /\ fSubChannelHashTable' = fSubChannelHashTable
    BY <1>3, <2>1 DEF LoopEnds, descriptor, parsing
  <2> QED
    BY <2>2, SameParsed
<1>4. CASE ~(\E i \in Subsessions : Play(i) \/ Pause(i) \/ Close(i) \/ SendFails(i)) /\ ~LoopEnds
  <2>1. /\ world' = world /\ UNCHANGED <<given, taken, reading, fTCPReadingState, fStreamChannelId, fSizeByte1>>
        /\ fSubChannelHashTable' = fSubChannelHashTable
    BY <1>1, <1>4 DEF Next, Step, Arrive, Break, Readable, NothingToRead, ReadFails, SkipByte, HandlerReturns,
       ClientReadFails, vars, state, descriptor, parsing
  <2> QED
    BY <2>1, SameParsed
<1> QED
  BY <1>2, <1>3, <1>4

\* The bytes of the packet that comes next.
LEMMA NextPacket ==
  ASSUME TypeOK, NEW k \in 0..Len(world.wire), k + 1 \in Units, IsPacket(k + 1)
  PROVE  LET u == world.wire[k + 1]
         IN /\ u.to \in Channels /\ u.data \in Seq(Nat) /\ Len(u.data) \in Nat
            /\ End(k + 1) = End(k) + 4 + Len(u.data)
            /\ Bytes[End(k) + 1] = Dollar /\ Bytes[End(k) + 2] = u.to
            /\ Bytes[End(k) + 3] = Len(u.data) \div Radix /\ Bytes[End(k) + 4] = Len(u.data) % Radix
            /\ \A i \in 1..Len(u.data) : Bytes[End(k) + 4 + i] = u.data[i]
<1> DEFINE m == k + 1
<1>1. m - 1 = k
  BY Numbered
<1>2. m \in Units /\ IsPacket(m) /\ world \in Worlds
  BY DEF TypeOK
<1> HIDE DEF m
<1>3. LET u == world.wire[m]
      IN /\ u.to \in Channels /\ u.data \in Seq(Nat) /\ Len(u.data) \in Nat
         /\ End(m) = End(m - 1) + 4 + Len(u.data)
         /\ Bytes[End(m - 1) + 1] = Dollar /\ Bytes[End(m - 1) + 2] = u.to
         /\ Bytes[End(m - 1) + 3] = Len(u.data) \div Radix
         /\ Bytes[End(m - 1) + 4] = Len(u.data) % Radix
         /\ \A i \in 1..Len(u.data) : Bytes[End(m - 1) + 4 + i] = u.data[i]
  BY <1>2, PacketUnit
<1> QED
  BY <1>1, <1>3 DEF m

\* At the end of a unit: the next one starts.
LEMMA AwaitingDollarParsed ==
  ASSUME TypeOK, IInv, Calm, Ruled, Attached, AwaitingDollar,
         NEW k \in 0..Len(world.wire), Parsed(k)
  PROVE  Parsed(k)' \/ Parsed(k + 1)'
<1>1. /\ Reading /\ taken < arrived /\ taken' = taken + 1 /\ fTCPReadingState = "AWAITING_DOLLAR"
      /\ world' = world /\ fInBuf' = fInBuf
  BY DEF AwaitingDollar, ReadingHeader, reading
<1>2. Units' = Units /\ \A m : End(m)' = End(m) /\ IsPacket(m)' = IsPacket(m)
  BY <1>1, SameWorld
<1>3. taken = End(k) /\ Empty /\ GivenUpTo(k)
  <2>1. ~(Header(k + 1) \/ Inside(k + 1))
    BY <1>1 DEF Header, Inside
  <2> QED
    BY <2>1 DEF Parsed, Between
<1>4. /\ End(k) \in Nat /\ taken \in Nat /\ arrived \in Nat /\ arrived <= End(Len(world.wire))
      /\ k + 1 - 1 = k
  BY Numbered
<1>5. k + 1 \in Units /\ k + 1 \in 0..Len(world.wire)
  BY <1>1, <1>3, <1>4, Numbered
<1>6. Byte = Bytes[End(k) + 1]
  BY <1>3 DEF Byte
<1>7. CASE IsPacket(k + 1)
  <2>1. Byte = Dollar
    BY <1>5, <1>6, <1>7, NextPacket
  <2>2. given' = given /\ fTCPReadingState' = "AWAITING_STREAM_CHANNEL_ID"
    BY <2>1 DEF AwaitingDollar
  <2>3. GivenUpTo(k)'
    BY <1>1, <1>3, <2>2 DEF GivenUpTo, Place
  <2>4. taken' - End(k + 1 - 1) = 1
    BY <1>1, <1>3, <1>4
  <2>5. Header(k + 1)'
    BY <1>1, <1>2, <1>3, <2>2, <2>4 DEF Header, Empty
  <2>6. Parsed(k)'
    BY <1>1, <1>2, <1>5, <1>7, <2>3, <2>5 DEF Parsed
  <2> QED
    BY <2>6
<1>8. CASE ~IsPacket(k + 1)
  <2> DEFINE u == world.wire[k + 1]
  <2>1. /\ End(k + 1) = End(k + 1 - 1) + 1 /\ Bytes[End(k + 1 - 1) + 1] = u.data[1]
        /\ u.data = <<u.data[1]>> /\ u.data # <<>> /\ u.to = RTSP
    BY <1>5, <1>8, TextUnit DEF TypeOK
  <2>2. Byte = u.data[1] /\ End(k + 1) = taken + 1
    BY <1>3, <1>4, <1>6, <2>1
  <2>3. Byte \notin {Dollar} \cup Signals
    BY <1>5, <1>8, <2>2, CalmWorld
  <2>4. exists /\ fServerRequestAlternativeByteHandler
    BY <1>1 DEF Reading, InLoop, IInv, Descriptor, Ruled
  <2>5. given' = Append(given, [to |-> RTSP, data |-> <<Byte>>]) /\ Setup(Answered(taken + 1, taken + 1))
    BY <2>3, <2>4 DEF AwaitingDollar
  <2>6. given' = Append(given, [to |-> u.to, data |-> u.data])
    BY <2>1, <2>2, <2>5
  <2>7. fTCPReadingState' = "AWAITING_DOLLAR"
    BY <1>1, <2>5 DEF Setup, Register, parsing
  <2>8. given \in Seq(Given)
    BY DEF TypeOK, Given
  <2>9. GivenUpTo(k + 1)'
    BY <1>1, <1>3, <1>5, <2>1, <2>6, <2>8, GivenNext DEF TypeOK
  <2>10. Between(k + 1)'
    BY <1>1, <1>2, <1>3, <2>2, <2>7 DEF Between, Empty
  <2>11. Parsed(k + 1)'
    BY <1>1, <1>5, <2>9, <2>10 DEF Parsed
  <2> QED
    BY <2>11
<1> QED
  BY <1>7, <1>8

\* Its channel, and the high byte of its size.
LEMMA HeaderParsed ==
  ASSUME TypeOK, IInv, Calm, Ruled, Attached, AwaitingChannel \/ AwaitingSize1,
         NEW k \in 0..Len(world.wire), Parsed(k)
  PROVE  Parsed(k)'
<1> DEFINE u == world.wire[k + 1]
<1>1. /\ taken' = taken + 1 /\ fTCPReadingState \in {"AWAITING_STREAM_CHANNEL_ID", "AWAITING_SIZE1"}
      /\ world' = world /\ fInBuf' = fInBuf /\ given' = given
  BY DEF AwaitingChannel, AwaitingSize1, ReadingHeader, reading
<1>2. Units' = Units /\ \A m : End(m)' = End(m) /\ IsPacket(m)' = IsPacket(m)
  BY <1>1, SameWorld
<1>3. /\ k + 1 \in Units /\ IsPacket(k + 1) /\ (Header(k + 1) \/ Inside(k + 1))
      /\ u.to \in fSubChannelHashTable
  BY <1>1, WithinPacket DEF Between
<1>4. Header(k + 1)
  BY <1>1, <1>3 DEF Inside
<1>5. End(k) \in Nat /\ taken \in Nat /\ k + 1 - 1 = k
  BY Numbered
<1>6. Bytes[End(k) + 2] = u.to /\ Bytes[End(k) + 3] = Len(u.data) \div Radix
  BY <1>3, NextPacket
<1>7. GivenUpTo(k)'
  BY <1>1 DEF Parsed, GivenUpTo, Place
<1>8. CASE AwaitingChannel
  <2>1. fTCPReadingState = "AWAITING_STREAM_CHANNEL_ID"
    BY <1>8 DEF AwaitingChannel
  <2>2. taken - End(k) = 1
    BY <1>4, <1>5, <2>1 DEF Header
  <2>3. taken + 1 = End(k) + 2 /\ taken' - End(k) = 2
    BY <1>1, <1>5, <2>2
  <2>4. Byte = u.to
    BY <1>6, <2>3 DEF Byte
  <2>5. fTCPReadingState' = "AWAITING_SIZE1" /\ fStreamChannelId' = u.to
    BY <1>3, <1>8, <2>4 DEF AwaitingChannel
  <2>6. Header(k + 1)'
    BY <1>1, <1>2, <1>4, <1>5, <2>3, <2>5 DEF Header, Empty, chan
  <2> QED
    BY <1>1, <1>2, <1>3, <1>7, <2>6 DEF Parsed
<1>9. CASE AwaitingSize1
  <2>1. fTCPReadingState = "AWAITING_SIZE1"
    BY <1>9 DEF AwaitingSize1
  <2>2. taken - End(k) = 2 /\ chan = u.to
    BY <1>4, <1>5, <2>1 DEF Header
  <2>3. taken + 1 = End(k) + 3 /\ taken' - End(k) = 3
    BY <1>1, <1>5, <2>2
  <2>4. Byte = Len(u.data) \div Radix
    BY <1>6, <2>3 DEF Byte
  <2>5. fTCPReadingState' = "AWAITING_SIZE2" /\ chan' = u.to /\ fSizeByte1' = Len(u.data) \div Radix
    BY <1>9, <2>2, <2>4 DEF AwaitingSize1, chan
  <2>6. Header(k + 1)'
    BY <1>1, <1>2, <1>4, <1>5, <2>3, <2>5 DEF Header, Empty
  <2> QED
    BY <1>1, <1>2, <1>3, <1>7, <2>6 DEF Parsed
<1> QED
  BY <1>8, <1>9

\* The size is known; a packet without data is at its end.
LEMMA AwaitingSize2Parsed ==
  ASSUME TypeOK, IInv, Calm, Ruled, Attached, AwaitingSize2,
         NEW k \in 0..Len(world.wire), Parsed(k)
  PROVE  Parsed(k)' \/ Parsed(k + 1)'
<1> DEFINE u == world.wire[k + 1]
           l == Len(u.data)
<1>1. /\ taken' = taken + 1 /\ fTCPReadingState = "AWAITING_SIZE2" /\ fTCPReadingState' = "AWAITING_PACKET_DATA"
      /\ world' = world /\ fInBuf' = fInBuf /\ given' = given /\ chan' = chan
      /\ fSubChannelHashTable' = fSubChannelHashTable
  BY DEF AwaitingSize2, ReadingHeader, descriptor, chan
<1>2. Units' = Units /\ \A m : End(m)' = End(m) /\ IsPacket(m)' = IsPacket(m)
  BY <1>1, SameWorld
<1>3. /\ k + 1 \in Units /\ IsPacket(k + 1) /\ (Header(k + 1) \/ Inside(k + 1))
      /\ u.to \in fSubChannelHashTable
  BY <1>1, WithinPacket DEF Between
<1>4. Header(k + 1)
  BY <1>1, <1>3 DEF Inside
<1>5. End(k) \in Nat /\ taken \in Nat /\ k + 1 - 1 = k /\ k + 1 \in 0..Len(world.wire)
  BY <1>3, Numbered
<1>6. /\ Bytes[End(k) + 4] = l % Radix /\ End(k + 1) = End(k) + 4 + l /\ u.data \in Seq(Nat) /\ l \in Nat
      /\ u.to \in Channels
  BY <1>3, NextPacket
<1>7. taken - End(k) = 3 /\ chan = u.to /\ fSizeByte1 = l \div Radix /\ Empty /\ GivenUpTo(k)
  BY <1>1, <1>4, <1>5 DEF Header, Parsed
<1>8. taken + 1 = End(k) + 4
  BY <1>5, <1>7
<1>9. Byte = l % Radix
  BY <1>6, <1>8 DEF Byte
<1> HIDE DEF l
<1>10. (l \div Radix) * Radix + (l % Radix) = l
  <2>1. Radix \in Nat \ {0}
    BY SizesAssumption
  <2>2. \A x \in Nat, y \in Nat \ {0} : (x \div y) * y + (x % y) = x
    OBVIOUS
  <2> QED
    BY <1>6, <2>1, <2>2
<1>11. fNextTCPReadSize' = [fNextTCPReadSize EXCEPT ![chan] = l]
  <2>1. fNextTCPReadSize' = [fNextTCPReadSize EXCEPT ![chan] = fSizeByte1 * Radix + Byte]
    BY <1>3, <1>7 DEF AwaitingSize2
  <2>2. fSizeByte1 * Radix + Byte = l
    BY <1>7, <1>9, <1>10
  <2> QED
    BY <2>1, <2>2
<1>12. fNextTCPReadSize'[chan] = l /\ Empty'
  BY <1>1, <1>6, <1>7, <1>11 DEF TypeOK, Empty
<1>13. CASE l = 0
  <2>1. u.data = <<>>
    BY <1>6, <1>13 DEF l
  <2>2. GivenUpTo(k + 1)'
    <3>1. given \in Seq(Given)
      BY DEF TypeOK, Given
    <3> QED
      BY <1>1, <1>3, <1>7, <2>1, <3>1, GivenNext DEF TypeOK
  <2>3. taken' = End(k + 1)
    BY <1>1, <1>5, <1>6, <1>8, <1>13
  <2>4. Between(k + 1)'
    BY <1>1, <1>2, <1>3, <1>7, <1>12, <1>13, <2>3 DEF Between
  <2>5. Parsed(k + 1)'
    BY <1>1, <1>5, <2>2, <2>4 DEF Parsed
  <2> QED
    BY <2>5
<1>14. CASE l # 0
  <2>1. GivenUpTo(k)'
    BY <1>1, <1>7 DEF GivenUpTo, Place
  <2>2. l > 0 /\ l <= l /\ taken' > End(k) /\ taken' + l = End(k + 1) /\ l - l = 0
    BY <1>1, <1>5, <1>6, <1>8, <1>14
  <2>3. SubSeq(u.data, 1, 0) = <<>>
    BY <1>6
  <2>4. \A c \in Channels : fInBuf'[c] = <<>>
    BY <1>12 DEF Empty
  <2>5. Inside(k + 1)'
    <3> DEFINE left == fNextTCPReadSize'[chan']
    <3>1. left = l /\ chan' = u.to /\ End(k + 1 - 1)' = End(k) /\ End(k + 1)' = End(k + 1)
      BY <1>1, <1>2, <1>5, <1>7, <1>12
    <3>2. /\ chan' = u.to /\ left > 0 /\ taken' > End(k + 1 - 1)'
          /\ left <= l /\ taken' + left = End(k + 1)'
      BY <2>2, <3>1
    <3>3. fInBuf'[chan'] = SubSeq(u.data, 1, l - left) /\ \A c \in Channels \ {chan'} : fInBuf'[c] = <<>>
      BY <1>1, <1>6, <1>7, <2>2, <2>3, <2>4, <3>1
    <3>4. fTCPReadingState' = "AWAITING_PACKET_DATA" /\ world' = world
      BY <1>1
    <3> HIDE DEF left
    <3>5. /\ left <= Len(u.data) /\ taken' + left = End(k + 1)'
          /\ fInBuf'[chan'] = SubSeq(u.data, 1, Len(u.data) - left)
          /\ \A c \in Channels \ {chan'} : fInBuf'[c] = <<>>
      BY <3>2, <3>3 DEF l
    <3> QED
      BY <3>2, <3>4, <3>5 DEF Inside, left
  <2>6. Parsed(k)'
    BY <1>1, <1>2, <1>3, <2>1, <2>5 DEF Parsed
  <2> QED
    BY <2>6
<1> QED
  BY <1>13, <1>14

\* A packet that has been read is followed by the next unit.
LEMMA PacketDoneParsed ==
  ASSUME TypeOK, Calm, Ruled, Attached, PacketDone, NEW k \in 0..Len(world.wire), Parsed(k)
  PROVE  Parsed(k)'
<1>1. /\ fTCPReadingState = "AWAITING_PACKET_DATA" /\ fTCPReadingState' = "AWAITING_DOLLAR"
      /\ chan \in fSubChannelHashTable => fNextTCPReadSize[chan] = 0
      /\ world' = world /\ UNCHANGED <<given, taken, fInBuf>>
  BY DEF PacketDone, ReadingData, reading
<1>2. \A m : End(m)' = End(m)
  BY <1>1, SameWorld
<1>3. Between(k)
  <2>1. SUFFICES ASSUME ~Between(k) PROVE FALSE
    OBVIOUS
  <2>2. Inside(k + 1) /\ world.wire[k + 1].to \in fSubChannelHashTable
    BY <1>1, <2>1, WithinPacket DEF Header
  <2> QED
    BY <1>1, <2>2 DEF Inside
<1>4. GivenUpTo(k)'
  BY <1>1 DEF Parsed, GivenUpTo, Place
<1>5. Between(k)'
  BY <1>1, <1>2, <1>3 DEF Between, Empty
<1> QED
  BY <1>1, <1>4, <1>5 DEF Parsed

\* What an interface has of its packet, with what it gets.
LEMMA DataOfPacket ==
  ASSUME TypeOK, ~HitLimit, NEW k \in 0..Len(world.wire), k + 1 \in Units, IsPacket(k + 1), Inside(k + 1),
         chan \in fNextTCPReadStreamSocketNum
  PROVE  LET u == world.wire[k + 1]
             left == fNextTCPReadSize[chan] - Got
         IN Data = SubSeq(u.data, 1, Len(u.data) - left)
<1> DEFINE d == world.wire[k + 1].data
           s == fNextTCPReadSize[chan]
           l == Len(d)
           b == fInBuf[chan]
           x == l - s
           g == Got
           e == Data
<1>1. chan \in Channels
  BY DEF TypeOK
<1>2. s \in Nat /\ s > 0 /\ s <= l /\ taken + s = End(k + 1) /\ b = SubSeq(d, 1, x)
  BY <1>1 DEF Inside, TypeOK
<1>3. d \in Seq(Nat) /\ l \in Nat /\ End(k + 1) = End(k) + 4 + l
      /\ \A i \in 1..l : Bytes[End(k) + 4 + i] = d[i]
  BY NextPacket
<1>4. End(k) \in Nat /\ taken \in Nat
  BY Numbered
<1>5. /\ g \in Nat /\ g <= s /\ e \in Seq(Nat) /\ Len(e) = Len(b) + g
      /\ \A j \in 1..Len(b) : e[j] = b[j]
      /\ \A j \in 1..g : e[Len(b) + j] = Bytes[taken + j]
  BY <1>1, GotTypes
<1>6. \A i \in 1..l : d[i] \in Nat
  BY <1>3, ElementOfSeq
<1> HIDE DEF d, s, l, b, g, e
<1>7. x \in Nat /\ x + s = l
  BY <1>2, <1>3
<1>8. Len(b) = x /\ \A j \in 1..x : b[j] = d[j]
  <2> HIDE DEF x
  <2>1. \A i \in 1..x : d[i] \in Nat
    BY <1>2, <1>3, <1>6, <1>7
  <2>2. /\ SubSeq(d, 1, x) \in Seq(Nat) /\ Len(SubSeq(d, 1, x)) = IF 1 <= x THEN x - 1 + 1 ELSE 0
        /\ \A j \in 1..x - 1 + 1 : SubSeq(d, 1, x)[j] = d[1 + j - 1]
    BY ONLY <1>7, <2>1, SubSeqProperties
  <2>3. x - 1 + 1 = x /\ (~(1 <= x) => x = 0) /\ \A j \in 1..x : 1 + j - 1 = j
    BY <1>7
  <2> QED
    BY <1>2, <2>2, <2>3
<1> DEFINE p == End(k)
<1> HIDE DEF x, p
<1>9. /\ taken = p + 4 + x /\ p \in Nat /\ taken \in Nat /\ x \in Nat /\ x + s = l /\ s \in Nat /\ l \in Nat
      /\ g \in Nat /\ g <= s
  <2>1. s \in Nat /\ taken + s = End(k + 1)
    BY <1>2
  <2>2. l \in Nat /\ End(k + 1) = p + 4 + l
    BY <1>3 DEF p
  <2>3. p \in Nat /\ taken \in Nat
    BY <1>4 DEF p
  <2>4. g \in Nat /\ g <= s
    BY <1>5
  <2> QED
    BY <1>7, <2>1, <2>2, <2>3, <2>4
<1>10. Len(e) = x + g /\ \A j \in 1..x : e[j] = d[j]
  BY <1>5, <1>8
<1>11. ASSUME NEW j \in 1..g PROVE e[x + j] = d[x + j]
  <2>1. x + j \in 1..l /\ taken + j = p + 4 + (x + j)
    BY <1>9
  <2>2. e[x + j] = Bytes[taken + j]
    BY <1>5, <1>8
  <2>3. Bytes[p + 4 + (x + j)] = d[x + j]
    BY <1>3, <2>1 DEF p
  <2> QED
    BY <2>1, <2>2, <2>3
<1> DEFINE n == l - (s - g)
<1>12. n \in Nat /\ n <= l /\ n = x + g
  BY <1>9
<1> HIDE DEF n
<1>13. \A j \in 1..n : e[j] = d[j]
  <2> TAKE j \in 1..n
  <2>1. CASE j <= x
    <3>1. j \in 1..x
      BY <1>9, <1>12, <2>1
    <3> QED
      BY <1>10, <3>1
  <2>2. CASE j > x
    <3> DEFINE y == j - x
    <3>1. y \in 1..g /\ x + y = j
      BY <1>9, <1>12, <2>2
    <3> HIDE DEF y
    <3> QED
      BY <1>11, <3>1
  <2> QED
    BY <1>9, <1>12, <2>1, <2>2
<1>14. e = SubSeq(d, 1, n)
  <2>1. \A i \in 1..n : d[i] \in Nat
    BY <1>3, <1>6, <1>12
  <2> DEFINE f == SubSeq(d, 1, n)
  <2>2. /\ f \in Seq(Nat) /\ Len(f) = IF 1 <= n THEN n - 1 + 1 ELSE 0
        /\ \A j \in 1..n - 1 + 1 : f[j] = d[1 + j - 1]
    BY ONLY <1>12, <2>1, SubSeqProperties
  <2>3. n - 1 + 1 = n /\ (~(1 <= n) => n = 0) /\ \A j \in 1..n : 1 + j - 1 = j
    BY <1>12
  <2> HIDE DEF f
  <2>4. f \in Seq(Nat) /\ Len(f) = n /\ \A j \in 1..n : f[j] = d[j]
    BY <2>2, <2>3
  <2>5. Len(e) = n
    BY <1>10, <1>12
  <2>6. e = f
    BY <1>5, <1>13, <2>4, <2>5, SeqEqual
  <2> QED
    BY <2>6 DEF f
<1> QED
  BY <1>14 DEF d, s, l, g, e, n

\* An interface reads the rest of its packet, or what is there of it.
LEMMA ReadPacketParsed ==
  ASSUME TypeOK, IInv, Calm, Ruled, Attached, ReadPacket, NEW k \in 0..Len(world.wire), Parsed(k)
  PROVE  Parsed(k)' \/ Parsed(k + 1)'
<1> DEFINE u == world.wire[k + 1]
           s == fNextTCPReadSize[chan]
           l == Len(u.data)
<1>1. /\ fTCPReadingState = "AWAITING_PACKET_DATA" /\ fTCPReadingState' = "AWAITING_PACKET_DATA"
      /\ chan \in fSubChannelHashTable /\ s > 0 /\ chan' = chan /\ chan \in Channels
      /\ world' = world /\ fSubChannelHashTable' = fSubChannelHashTable
      /\ UNCHANGED <<fStreamChannelId, fSizeByte1>>
  BY DEF ReadPacket, ReadingData, parsing, descriptor, chan, TypeOK
<1>2. Units' = Units /\ \A m : End(m)' = End(m) /\ IsPacket(m)' = IsPacket(m)
  BY <1>1, SameWorld
<1>3. k + 1 \in Units /\ IsPacket(k + 1) /\ Inside(k + 1) /\ k + 1 \in 0..Len(world.wire) /\ k + 1 - 1 = k
  <2>1. ~Between(k)
    BY <1>1 DEF Between
  <2>2. k + 1 \in Units /\ IsPacket(k + 1) /\ Inside(k + 1)
    BY <1>1, <2>1, WithinPacket DEF Header
  <2> QED
    BY <2>2, Numbered
<1>4. GivenUpTo(k)
  BY DEF Parsed
<1>5. CASE UNCHANGED <<reading, taken, given, phase>>
  <2>1. Parsed(k)'
    BY <1>1, <1>5, SameParsed
  <2> QED
    BY <2>1
<1>6. CASE ~UNCHANGED <<reading, taken, given, phase>>
  <2> DEFINE g == Got
             whole == Got = fNextTCPReadSize[chan]
             fails == ~whole /\ Got < Asked /\ broken
  <2>1. /\ ~HitLimit /\ chan \in fNextTCPReadStreamSocketNum /\ taken' = taken + g
        /\ fNextTCPReadSize' = [fNextTCPReadSize EXCEPT ![chan] = s - g]
        /\ fInBuf' = [fInBuf EXCEPT ![chan] = IF whole \/ fails THEN <<>> ELSE Data]
        /\ fNextTCPReadStreamSocketNum' =
             fNextTCPReadStreamSocketNum \ (IF Forgets(whole, fails) THEN {chan} ELSE {})
        /\ given' = IF whole THEN Append(given, [to |-> chan, data |-> Data]) ELSE given
    BY <1>6 DEF ReadPacket
  <2>2. /\ chan = u.to /\ taken > End(k) /\ s \in Nat /\ s <= l /\ taken + s = End(k + 1)
        /\ \A c \in Channels \ {chan} : fInBuf[c] = <<>>
    <3>1. s \in Nat
      BY <1>1 DEF TypeOK
    <3>2. chan = u.to /\ taken > End(k + 1 - 1)
      BY <1>3 DEF Inside
    <3>3. s <= l /\ taken + s = End(k + 1) /\ \A c \in Channels \ {chan} : fInBuf[c] = <<>>
      BY <1>3, <2>1 DEF Inside
    <3>4. taken > End(k)
      BY <1>3, <3>2
    <3> QED
      BY <3>1, <3>2, <3>3, <3>4
  <2>3. u.data \in Seq(Nat) /\ l \in Nat
    BY <1>3, NextPacket
  <2>4. g \in Nat /\ g <= s
    BY <1>1, <2>1, GotTypes
  <2>5. Data = SubSeq(u.data, 1, l - (s - g))
    BY <1>3, <2>1, DataOfPacket
  <2>6. End(k) \in Nat /\ taken \in Nat /\ End(k + 1) \in Nat
    BY <1>3, Numbered
  <2>7. fNextTCPReadSize'[chan] = s - g /\ (whole <=> s - g = 0)
    <3>1. fNextTCPReadSize \in [Channels -> Nat]
      BY DEF TypeOK
    <3>2. whole <=> g = s
      OBVIOUS
    <3> HIDE DEF s, g, whole
    <3>3. fNextTCPReadSize'[chan] = s - g
      BY <1>1, <2>1, <3>1
    <3>4. g = s <=> s - g = 0
      BY <2>2, <2>4
    <3> QED
      BY <3>2, <3>3, <3>4
  <2> HIDE DEF s, g, l
  <2>8. CASE whole
    <3>1. Data = u.data
      <4>1. l - (s - g) = l
        BY <2>2, <2>3, <2>4, <2>7, <2>8
      <4>2. SubSeq(u.data, 1, l) = u.data
        BY <2>3 DEF l
      <4> QED
        BY <2>5, <4>1, <4>2
    <3>2. u.data # <<>>
      BY <1>1, <2>2, <2>3 DEF l
    <3>3. given' = Append(given, [to |-> u.to, data |-> u.data])
      BY <2>1, <2>2, <2>8, <3>1
    <3>4. given \in Seq(Given)
      BY DEF TypeOK, Given
    <3>5. GivenUpTo(k + 1)'
      BY <1>1, <1>3, <1>4, <3>2, <3>3, <3>4, GivenNext DEF TypeOK
    <3>6. taken' = End(k + 1)
      BY <2>1, <2>2, <2>4, <2>6, <2>7, <2>8
    <3>7. Empty'
      BY <1>1, <2>1, <2>2, <2>8 DEF Empty, TypeOK
    <3>8. Between(k + 1)'
      BY <1>1, <1>2, <2>7, <2>8, <3>6, <3>7 DEF Between
    <3>9. Parsed(k + 1)'
      BY <1>1, <1>3, <3>5, <3>8 DEF Parsed
    <3> QED
      BY <3>9
  <2>9. CASE ~whole
    <3> DEFINE left == fNextTCPReadSize'[chan']
    <3>1. GivenUpTo(k)'
      BY <1>1, <1>4, <2>1, <2>9 DEF GivenUpTo, Place
    <3>2. left = s - g /\ left > 0 /\ left <= l /\ taken' > End(k + 1 - 1)' /\ taken' + left = End(k + 1)'
      <4>1. left = s - g /\ s - g # 0
        BY <1>1, <2>7, <2>9
      <4>2. End(k + 1 - 1)' = End(k) /\ End(k + 1)' = End(k + 1)
        BY <1>2, <1>3
      <4> HIDE DEF left
      <4> QED
        BY <2>1, <2>2, <2>3, <2>4, <2>6, <4>1, <4>2
    <3>3. ASSUME chan' \in fNextTCPReadStreamSocketNum'
          PROVE  fInBuf'[chan'] = SubSeq(u.data, 1, l - left) /\ \A c \in Channels \ {chan'} : fInBuf'[c] = <<>>
      <4>1. ~fails
        BY <1>1, <2>1, <3>3 DEF Forgets
      <4>2. fInBuf' = [fInBuf EXCEPT ![chan] = Data]
        BY <2>1, <2>9, <4>1
      <4>3. fInBuf'[chan'] = Data
        BY <1>1, <4>2 DEF TypeOK
      <4>4. \A c \in Channels \ {chan'} : fInBuf'[c] = <<>>
        BY <1>1, <2>2, <4>2 DEF TypeOK
      <4> QED
        BY <2>5, <3>2, <4>3, <4>4
    <3>4. chan' = u.to
      BY <1>1, <2>2
    <3>5. Inside(k + 1)'
      BY <1>1, <3>2, <3>3, <3>4 DEF Inside, l
    <3>6. Parsed(k)'
      BY <1>1, <1>2, <1>3, <3>1, <3>5 DEF Parsed
    <3> QED
      BY <3>6
  <2> QED
    BY <2>8, <2>9
<1> QED
  BY <1>5, <1>6

-----------------------------------------------------------------------------
(***************************************************************************)
(* RTSPClient reads the socket itself; and the result.                     *)
(***************************************************************************)

\* When RTSPClient reads the socket, no subsession is open, and no packet has come.
LEMMA OnlyTexts ==
  ASSUME TypeOK, Calm, Ruled, Attached, reader = "client", NEW k \in Units, End(k - 1) < arrived
  PROVE  ~IsPacket(k)
BY PacketAttached

\* One text after the other, up to what has come.
LEMMA TextsInTurn ==
  ASSUME TypeOK, Calm, Ruled, Attached, reader = "client",
         NEW k \in 0..Len(world.wire), taken = End(k)
  PROVE  /\ \A j \in 0..arrived - taken :
              k + j \in 0..Len(world.wire) /\ End(k + j) = taken + j /\ Place(k + j) = Place(k) + j
         /\ \A j \in 1..arrived - taken :
              world.wire[k + j].to = RTSP /\ world.wire[k + j].data = <<Bytes[taken + j]>>
<1> DEFINE m == arrived - taken
           n == Len(world.wire)
           Good(j) == k + j \in 0..n /\ End(k + j) = taken + j /\ Place(k + j) = Place(k) + j
           Text(j) == world.wire[k + j].to = RTSP /\ world.wire[k + j].data = <<Bytes[taken + j]>>
           T == {j \in 0..m : ~Good(j)}
<1>1. k \in Nat /\ taken \in Nat /\ arrived \in Nat /\ m \in Nat /\ taken + m = arrived /\ n \in Nat
      /\ arrived <= End(n) /\ world \in Worlds
  <2>1. world \in Worlds
    BY DEF TypeOK
  <2>2. n \in Nat
    BY <2>1, Layout
  <2>3. k \in Nat /\ taken \in Nat /\ arrived \in Nat /\ taken <= arrived /\ arrived <= End(n)
    BY Numbered
  <2> HIDE DEF n
  <2> QED
    BY <2>1, <2>2, <2>3
<1> HIDE DEF m, n, Good, Text, T
<1>2. ASSUME NEW x \in 1..m, Good(x - 1) PROVE Good(x) /\ Text(x)
  <2> DEFINE y == k + x
             p == Place(k)
  <2>1. y - 1 = k + (x - 1) /\ y \in Nat /\ taken + (x - 1) < arrived /\ taken + (x - 1) + 1 = taken + x
        /\ p + (x - 1) + 1 = p + x
    <3>1. p \in Nat
      BY <1>1, PlacesCount
    <3> HIDE DEF p
    <3>2. x \in 1..m /\ m \in Nat /\ k \in Nat /\ taken \in Nat /\ arrived \in Nat /\ taken + m = arrived
      BY <1>1
    <3> QED
      BY ONLY <3>1, <3>2
  <2>2. y - 1 \in 0..n /\ End(y - 1) = taken + (x - 1) /\ Place(y - 1) = p + (x - 1)
    BY <1>2, <2>1 DEF Good
  <2> HIDE DEF y, p
  <2>3. End(y - 1) < arrived
    BY <2>1, <2>2
  <2>4. y - 1 # n
    <3>1. SUFFICES ASSUME y - 1 = n PROVE FALSE
      OBVIOUS
    <3>2. End(n) < arrived
      BY <2>3, <3>1
    <3>3. End(n) \in Nat
      BY <1>1, Layout DEF n
    <3> QED
      BY <1>1, <3>2, <3>3
  <2>5. y \in 1..n /\ y \in 0..n
    BY <1>1, <2>1, <2>2, <2>4
  <2>6. y \in Units
    BY <1>1, <2>5, Layout DEF n
  <2>7. ~IsPacket(y)
    BY <2>3, <2>6, OnlyTexts
  <2>8. /\ End(y) = End(y - 1) + 1 /\ Bytes[End(y - 1) + 1] = world.wire[y].data[1]
        /\ world.wire[y].data = <<world.wire[y].data[1]>> /\ world.wire[y].data # <<>>
        /\ world.wire[y].to = RTSP
    BY <1>1, <2>6, <2>7, TextUnit
  <2>9. Place(y) = Place(y - 1) + 1
    BY <1>1, <2>6, <2>8, PlacesCount
  <2>10. End(y) = taken + x /\ Place(y) = p + x
    BY <2>1, <2>2, <2>8, <2>9
  <2>11. world.wire[y].data = <<Bytes[taken + x]>>
    BY <2>1, <2>2, <2>8
  <2> QED
    BY <2>5, <2>8, <2>10, <2>11 DEF y, p, Good, Text
<1>3. Good(0)
  <2>1. k + 0 = k /\ taken + 0 = taken
    BY <1>1
  <2>2. Place(k) \in Nat /\ Place(k) + 0 = Place(k)
    BY <1>1, PlacesCount
  <2> QED
    BY <2>1, <2>2 DEF Good, n
<1>4. T = {}
  <2>1. SUFFICES ASSUME T # {} PROVE FALSE
    OBVIOUS
  <2>2. T \subseteq Nat
    BY <1>1 DEF T
  <2>3. PICK x \in T : \A y \in T : ~(y < x)
    BY <2>1, <2>2, Least
  <2>4. x \in 0..m /\ ~Good(x) /\ \A y \in 0..m : ~Good(y) => ~(y < x)
    BY <2>3 DEF T
  <2>5. x \in 1..m /\ x - 1 \in 0..m /\ x - 1 < x
    <3>1. x # 0
      BY <1>3, <2>4
    <3> QED
      BY <1>1, <2>4, <3>1
  <2> QED
    BY <1>2, <2>4, <2>5
<1>5. \A j \in 0..m : Good(j)
  BY <1>4 DEF T
<1>6. ASSUME NEW j \in 1..m PROVE Text(j)
  <2>1. j - 1 \in 0..m
    BY <1>1
  <2> QED
    BY <1>2, <1>5, <2>1
<1> QED
  BY <1>5, <1>6 DEF Good, Text, m, n

\* RTSPClient is given all that is there, and that is texts.
LEMMA ClientReadsParsed ==
  ASSUME TypeOK, Calm, Ruled, Attached, ClientReads, NEW k \in 0..Len(world.wire), Parsed(k)
  PROVE  \E m \in 0..Len(world.wire) : Parsed(m)'
<1> DEFINE m == arrived - taken
           item(i) == [to |-> RTSP, data |-> <<Bytes[taken + i]>>]
           new == [i \in 1..m |-> item(i)]
           r(j) == [to |-> world.wire[j].to, data |-> world.wire[j].data]
           p == Place(k)
<1>1. /\ reader = "client" /\ taken < arrived /\ taken' = arrived /\ world' = world /\ fInBuf' = fInBuf
      /\ given' = given \o new /\ Setup(Answered(taken + 1, arrived))
  BY DEF ClientReads, reading
<1>2. Units' = Units /\ \A x : End(x)' = End(x) /\ IsPacket(x)' = IsPacket(x)
  BY <1>1, SameWorld
<1>3. ~exists /\ fSubChannelHashTable = {}
  BY <1>1 DEF Ruled
<1>4. taken = End(k) /\ Empty /\ fTCPReadingState = "AWAITING_DOLLAR" /\ GivenUpTo(k)
  <2>1. Between(k)
    BY <1>3, WithinPacket
  <2> QED
    BY <1>3, <2>1 DEF Between, Parsed
<1>5. taken \in Nat /\ arrived \in Nat /\ m \in Nat /\ taken + m = arrived /\ k \in Nat /\ world \in Worlds
  BY <1>1, Numbered DEF TypeOK
<1>6. /\ \A j \in 0..m : k + j \in 0..Len(world.wire) /\ End(k + j) = taken + j /\ Place(k + j) = Place(k) + j
      /\ \A j \in 1..m : world.wire[k + j].to = RTSP /\ world.wire[k + j].data = <<Bytes[taken + j]>>
  BY <1>1, <1>4, TextsInTurn
<1>7. fTCPReadingState' = "AWAITING_DOLLAR"
  BY <1>1, <1>3, <1>4 DEF Setup, Register, parsing
<1>8. \A j \in 1..m : item(j) = r(k + j)
  BY <1>6
<1> HIDE DEF m, item, r
<1>9. PICK e \in 0..Len(world.wire) : End(e) = arrived /\ Place(e) = p + m /\ e = k + m
  <2>1. m \in 0..m
    BY <1>5
  <2>2. k + m \in 0..Len(world.wire) /\ End(k + m) = taken + m /\ Place(k + m) = p + m
    BY <1>6, <2>1
  <2> QED
    BY <1>5, <2>2
<1>10. /\ Len(given) = p /\ p \in Nat
       /\ \A j \in 1..k : world.wire[j].data # <<>> => given[Place(j)] = r(j) /\ Place(j) \in 1..p
  <2>1. p \in Nat /\ \A j \in 1..k : world.wire[j].data # <<>> => Place(j) \in 1..p
    BY <1>5, PlacesCount
  <2>2. Len(given) = p /\ \A j \in 1..k : world.wire[j].data # <<>> => given[Place(j)] = r(j)
    BY <1>4 DEF GivenUpTo, r
  <2> HIDE DEF p
  <2> QED
    BY <2>1, <2>2
<1> HIDE DEF p
<1>11. /\ Len(given') = p + m
       /\ \A i \in 1..p + m : given'[i] = IF i <= p THEN given[i] ELSE item(i - p)
  <2>1. given \in Seq(Given)
    BY DEF TypeOK, Given
  <2>2. new \in Seq({item(i) : i \in 1..m}) /\ Len(new) = m /\ \A i \in 1..m : new[i] = item(i)
    BY <1>5
  <2> DEFINE W == Given \cup {item(i) : i \in 1..m}
  <2>3. given \in Seq(W) /\ new \in Seq(W)
    BY <2>1, <2>2
  <2> HIDE DEF new, W
  <2>4. /\ Len(given \o new) = Len(given) + Len(new)
        /\ \A i \in 1..Len(given) + Len(new) :
             (given \o new)[i] = IF i <= Len(given) THEN given[i] ELSE new[i - Len(given)]
    BY <2>3, ConcatProperties
  <2>5. \A i \in 1..p + m : ~(i <= p) => i - p \in 1..m
    BY <1>5, <1>10
  <2> QED
    BY <1>1, <1>10, <2>2, <2>4, <2>5
<1>12. ASSUME NEW j \in 1..e, world.wire[j].data # <<>> PROVE given'[Place(j)] = r(j)
  <2>1. CASE j \in 1..k
    <3>1. given[Place(j)] = r(j) /\ Place(j) \in 1..p
      BY <1>10, <1>12, <2>1
    <3>2. Place(j) \in 1..p + m /\ Place(j) <= p
      BY <1>5, <1>10, <3>1
    <3> QED
      BY <1>11, <3>1, <3>2
  <2>2. CASE j \notin 1..k
    <3> DEFINE i == j - k
    <3>1. i \in 1..m /\ i \in 0..m /\ k + i = j
      BY <1>5, <1>9, <2>2
    <3> HIDE DEF i
    <3>2. Place(j) = p + i /\ item(i) = r(j)
      BY <1>6, <1>8, <3>1 DEF p
    <3> DEFINE q == p + i
    <3>3. q \in 1..p + m /\ ~(q <= p) /\ q - p = i
      BY <1>5, <1>10, <3>1
    <3>4. Place(j) = q
      BY <3>2
    <3> HIDE DEF q
    <3>5. given'[q] = item(i)
      BY <1>11, <3>3
    <3> QED
      BY <3>2, <3>4, <3>5
  <2> QED
    BY <2>1, <2>2
<1>13. GivenUpTo(e)'
  <2>1. GivenUpTo(e)' <=> /\ Len(given') = Place(e)
                          /\ \A j \in 1..e : world.wire[j].data # <<>> => given'[Place(j)] = r(j)
    BY <1>1 DEF GivenUpTo, Place, r
  <2> QED
    BY <1>9, <1>11, <1>12, <2>1
<1>14. Between(e)'
  BY <1>1, <1>2, <1>4, <1>7, <1>9 DEF Between, Empty
<1>15. Parsed(e)'
  BY <1>1, <1>9, <1>13, <1>14 DEF Parsed
<1> QED
  BY <1>9, <1>15

\* The invariant of the whole is kept by every step.
LEMMA NextFInv == FInv /\ [Next]_vars => FInv'
<1> SUFFICES ASSUME FInv, [Next]_vars PROVE FInv'
  OBVIOUS
<1>1. TypeOK /\ IInv /\ (Calm => Ruled) /\ (Steady => \E k \in 0..Len(world.wire) : Parsed(k))
  BY DEF FInv
<1>2. world' = world
  BY DEF Next, vars, state, Step, Arrive, Break, Readable, AwaitingDollar, AwaitingChannel, AwaitingSize1,
     AwaitingSize2, NothingToRead, ReadFails, SkipByte, PacketDone, ReadPacket, HandlerReturns, LoopEnds,
     ClientReads, ClientReadFails, Play, Pause, Close, SendFails
<1>3. TypeOK' /\ IInv'
  BY <1>1, NextTypes, NextIInv
<1>4. Calm' => Ruled'
  BY <1>1, <1>2, NextRuled, SameWorld
<1>5. ASSUME Steady' PROVE \E k \in 0..Len(world.wire) : Parsed(k)'
  <2>1. Steady
    BY <1>1, <1>5, SteadyBefore
  <2>2. Calm /\ Ruled /\ Attached /\ Attached'
    BY <1>1, <1>5, <2>1 DEF Steady, Attached
  <2>3. PICK k \in 0..Len(world.wire) : Parsed(k)
    BY <1>1, <2>1
  <2>4. (Parsed(k)' => k \in 0..Len(world.wire)) /\ (Parsed(k + 1)' => k + 1 \in 0..Len(world.wire))
    BY <1>2 DEF Parsed
  <2>5. CASE AwaitingDollar \/ AwaitingChannel \/ AwaitingSize1 \/ AwaitingSize2
    <3>1. Parsed(k)' \/ Parsed(k + 1)'
      BY <1>1, <2>2, <2>3, <2>5, AwaitingDollarParsed, HeaderParsed, AwaitingSize2Parsed
    <3> QED
      BY <2>4, <3>1
  <2>6. CASE PacketDone \/ ReadPacket
    <3>1. Parsed(k)' \/ Parsed(k + 1)'
      BY <1>1, <2>2, <2>3, <2>6, PacketDoneParsed, ReadPacketParsed
    <3> QED
      BY <2>4, <3>1
  <2>7. CASE ClientReads
    BY <1>1, <2>2, <2>3, <2>7, ClientReadsParsed
  <2>8. CASE ~(AwaitingDollar \/ AwaitingChannel \/ AwaitingSize1 \/ AwaitingSize2)
             /\ ~(PacketDone \/ ReadPacket \/ ClientReads)
    BY <1>1, <2>2, <2>3, <2>8, QuietParsed
  <2> QED
    BY <2>5, <2>6, <2>7, <2>8
<1> QED
  BY <1>2, <1>3, <1>4, <1>5 DEF FInv

\* The initial states.
LEMMA InitFInv == Init => FInv
<1> SUFFICES ASSUME Init PROVE FInv
  OBVIOUS
<1>1. TypeOK /\ IInv
  BY InitTypes, InitIInv
<1>2. /\ \A k \in Units : k - 1 \in 0..Len(world.wire) /\ End(k - 1) \in Nat
      /\ End(0) = 0 /\ Place(0) = 0 /\ Len(world.wire) \in Nat
  BY <1>1, Layout, PlacesCount DEF TypeOK
<1>3. /\ arrived = 0 /\ taken = 0 /\ ~broken /\ ~detached /\ ~exists /\ reader # "descriptor" /\ given = <<>>
      /\ open = {} /\ fSubChannelHashTable = {} /\ fTCPStreams = {} /\ fReadHandlerProc = {}
      /\ fTCPReadingState = "AWAITING_DOLLAR" /\ fInBuf = [c \in Channels |-> <<>>]
  BY DEF Init
<1>4. \A k \in Units : ~(End(k - 1) < arrived)
  BY <1>2, <1>3
<1>5. Ruled
  BY <1>3, <1>4 DEF Ruled
<1>6. GivenUpTo(0)
  BY <1>2, <1>3 DEF GivenUpTo
<1>7. Between(0)
  BY <1>2, <1>3 DEF Between, Empty
<1>8. 0 \in 0..Len(world.wire) /\ Parsed(0)
  BY <1>2, <1>6, <1>7 DEF Parsed
<1> QED
  BY <1>1, <1>5, <1>8 DEF FInv

\* Each interface is given the packets of its channel, whole and in order, and RTSPClient
\* the bytes between them (tcpReadHandler1(), handleRead(), incomingDataHandler()): for any
\* subsessions, whatever units the server sends, in whatever pieces they arrive, and
\* wherever the connection breaks or stalls, as long as nobody stops and the interfaces are there.
THEOREM BytesFramed == Spec => []Framed
<1>1. FInv => Framed
  BY DEF FInv, Framed, Parsed
<1> QED
  BY <1>1, InitFInv, NextFInv, PTL DEF Spec

-----------------------------------------------------------------------------
(***************************************************************************)
(* What RTSPClient makes of the bytes that it is given: the responses of   *)
(* ResponseBuffer.                                                         *)
(***************************************************************************)

\* Sequences of requests: in the order of their numbers; what is in one; what is left
\* when the first ones are taken.
Sorted(s) == \A i, j \in 1..Len(s) : i < j => s[i] < s[j]
Among(r, s) == \E i \in 1..Len(s) : s[i] = r
Rest(s, d) == SubSeq(s, d + 1, Len(s))

Queue == fRequestsAwaitingResponse
IsResponse(k) == msg(k).kind # "request"

\* The server does not answer before it is asked.
AskedBefore == \A k \in Messages : MessageEnd(k - 1) < received => msg(k).cseq <= sent

\* The requests that wait stand in the order of their numbers, and have not been told
\* anything, no more than those that are to come; without pipelining there is but one.
Waiting ==
  /\ Sorted(Queue)
  /\ \A r \in Ids : r > sent \/ Among(r, Queue) => answers[r] = NotTold
  /\ ~exchange.pipelined => Len(Queue) <= 1

\* Within the loop, what is kept is all or nothing.
Kept == looping => numExtraBytesAfterResponse \in {0, fResponseBytesAlreadySeen}

\* A response that does not begin before the buffer finds its request.
Expected ==
  exchange.pipelined /\ Tame =>
    \A k \in Messages : IsResponse(k) /\ front <= MessageEnd(k - 1) /\ msg(k).cseq <= sent
                          => Among(msg(k).cseq, Queue)

\* What a request may be told: of success with its own response only.
Own(r, a) ==
  \A k \in Messages :
    a.msg = k => msg(k).kind = "ok" /\ msg(k).cseq = r /\ a.body = HeaderEnd(k) + 1..MessageEnd(k)
Fitting(r, a) == a.msg \in {-1, 0} \cup Messages /\ (Tame => Own(r, a))
Told == DOMAIN answers = Ids /\ \A r \in Ids : Fitting(r, answers[r])

RInv ==
  /\ exchange \in Exchanges /\ ResponseTypes
  /\ AskedBefore /\ Waiting /\ Kept /\ Expected /\ Told /\ InStep

-----------------------------------------------------------------------------
(***************************************************************************)
(* Messages.                                                               *)
(***************************************************************************)

\* What a message is.
LEMMA MessageTypes ==
  ASSUME exchange \in Exchanges
  PROVE  /\ Len(exchange.messages) \in Nat /\ Messages = 1..Len(exchange.messages)
         /\ exchange.pipelined \in BOOLEAN
         /\ \A k \in Messages :
              /\ msg(k) \in [kind : Kinds, cseq : 0..Requests, headEnd : Nat, end : Nat]
              /\ msg(k).kind \in Kinds /\ msg(k).cseq \in 0..Requests
              /\ msg(k).headEnd \in Nat /\ msg(k).end \in Nat
<1> DEFINE ms == exchange.messages
           M == [kind : Kinds, cseq : 0..Requests, headEnd : Nat, end : Nat]
<1>1. exchange.pipelined \in BOOLEAN /\ ms \in Seq(M)
  BY ExchangesAssumption
<1> HIDE DEF ms
<1>2. Len(ms) \in Nat /\ DOMAIN ms = 1..Len(ms) /\ \A k \in 1..Len(ms) : ms[k] \in M
  BY <1>1, LenProperties, ElementOfSeq
<1>3. \A m \in M : m.kind \in Kinds /\ m.cseq \in 0..Requests /\ m.headEnd \in Nat /\ m.end \in Nat
  OBVIOUS
<1> QED
  BY <1>1, <1>2, <1>3 DEF Messages, msg, ms

\* A message, with its header, is behind those before it.
LEMMA MessagesApart ==
  ASSUME exchange \in Exchanges
  PROVE  /\ \A k \in 0..Len(exchange.messages) : MessageEnd(k) \in Nat
         /\ \A k \in Messages : HeaderEnd(k) \in Nat /\ HeaderEnd(k) <= MessageEnd(k)
         /\ \A k \in Messages, j \in 0..Len(exchange.messages) :
              j < k => MessageEnd(j) < HeaderEnd(k) /\ MessageEnd(j) < MessageEnd(k)
<1>1. \A k \in Messages : msg(k).headEnd \in 1..msg(k).end /\ \A j \in 1..k - 1 : msg(j).end < msg(k).headEnd
  BY ExchangesAssumption DEF Messages, msg
<1>2. /\ Len(exchange.messages) \in Nat /\ Messages = 1..Len(exchange.messages)
      /\ \A k \in Messages : msg(k).headEnd \in Nat /\ msg(k).end \in Nat
  BY MessageTypes
<1>3. ASSUME NEW k \in 0..Len(exchange.messages) PROVE MessageEnd(k) \in Nat
  BY <1>2 DEF MessageEnd
<1>4. ASSUME NEW k \in Messages PROVE HeaderEnd(k) \in Nat /\ HeaderEnd(k) <= MessageEnd(k)
  BY <1>1, <1>2 DEF MessageEnd, HeaderEnd
<1>5. ASSUME NEW k \in Messages, NEW j \in 0..Len(exchange.messages), j < k
      PROVE  MessageEnd(j) < HeaderEnd(k)
  <2>1. CASE j = 0
    BY <1>1, <1>2, <2>1 DEF MessageEnd, HeaderEnd
  <2>2. CASE j # 0
    <3>1. j \in 1..k - 1
      BY <1>2, <1>5, <2>2
    <3> QED
      BY <1>1, <2>2, <3>1 DEF MessageEnd, HeaderEnd
  <2> QED
    BY <2>1, <2>2
<1>6. ASSUME NEW k \in Messages, NEW j \in 0..Len(exchange.messages), j < k
      PROVE  MessageEnd(j) < MessageEnd(k)
  <2>1. k \in 0..Len(exchange.messages)
    BY <1>2
  <2> QED
    BY <1>3, <1>4, <1>5, <1>6, <2>1
<1> QED
  BY <1>3, <1>4, <1>5, <1>6

\* What ends before, comes before.
LEMMA EndsAscend ==
  ASSUME exchange \in Exchanges,
         NEW i \in 0..Len(exchange.messages), NEW j \in 0..Len(exchange.messages),
         MessageEnd(i) < MessageEnd(j)
  PROVE  i < j
<1>1. /\ MessageEnd(i) \in Nat /\ MessageEnd(j) \in Nat
      /\ i \in Messages => \A o \in 0..Len(exchange.messages) : o < i => MessageEnd(o) < MessageEnd(i)
  BY MessagesApart
<1>2. i \in Nat /\ j \in Nat /\ (i > 0 => i \in Messages)
  BY MessageTypes
<1>3. SUFFICES ASSUME j <= i PROVE FALSE
  BY <1>2
<1>4. CASE i = j
  BY <1>1, <1>4
<1>5. CASE i # j
  <2>1. j < i /\ i \in Messages
    BY <1>2, <1>3, <1>5
  <2>2. MessageEnd(j) < MessageEnd(i)
    BY <1>1, <2>1
  <2> QED
    BY <1>1, <2>2
<1> QED
  BY <1>4, <1>5

\* Responses are in the order of their requests.
LEMMA AnswersAscend ==
  ASSUME exchange \in Exchanges, NEW k \in Messages, IsResponse(k)
  PROVE  /\ msg(k).cseq > 0
         /\ \A j \in Messages : IsResponse(j) /\ j < k => msg(j).cseq < msg(k).cseq
         /\ \A j \in Messages : IsResponse(j) /\ k < j => msg(k).cseq < msg(j).cseq
<1>1. \A i \in Messages : IsResponse(i) =>
        /\ msg(i).cseq > 0
        /\ \A j \in 1..i - 1 : IsResponse(j) => msg(j).cseq < msg(i).cseq
  BY ExchangesAssumption DEF Messages, msg, IsResponse
<1>2. Messages = 1..Len(exchange.messages) /\ Len(exchange.messages) \in Nat
  BY MessageTypes
<1>3. \A i, j \in Messages : j < i => j \in 1..i - 1
  BY <1>2
<1> QED
  BY <1>1, <1>3

-----------------------------------------------------------------------------
(***************************************************************************)
(* The queue.                                                              *)
(***************************************************************************)

\* Rest() is a sequence, without the first ones.
LEMMA RestProperties ==
  ASSUME NEW S, NEW s \in Seq(S), NEW d \in 0..Len(s)
  PROVE  /\ Rest(s, d) \in Seq(S) /\ Len(Rest(s, d)) = Len(s) - d
         /\ \A i \in 1..Len(s) - d : Rest(s, d)[i] = s[d + i]
<1> DEFINE n == Len(s)
           t == SubSeq(s, d + 1, n)
<1>1. n \in Nat /\ \A i \in 1..n : s[i] \in S
  BY LenProperties, ElementOfSeq
<1>2. /\ t \in Seq(S) /\ Len(t) = IF d + 1 <= n THEN n - (d + 1) + 1 ELSE 0
      /\ \A i \in 1..n - (d + 1) + 1 : t[i] = s[d + 1 + i - 1]
  <2>1. d + 1 \in Int /\ n \in Int /\ \A i \in d + 1..n : s[i] \in S
    BY <1>1
  <2> HIDE DEF n
  <2> QED
    BY <2>1, SubSeqProperties
<1>3. d \in 0..n
  OBVIOUS
<1>4. Rest(s, d) = t
  BY DEF Rest
<1> HIDE DEF n, t
<1>5. n - (d + 1) + 1 = n - d /\ Len(t) = n - d
  BY <1>1, <1>2, <1>3
<1>6. \A i \in 1..n - d : d + 1 + i - 1 = d + i
  BY <1>1, <1>3
<1>7. \A i \in 1..n - d : t[i] = s[d + i]
  BY <1>2, <1>5, <1>6
<1> QED
  BY <1>2, <1>4, <1>5, <1>7 DEF n

\* What is left of a sorted sequence is sorted, and has no more what is before it.
LEMMA RestSorted ==
  ASSUME NEW S, S \subseteq Nat, NEW s \in Seq(S), Sorted(s), NEW d \in 0..Len(s)
  PROVE  /\ Sorted(Rest(s, d))
         /\ \A r : Among(r, Rest(s, d)) <=> \E p \in d + 1..Len(s) : s[p] = r
         /\ d > 0 => ~Among(s[d], Rest(s, d))
<1> DEFINE t == Rest(s, d)
           n == Len(s)
<1>1. n \in Nat /\ d \in 0..n /\ \A i \in 1..n : s[i] \in Nat
  BY LenProperties, ElementOfSeq
<1>2. Len(t) = n - d /\ \A i \in 1..n - d : t[i] = s[d + i]
  BY RestProperties
<1>3. \A i, j \in 1..n : i < j => s[i] < s[j]
  BY DEF Sorted
<1> HIDE DEF t, n
<1>4. Sorted(t)
  <2>1. ASSUME NEW i \in 1..n - d, NEW j \in 1..n - d, i < j PROVE t[i] < t[j]
    <3>1. d + i \in 1..n /\ d + j \in 1..n /\ d + i < d + j
      BY <1>1, <2>1
    <3> QED
      BY <1>2, <1>3, <3>1
  <2> QED
    BY <1>2, <2>1 DEF Sorted
<1>5. ASSUME NEW r PROVE Among(r, t) <=> \E p \in d + 1..n : s[p] = r
  <2>1. ASSUME NEW i \in 1..n - d, t[i] = r PROVE \E p \in d + 1..n : s[p] = r
    <3>1. d + i \in d + 1..n
      BY <1>1
    <3> QED
      BY <1>2, <2>1, <3>1
  <2>2. ASSUME NEW p \in d + 1..n, s[p] = r PROVE \E i \in 1..n - d : t[i] = r
    <3>1. p - d \in 1..n - d /\ d + (p - d) = p
      BY <1>1
    <3>2. t[p - d] = s[d + (p - d)]
      BY <1>2, <3>1
    <3> QED
      BY <2>2, <3>1, <3>2
  <2> QED
    BY <1>2, <2>1, <2>2 DEF Among
<1>6. ASSUME d > 0, NEW p \in d + 1..n PROVE s[p] # s[d]
  <2>1. d \in 1..n /\ p \in 1..n /\ d < p
    BY <1>1, <1>6
  <2>2. s[d] < s[p] /\ s[d] \in Nat /\ s[p] \in Nat
    BY <1>1, <1>3, <2>1
  <2> QED
    BY <2>2
<1>7. d > 0 => ~Among(s[d], t)
  BY <1>5, <1>6
<1> QED
  BY <1>4, <1>5, <1>7 DEF t, n

\* Overtaken() counts requests: there is a first one whose CSeq is not below `c', if
\* there is any.
LEMMA OvertakenCounts ==
  ASSUME NEW S, S \subseteq Nat, Queue \in Seq(S), NEW c \in Nat
  PROVE  /\ Overtaken(c) \in 0..Len(Queue)
         /\ \A i \in 1..Overtaken(c) : Queue[i] < c
         /\ Overtaken(c) = Len(Queue) \/ Queue[Overtaken(c) + 1] >= c
<1> DEFINE q == Queue
           n == Len(q)
           later == {i \in 1..n : q[i] >= c}
           Counts(k) == (\A i \in 1..k : q[i] < c) /\ (k = n \/ q[k + 1] >= c)
<1>1. n \in Nat /\ \A i \in 1..n : q[i] \in Nat
  BY LenProperties, ElementOfSeq
<1>2. \E k \in 0..n : Counts(k)
  <2> HIDE DEF q, n
  <2>1. CASE later = {}
    <3>1. n \in 0..n /\ Counts(n)
      BY <1>1, <2>1
    <3> QED
      BY <3>1
  <2>2. CASE later # {}
    <3>1. later \subseteq Nat
      BY <1>1
    <3>2. PICK x \in later : \A y \in later : ~(<<y, x>> \in OpToRel(<, Nat))
      BY <2>2, <3>1, NatLessThanWellFounded, WFMin
    <3>3. \A y \in later : ~(y < x)
      BY <3>1, <3>2 DEF OpToRel
    <3>4. x \in 1..n /\ x - 1 \in 0..n /\ x - 1 + 1 = x
      BY <1>1, <3>1
    <3>5. ASSUME NEW i \in 1..x - 1 PROVE q[i] < c
      <4>1. i \in 1..n /\ i < x
        BY <1>1, <3>4
      <4>2. ~(q[i] >= c)
        BY <3>3, <4>1
      <4> QED
        BY <1>1, <4>1, <4>2
    <3>6. Counts(x - 1)
      BY <3>4, <3>5
    <3> QED
      BY <3>4, <3>6
  <2> QED
    BY <2>1, <2>2
<1>3. Overtaken(c) = CHOOSE k \in 0..n : Counts(k)
  BY DEF Overtaken, Queue
<1> HIDE DEF q, n, Counts
<1>4. Overtaken(c) \in 0..n /\ Counts(Overtaken(c))
  BY <1>2, <1>3
<1> QED
  BY <1>4 DEF Counts, q, n

\* Match() takes requests from the head of the queue, the last of which is the one
\* that it finds; if the one with the number `c' waits, it is found.
Cuts(m, c, d) ==
  /\ m.queue = Rest(Queue, d)
  /\ (m.found = 0 /\ d = Len(Queue)) \/ (d > 0 /\ m.found = Queue[d])
  /\ Among(c, Queue) \/ (Len(Queue) <= 1 /\ m.found # 0) => d > 0 /\ m.found = c /\ Queue[d] = c

\* Whatever the CSeq of the response, Match() does so.
LEMMA MatchCuts ==
  ASSUME NEW S, S \subseteq Nat \ {0}, Queue \in Seq(S), Sorted(Queue), NEW c \in Nat
  PROVE  \E d \in 0..Len(Queue) : Cuts(Match(c), c, d)
<1> DEFINE q == Queue
           n == Len(q)
           o == Overtaken(c)
           rest == SubSeq(q, o + 1, n)
           left == IF rest = <<>> \/ Head(rest) = c THEN rest ELSE Tail(rest)
           m == Match(c)
           Waits == \E i \in 1..n : q[i] = c
<1>1. n \in Nat /\ q \in Seq(S) /\ \A i \in 1..n : q[i] \in Nat /\ q[i] # 0 /\ q[i] \in S
  BY LenProperties, ElementOfSeq
<1>2. o \in 0..n /\ (\A i \in 1..o : q[i] < c) /\ (o = n \/ q[o + 1] >= c)
  BY OvertakenCounts
<1>3. \A i, j \in 1..n : i < j => q[i] < q[j]
  BY DEF Sorted
<1>4. m.found = (IF left = <<>> THEN 0 ELSE Head(left)) /\ m.queue = (IF left = <<>> THEN <<>> ELSE Tail(left))
  BY DEF Match, Queue
<1>5. \A d \in 0..n : Rest(Queue, d) = SubSeq(q, d + 1, n)
  BY DEF Rest
<1>6. Among(c, Queue) <=> Waits
  BY DEF Among
<1>7. Len(q) = n /\ q = Queue
  OBVIOUS
<1>8. rest = SubSeq(q, o + 1, n)
  OBVIOUS
<1>9. left = IF rest = <<>> \/ Head(rest) = c THEN rest ELSE Tail(rest)
  OBVIOUS
<1> HIDE DEF q, n, o, m, rest, left
<1>10. ASSUME NEW d \in 1..n
       PROVE  LET t == SubSeq(q, d, n)
              IN t # <<>> /\ Head(t) = q[d] /\ Tail(t) = SubSeq(q, d + 1, n)
  <2> DEFINE t == SubSeq(q, d, n)
  <2>1. d \in 1..Len(q) /\ n \in d..Len(q) /\ d \in Int /\ n \in Int /\ d <= n /\ \A i \in d..n : q[i] \in S
    BY <1>1, <1>7
  <2>2. Head(t) = q[d] /\ Tail(t) = SubSeq(q, d + 1, n)
    BY <1>1, <2>1, HeadTailOfSubSeq
  <2>3. Len(t) = n - d + 1
    BY <2>1, SubSeqProperties
  <2>4. n - d + 1 # 0
    BY <1>1
  <2> HIDE DEF t
  <2>5. t # <<>>
    BY <2>3, <2>4
  <2> QED
    BY <2>2, <2>5 DEF t
<1>11. SubSeq(q, n + 1, n) = <<>>
  <2>1. n + 1 \in Int /\ n \in Int /\ n < n + 1
    BY <1>1
  <2> QED
    BY <2>1, SubSeqEmpty
<1>12. ASSUME left = <<>>, ~Waits, n <= 1 => m.found = 0
       PROVE  \E d \in 0..Len(Queue) : Cuts(m, c, d)
  <2>1. m.found = 0 /\ m.queue = <<>> /\ n \in 0..n
    BY <1>1, <1>4, <1>12
  <2>2. m.queue = Rest(Queue, n)
    BY <1>5, <1>11, <2>1
  <2>3. ~Among(c, Queue)
    BY <1>6, <1>12
  <2> HIDE DEF Waits
  <2>4. Cuts(m, c, n)
    BY <1>7, <2>1, <2>2, <2>3 DEF Cuts
  <2> QED
    BY <1>7, <2>1, <2>4
<1>13. ASSUME NEW d \in 1..n, left = SubSeq(q, d, n), Waits \/ n <= 1 => q[d] = c
       PROVE  \E e \in 0..Len(Queue) : Cuts(m, c, e)
  <2>1. m.found = q[d] /\ m.queue = SubSeq(q, d + 1, n)
    BY <1>4, <1>10, <1>13
  <2>2. d \in 0..n /\ d > 0
    BY <1>1
  <2>3. m.queue = Rest(Queue, d)
    BY <1>5, <2>1, <2>2
  <2>4. Among(c, Queue) \/ Len(Queue) <= 1 => q[d] = c
    BY <1>6, <1>7, <1>13
  <2> HIDE DEF Waits
  <2>5. Cuts(m, c, d)
    BY <1>7, <2>1, <2>2, <2>3, <2>4 DEF Cuts
  <2> QED
    BY <1>7, <2>2, <2>5
<1>14. CASE o = n
  <2>1. left = <<>>
    BY <1>8, <1>9, <1>11, <1>14
  <2>2. m.found = 0
    BY <1>4, <2>1
  <2>3. ~Waits
    BY <1>1, <1>2, <1>14
  <2> QED
    BY <1>12, <2>1, <2>2, <2>3 DEF m
<1>15. ASSUME o + 1 \in 1..n, q[o + 1] = c PROVE \E d \in 0..Len(Queue) : Cuts(m, c, d)
  <2>1. rest # <<>> /\ Head(rest) = c
    BY <1>8, <1>10, <1>15
  <2>2. left = SubSeq(q, o + 1, n)
    BY <1>8, <1>9, <2>1
  <2> QED
    BY <1>13, <1>15, <2>2
<1>16. ASSUME o + 1 \in 1..n, q[o + 1] # c PROVE \E d \in 0..Len(Queue) : Cuts(m, c, d)
  <2>1. rest # <<>> /\ Head(rest) # c /\ Tail(rest) = SubSeq(q, o + 1 + 1, n)
    BY <1>8, <1>10, <1>16
  <2>2. left = SubSeq(q, o + 1 + 1, n)
    BY <1>9, <2>1
  <2>3. ~Waits
    <3>1. q[o + 1] > c
      BY <1>1, <1>2, <1>16
    <3>2. ASSUME NEW i \in 1..n, q[i] = c PROVE FALSE
      <4>1. CASE i <= o
        BY <1>1, <1>2, <3>2, <4>1
      <4>2. CASE i = o + 1
        BY <1>16, <3>2, <4>2
      <4>3. CASE i > o + 1
        <5>1. q[o + 1] < q[i]
          BY <1>3, <1>16, <4>3
        <5> QED
          BY <1>1, <1>16, <3>1, <3>2, <5>1
      <4> QED
        BY <1>2, <4>1, <4>2, <4>3
    <3> QED
      BY <3>2
  <2>4. CASE o + 1 = n
    <3>1. left = <<>>
      BY <1>11, <2>2, <2>4
    <3>2. m.found = 0
      BY <1>4, <3>1
    <3> QED
      BY <1>12, <2>3, <3>1, <3>2
  <2>5. CASE o + 1 # n
    <3>1. o + 1 + 1 \in 1..n /\ ~(n <= 1)
      BY <1>1, <1>2, <1>16, <2>5
    <3> QED
      BY <1>13, <2>2, <2>3, <3>1
  <2> QED
    BY <2>4, <2>5
<1> QED
  <2>1. o = n \/ o + 1 \in 1..n
    BY <1>1, <1>2
  <2> QED
    BY <1>14, <1>15, <1>16, <2>1 DEF m

-----------------------------------------------------------------------------
(***************************************************************************)
(* Steps that take something from the queue, and steps that do not.        *)
(***************************************************************************)

\* The numbers and the queue, as arithmetic needs them.
LEMMA Numbers ==
  ASSUME exchange \in Exchanges, ResponseTypes
  PROVE  /\ Size \in Nat \ {0} /\ Requests \in Nat /\ sent \in Nat /\ sent <= Requests
         /\ received \in Nat /\ received <= MessageEnd(Len(exchange.messages))
         /\ read \in Nat /\ read <= received
         /\ fResponseBytesAlreadySeen \in Nat /\ fResponseBytesAlreadySeen <= read
         /\ fResponseBytesAlreadySeen < Size
         /\ numExtraBytesAfterResponse \in Nat /\ numExtraBytesAfterResponse <= read
         /\ front \in Nat /\ front = read - fResponseBytesAlreadySeen
         /\ Queue \in Seq(1..sent) /\ 1..sent \subseteq Nat \ {0} /\ 1..sent \subseteq Ids
         /\ Len(Queue) \in Nat /\ \A i \in 1..Len(Queue) : Queue[i] \in 1..sent
<1>1. Size \in Nat \ {0} /\ Requests \in Nat
  BY SizeAssumption
<1>2. MessageEnd(Len(exchange.messages)) \in Nat
  <2>1. Len(exchange.messages) \in 0..Len(exchange.messages)
    BY MessageTypes
  <2> QED
    BY <2>1, MessagesApart
<1>3. sent \in Nat /\ sent <= Requests
  BY <1>1 DEF ResponseTypes
<1>4. /\ received \in Nat /\ received <= MessageEnd(Len(exchange.messages))
      /\ read \in Nat /\ read <= received
  BY <1>2 DEF ResponseTypes
<1>5. /\ fResponseBytesAlreadySeen \in Nat /\ fResponseBytesAlreadySeen <= read
      /\ fResponseBytesAlreadySeen < Size
  BY <1>1, <1>4 DEF ResponseTypes, Lesser
<1>6. numExtraBytesAfterResponse \in Nat /\ numExtraBytesAfterResponse <= read
  BY <1>4 DEF ResponseTypes
<1>7. front \in Nat /\ front = read - fResponseBytesAlreadySeen
  BY <1>4, <1>5 DEF front
<1>8. Queue \in Seq(1..sent)
  BY DEF ResponseTypes, Queue
<1>9. 1..sent \subseteq Nat \ {0} /\ 1..sent \subseteq Ids
  BY <1>1, <1>3 DEF Ids
<1>10. Len(Queue) \in Nat /\ \A i \in 1..Len(Queue) : Queue[i] \in 1..sent
  BY <1>8, LenProperties, ElementOfSeq
<1> QED
  BY <1>1, <1>3, <1>4, <1>5, <1>6, <1>7, <1>8, <1>9, <1>10

\* What was sent does not change.
LEMMA SameExchange ==
  ASSUME exchange' = exchange
  PROVE  /\ Messages' = Messages /\ Tame' = Tame
         /\ \A kinds : OnlyOf(kinds)' = OnlyOf(kinds)
         /\ \A k : msg(k)' = msg(k) /\ MessageEnd(k)' = MessageEnd(k) /\ HeaderEnd(k)' = HeaderEnd(k)
         /\ \A r, a : Own(r, a)' = Own(r, a) /\ Fitting(r, a)' = Fitting(r, a)
<1>1. /\ Messages' = Messages
      /\ \A k : msg(k)' = msg(k) /\ MessageEnd(k)' = MessageEnd(k) /\ HeaderEnd(k)' = HeaderEnd(k)
  BY DEF Messages, msg, MessageEnd, HeaderEnd
<1>2. Tame' = Tame
  BY <1>1 DEF Tame
<1>3. \A kinds : OnlyOf(kinds)' = OnlyOf(kinds)
  BY <1>1 DEF OnlyOf, Fits, Length
<1>4. \A r, a : Own(r, a)' = Own(r, a)
  BY <1>1 DEF Own
<1> QED
  BY <1>1, <1>2, <1>3, <1>4 DEF Fitting

\* Requests are taken from the head of the queue, and the last one of them may be told.
LEMMA TakesRequests ==
  ASSUME RInv, NEW d \in 0..Len(Queue), Queue' = Rest(Queue, d), UNCHANGED <<exchange, sent>>,
         \/ answers' = answers
         \/ d > 0 /\ \E a : Fitting(Queue[d], a) /\ answers' = [answers EXCEPT ![Queue[d]] = a]
  PROVE  Queue' \in Seq(1..sent') /\ Waiting' /\ Told'
<1> DEFINE q == Queue
           t == Rest(q, d)
           n == Len(q)
<1>1. /\ q \in Seq(1..sent) /\ 1..sent \subseteq Nat \ {0} /\ 1..sent \subseteq Nat /\ 1..sent \subseteq Ids
      /\ n \in Nat /\ \A i \in 1..n : q[i] \in 1..sent
  BY Numbers DEF RInv
<1>2. Sorted(q) /\ Told /\ (~exchange.pipelined => n <= 1)
  BY DEF RInv, Waiting
<1>3. \A r \in Ids : r > sent \/ Among(r, q) => answers[r] = NotTold
  BY DEF RInv, Waiting
<1>4. t \in Seq(1..sent) /\ Len(t) = n - d
  BY <1>1, RestProperties
<1>5. /\ Sorted(t) /\ \A r : Among(r, t) <=> \E p \in d + 1..n : q[p] = r
      /\ d > 0 => ~Among(q[d], t)
  BY <1>1, <1>2, RestSorted
<1>6. \A r : Among(r, t) => Among(r, q)
  <2>1. \A p \in d + 1..n : p \in 1..n
    BY <1>1
  <2> QED
    BY <1>5, <2>1 DEF Among
<1>7. Queue' = t /\ d \in 0..n
  OBVIOUS
<1> HIDE DEF q, t, n
<1>8. ASSUME d > 0 PROVE q[d] \in 1..sent /\ q[d] \in Ids /\ q[d] <= sent
  <2>1. d \in 1..n
    BY <1>1, <1>7, <1>8
  <2>2. sent \in Nat
    BY Numbers DEF RInv
  <2> QED
    BY <1>1, <2>1, <2>2
<1>9. ASSUME NEW r \in Ids, r > sent \/ Among(r, t) PROVE answers'[r] = NotTold
  <2>1. answers[r] = NotTold
    BY <1>3, <1>6, <1>9
  <2>2. sent \in Nat /\ (d > 0 => r # q[d])
    BY <1>5, <1>8, <1>9, Numbers DEF RInv, Ids
  <2>3. CASE answers' = answers
    BY <2>1, <2>3
  <2>4. ASSUME d > 0, NEW a, answers' = [answers EXCEPT ![q[d]] = a] PROVE answers'[r] = NotTold
    BY <2>1, <2>2, <2>4
  <2> QED
    BY <2>3, <2>4 DEF q
<1>10. Waiting'
  <2>1. Sorted(t) /\ (~exchange.pipelined => Len(t) <= 1)
    BY <1>1, <1>2, <1>4, <1>5, <1>7
  <2> QED
    BY <1>7, <1>9, <2>1 DEF Waiting
<1>11. Told'
  <2>1. DOMAIN answers = Ids /\ \A r \in Ids : Fitting(r, answers[r])
    BY <1>2 DEF Told
  <2>2. CASE answers' = answers
    BY <2>1, <2>2, SameExchange DEF Told
  <2>3. ASSUME d > 0, NEW a, Fitting(q[d], a), answers' = [answers EXCEPT ![q[d]] = a] PROVE Told'
    <3>1. DOMAIN answers' = Ids /\ \A r \in Ids : Fitting(r, answers'[r])
      BY <1>8, <2>1, <2>3
    <3> QED
      BY <3>1, SameExchange DEF Told
  <2> QED
    BY <2>2, <2>3 DEF q
<1> QED
  BY <1>4, <1>7, <1>10, <1>11

\* Steps by which the buffer is not left behind, and nobody is told anything.
LEMMA QuietRInv ==
  ASSUME RInv, UNCHANGED <<exchange, sent, fRequestsAwaitingResponse, answers>>,
         ResponseTypes', AskedBefore', Kept', front' >= front,
         OnlyOf({"ok", "bad"}) => front' = front
  PROVE  RInv'
<1>1. Queue' = Queue /\ Waiting' /\ Told'
  BY SameExchange DEF RInv, Waiting, Told, Queue
<1>2. Expected'
  <2>1. ASSUME exchange.pipelined, Tame, NEW k \in Messages, IsResponse(k), front' <= MessageEnd(k - 1),
               msg(k).cseq <= sent
        PROVE  Among(msg(k).cseq, Queue)
    <3>1. MessageEnd(k - 1) \in Nat /\ front \in Nat /\ front' \in Nat
      <4>1. k - 1 \in 0..Len(exchange.messages)
        BY MessageTypes DEF RInv
      <4>2. front' \in Nat
        <5>1. (exchange \in Exchanges)'
          BY DEF RInv
        <5>2. front' \in Int
          BY DEF ResponseTypes, front
        <5> QED
          BY <5>2, Numbers DEF RInv
      <4> QED
        BY <4>1, <4>2, MessagesApart, Numbers DEF RInv
    <3>2. front <= MessageEnd(k - 1)
      BY <2>1, <3>1
    <3> QED
      BY <2>1, <3>2 DEF RInv, Expected
  <2> QED
    BY <1>1, <2>1, SameExchange DEF Expected, IsResponse
<1>3. InStep'
  BY <1>1, SameExchange DEF RInv, InStep, Queue
<1> QED
  BY <1>1, <1>2, <1>3 DEF RInv

-----------------------------------------------------------------------------
(***************************************************************************)
(* A response at the front of the buffer.                                  *)
(***************************************************************************)

\* Its header is complete, and so its request has been sent.
LEMMA ResponseBegins ==
  ASSUME RInv, NEW k \in Messages, Response(k)
  PROVE  /\ IsResponse(k) /\ front = MessageEnd(k - 1)
         /\ front < HeaderEnd(k) /\ HeaderEnd(k) <= read
         /\ msg(k).cseq \in Nat /\ msg(k).cseq <= sent
<1>1. IsResponse(k) /\ front = MessageEnd(k - 1)
  BY DEF Response, Begins, IsResponse
<1>2. PICK j \in Messages : HeaderEnd(j) \in front + 1..read
  BY DEF Response, endOfHeaders
<1>3. /\ Len(exchange.messages) \in Nat /\ Messages = 1..Len(exchange.messages)
      /\ msg(k).cseq \in 0..Requests /\ Requests \in Nat
  BY MessageTypes, SizeAssumption DEF RInv
<1>4. k - 1 \in 0..Len(exchange.messages) /\ k - 1 < k /\ j - 1 \in 0..Len(exchange.messages)
      /\ j \in 0..Len(exchange.messages) /\ k \in 0..Len(exchange.messages)
  BY <1>3
<1>5. /\ \A i \in Messages : HeaderEnd(i) \in Nat /\ HeaderEnd(i) <= MessageEnd(i)
      /\ \A i \in 0..Len(exchange.messages) : MessageEnd(i) \in Nat
      /\ \A m \in Messages, i \in 0..Len(exchange.messages) :
           i < m => MessageEnd(i) < HeaderEnd(m) /\ MessageEnd(i) < MessageEnd(m)
  BY MessagesApart DEF RInv
<1>6. front \in Nat /\ read \in Nat /\ received \in Nat /\ read <= received
  BY Numbers DEF RInv
<1>7. front < HeaderEnd(k)
  BY <1>1, <1>4, <1>5
<1>8. HeaderEnd(k) <= read
  <2>1. CASE j = k
    BY <1>2, <1>6, <2>1
  <2>2. CASE j < k
    <3>1. j <= k - 1
      BY <1>3, <2>2
    <3>2. MessageEnd(j) <= MessageEnd(k - 1)
      <4>1. CASE j = k - 1
        BY <1>4, <1>5, <4>1
      <4>2. CASE j # k - 1
        <5>1. j < k - 1 /\ k - 1 \in Messages
          BY <1>3, <1>4, <3>1, <4>2
        <5> QED
          BY <1>4, <1>5, <5>1
      <4> QED
        BY <4>1, <4>2
    <3>3. HeaderEnd(j) <= MessageEnd(j) /\ HeaderEnd(j) > front
      BY <1>2, <1>5, <1>6
    <3> QED
      BY <1>1, <1>4, <1>5, <1>6, <3>2, <3>3
  <2>3. CASE k < j
    <3>1. MessageEnd(k) < HeaderEnd(j) /\ HeaderEnd(k) <= MessageEnd(k) /\ HeaderEnd(j) <= read
      BY <1>2, <1>4, <1>5, <1>6, <2>3
    <3> QED
      BY <1>4, <1>5, <1>6, <3>1
  <2> QED
    BY <1>3, <2>1, <2>2, <2>3
<1>9. MessageEnd(k - 1) < received
  BY <1>1, <1>5, <1>6, <1>7, <1>8
<1>10. msg(k).cseq <= sent
  BY <1>9 DEF RInv, AskedBefore
<1> QED
  BY <1>1, <1>3, <1>7, <1>8, <1>10

\* The request of a response at the front is found.
LEMMA FindsOwn ==
  ASSUME RInv, Tame, NEW k \in Messages, Response(k), NEW d \in 0..Len(Queue),
         Cuts(Match(msg(k).cseq), msg(k).cseq, d)
  PROVE  /\ exchange.pipelined => d > 0 /\ Queue[d] = msg(k).cseq /\ Match(msg(k).cseq).found = Queue[d]
         /\ Match(msg(k).cseq).found # 0 => Match(msg(k).cseq).found = msg(k).cseq
<1>1. IsResponse(k) /\ front = MessageEnd(k - 1) /\ front \in Nat /\ msg(k).cseq <= sent
  BY ResponseBegins, Numbers DEF RInv
<1>2. exchange.pipelined => Among(msg(k).cseq, Queue)
  BY <1>1 DEF RInv, Expected
<1>3. ~exchange.pipelined => Len(Queue) <= 1
  BY DEF RInv, Waiting
<1>4. exchange.pipelined \in BOOLEAN
  BY MessageTypes DEF RInv
<1> QED
  BY <1>2, <1>3, <1>4 DEF Cuts

\* When requests are taken up to its own, or until just before it, those whose
\* responses come later, or its own too, still wait.
LEMMA OthersWait ==
  ASSUME RInv, exchange.pipelined, Tame, NEW k \in Messages, Response(k),
         NEW d \in 1..Len(Queue), Queue[d] = msg(k).cseq, NEW e \in {d - 1, d},
         NEW i \in Messages, IsResponse(i), i > k \/ (i = k /\ e = d - 1), msg(i).cseq <= sent
  PROVE  Among(msg(i).cseq, Rest(Queue, e))
<1> DEFINE q == Queue
           n == Len(q)
<1>1. /\ q \in Seq(1..sent) /\ 1..sent \subseteq Nat /\ n \in Nat /\ d \in 1..n
      /\ \A p \in 1..n : q[p] \in Nat
  BY Numbers DEF RInv
<1>2. Sorted(q) /\ \A p, r \in 1..n : p < r => q[p] < q[r]
  BY DEF RInv, Waiting, Sorted
<1>3. /\ Messages = 1..Len(exchange.messages) /\ Len(exchange.messages) \in Nat
      /\ msg(i).cseq \in Nat /\ msg(k).cseq \in Nat
  BY MessageTypes, SizeAssumption DEF RInv
<1>4. IsResponse(k) /\ front = MessageEnd(k - 1) /\ front \in Nat
  BY ResponseBegins, Numbers DEF RInv
<1>5. front <= MessageEnd(i - 1)
  <2>1. CASE i = k
    BY <1>4, <2>1
  <2>2. CASE i > k
    <3>1. k - 1 < i - 1 /\ k - 1 \in 0..Len(exchange.messages) /\ i - 1 \in Messages
          /\ i - 1 \in 0..Len(exchange.messages)
      BY <1>3, <2>2
    <3>2. MessageEnd(k - 1) < MessageEnd(i - 1) /\ MessageEnd(i - 1) \in Nat
      BY <3>1, MessagesApart DEF RInv
    <3> QED
      BY <1>4, <3>2
  <2> QED
    BY <2>1, <2>2
<1>6. Among(msg(i).cseq, q)
  BY <1>5 DEF RInv, Expected
<1>7. PICK p \in 1..n : q[p] = msg(i).cseq
  BY <1>6 DEF Among
<1>8. \A r : Among(r, Rest(q, e)) <=> \E x \in e + 1..n : q[x] = r
  <2>1. e \in 0..n
    BY <1>1
  <2> HIDE DEF q
  <2> QED
    BY <1>1, <1>2, <2>1, RestSorted DEF n
<1>9. q[d] = msg(k).cseq
  OBVIOUS
<1> HIDE DEF q, n
<1>10. p \in e + 1..n
  <2>1. CASE i = k /\ e = d - 1
    <3>1. ~(p < d)
      BY <1>1, <1>2, <1>7, <1>9, <2>1
    <3> QED
      BY <1>1, <2>1, <3>1
  <2>2. CASE i > k
    <3>1. msg(k).cseq < msg(i).cseq
      BY <1>4, <2>2, AnswersAscend DEF RInv
    <3>2. ~(p < d) /\ p # d
      BY <1>1, <1>2, <1>3, <1>7, <1>9, <3>1
    <3> QED
      BY <1>1, <3>2
  <2> QED
    BY <2>1, <2>2
<1> QED
  BY <1>7, <1>8, <1>10 DEF q

\* No response is longer than the buffer, if that is filled by nothing without the
\* beginning of one.
LEMMA TameFits ==
  ASSUME RInv, exchange.pipelined, Tame, NEW k \in Messages
  PROVE  MessageEnd(k) - MessageEnd(k - 1) <= Size
<1>1. /\ Messages = 1..Len(exchange.messages) /\ Len(exchange.messages) \in Nat /\ Size \in Nat \ {0}
      /\ \A i \in 0..Len(exchange.messages) : MessageEnd(i) \in Nat
      /\ \A m \in Messages, i \in 0..Len(exchange.messages) : i < m => MessageEnd(i) < MessageEnd(m)
  BY MessageTypes, MessagesApart, Numbers DEF RInv
<1> DEFINE n == MessageEnd(k - 1) + 1
           l == Len(exchange.messages)
<1> SUFFICES ASSUME MessageEnd(k) - MessageEnd(k - 1) > Size PROVE FALSE
  BY <1>1
<1>2. k \in 0..l /\ k - 1 \in 0..l /\ l \in 0..l
  BY <1>1
<1>3. MessageEnd(k) <= MessageEnd(l)
  BY <1>1, <1>2
<1>4. n \in 0..MessageEnd(l) - Size
  <2>1. MessageEnd(k - 1) \in Nat /\ MessageEnd(k) \in Nat /\ MessageEnd(l) \in Nat /\ Size \in Nat
    BY <1>1, <1>2
  <2> QED
    BY <1>3, <2>1
<1>5. PICK j \in Messages : MessageEnd(j - 1) \in n..n + Size - 1
  BY <1>4 DEF Tame
<1>6. j - 1 \in 0..l
  BY <1>1
<1>7. /\ MessageEnd(j - 1) \in Nat /\ MessageEnd(k - 1) \in Nat /\ MessageEnd(k) \in Nat
      /\ Size \in Nat
  BY <1>1, <1>2, <1>6
<1>8. MessageEnd(k - 1) < MessageEnd(j - 1) /\ MessageEnd(j - 1) < MessageEnd(k)
  BY <1>5, <1>7
<1>9. k - 1 < j - 1 /\ j - 1 < k
  BY <1>2, <1>6, <1>8, EndsAscend DEF RInv
<1> QED
  BY <1>1, <1>9

-----------------------------------------------------------------------------
(***************************************************************************)
(* A server that answers each request in its turn.                         *)
(***************************************************************************)

\* The buffer is behind the first `k' responses.
Behind(k) ==
  /\ k \in 0..Len(exchange.messages)
  /\ front = MessageEnd(k) /\ Queue = [i \in 1..sent - k |-> k + i]

\* It is behind those that it has answered, and the next one is whole before the buffer
\* is full.
LEMMA AnsweredInTurn ==
  ASSUME RInv, OnlyOf({"ok", "bad"})
  PROVE  \E k \in 0..Len(exchange.messages) :
           /\ Behind(k) /\ k <= sent /\ Len(Queue) = sent - k
           /\ received - front < Size
           /\ k + 1 \in Messages => MessageEnd(k + 1) - front < Size
<1> DEFINE l == Len(exchange.messages)
<1>1. PICK k \in 0..l : front = MessageEnd(k) /\ Queue = [i \in 1..sent - k |-> k + i]
  BY DEF RInv, InStep, Queue
<1>2. /\ Messages = 1..l /\ l \in Nat /\ l \in 0..l
      /\ \A i \in 0..l : MessageEnd(i) \in Nat
      /\ \A m \in Messages, i \in 0..l : i < m => MessageEnd(i) < MessageEnd(m)
  BY MessageTypes, MessagesApart DEF RInv
<1>3. /\ Size \in Nat \ {0} /\ sent \in Nat /\ received \in Nat /\ front \in Nat
      /\ received <= MessageEnd(l) /\ front <= received
  BY Numbers DEF RInv
<1>4. \A i \in Messages : MessageEnd(i - 1) < received => i <= sent
  BY DEF RInv, AskedBefore, OnlyOf
<1>5. k <= sent
  <2>1. CASE k = 0
    BY <1>3, <2>1
  <2>2. CASE k # 0
    <3>1. k \in Messages /\ k - 1 \in 0..l /\ k - 1 < k
      BY <1>2, <2>2
    <3>2. MessageEnd(k - 1) < MessageEnd(k) /\ MessageEnd(k - 1) \in Nat
      BY <1>2, <3>1
    <3>3. MessageEnd(k - 1) < received
      BY <1>1, <1>3, <3>2
    <3> QED
      BY <1>4, <3>1, <3>3
  <2> QED
    BY <2>1, <2>2
<1>6. Len(Queue) = sent - k
  BY <1>1, <1>3, <1>5
<1>7. exchange.pipelined \in BOOLEAN /\ (~exchange.pipelined => sent - k <= 1)
  BY <1>6, MessageTypes DEF RInv, Waiting
<1>8. /\ exchange.pipelined => MessageEnd(l) < Size
      /\ ~exchange.pipelined => \A i \in Messages : MessageEnd(i) - MessageEnd(i - 1) < Size
  BY <1>7 DEF OnlyOf, Fits, Length
<1> HIDE DEF l
<1>9. ASSUME k + 1 \in Messages PROVE MessageEnd(k + 1) - front < Size
  <2>1. CASE exchange.pipelined
    <3>1. k + 1 \in 0..l /\ (k + 1 = l \/ (k + 1 < l /\ l \in Messages))
      BY <1>2, <1>9
    <3>2. MessageEnd(k + 1) <= MessageEnd(l) /\ MessageEnd(k + 1) \in Nat /\ MessageEnd(l) \in Nat
      <4>1. MessageEnd(k + 1) \in Nat /\ MessageEnd(l) \in Nat
        BY <1>2, <3>1
      <4>2. CASE k + 1 = l
        BY <4>1, <4>2
      <4>3. CASE k + 1 < l /\ l \in Messages
        <5>1. MessageEnd(k + 1) < MessageEnd(l)
          BY <1>2, <3>1, <4>3
        <5> QED
          BY <4>1, <5>1
      <4> QED
        BY <3>1, <4>1, <4>2, <4>3
    <3> QED
      BY <1>3, <1>8, <2>1, <3>2
  <2>2. CASE ~exchange.pipelined
    <3>1. k + 1 - 1 = k
      BY <1>2
    <3>2. MessageEnd(k + 1) - MessageEnd(k + 1 - 1) < Size
      BY <1>8, <1>9, <2>2
    <3> QED
      BY <1>1, <3>1, <3>2
  <2> QED
    BY <2>1, <2>2
<1>10. received - front < Size
  <2>1. CASE k = l
    BY <1>1, <1>3, <2>1
  <2>2. CASE k # l
    <3>1. k + 1 \in Messages /\ k + 1 \in 0..l /\ k + 1 - 1 = k
      BY <1>2, <2>2
    <3>2. CASE exchange.pipelined
      <4>1. MessageEnd(l) < Size /\ MessageEnd(l) \in Nat
        BY <1>2, <1>8, <3>2
      <4> QED
        BY <1>3, <4>1
    <3>3. CASE ~exchange.pipelined
      <4>1. received <= MessageEnd(k + 1)
        <5>1. SUFFICES ASSUME MessageEnd(k + 1) < received PROVE FALSE
          BY <1>2, <1>3, <3>1
        <5>2. k + 1 # l
          BY <1>2, <1>3, <3>1, <5>1
        <5>3. k + 2 \in Messages /\ k + 2 - 1 = k + 1
          BY <1>2, <3>1, <5>2
        <5>4. k + 2 <= sent
          BY <1>4, <5>1, <5>3
        <5> QED
          BY <1>2, <1>3, <1>7, <3>3, <5>4
      <4>2. MessageEnd(k + 1) \in Nat /\ MessageEnd(k + 1) - front < Size
        BY <1>2, <1>9, <3>1
      <4> QED
        BY <1>3, <4>1, <4>2
    <3> QED
      BY <3>2, <3>3
  <2> QED
    BY <2>1, <2>2
<1> QED
  BY <1>1, <1>5, <1>6, <1>9, <1>10 DEF Behind, l

\* Where such a server's answers are, headers are of responses, to the request that is
\* first in the queue.
LEMMA TurnIsTheNext ==
  ASSUME RInv, OnlyOf({"ok", "bad"}), NEW k \in 0..Len(exchange.messages), Behind(k)
  PROVE  /\ \A j \in Messages : Response(j) => j = k + 1
         /\ endOfHeaders => k + 1 \in Messages /\ Response(k + 1)
<1> DEFINE l == Len(exchange.messages)
<1>1. /\ Messages = 1..l /\ l \in Nat
      /\ \A i \in 0..l : MessageEnd(i) \in Nat
      /\ \A i \in Messages : HeaderEnd(i) \in Nat /\ HeaderEnd(i) <= MessageEnd(i)
      /\ \A m \in Messages, i \in 0..l : i < m => MessageEnd(i) < MessageEnd(m)
  BY MessageTypes, MessagesApart DEF RInv
<1>2. front \in Nat /\ front = MessageEnd(k) /\ k \in 0..l /\ read \in Nat
  BY Numbers DEF RInv, Behind
<1> HIDE DEF l
<1>3. ASSUME NEW j \in Messages, Response(j) PROVE j = k + 1
  <2>1. MessageEnd(j - 1) = MessageEnd(k) /\ j - 1 \in 0..l
    BY <1>1, <1>2, <1>3 DEF Response, Begins
  <2>2. ~(j - 1 < k)
    <3>1. SUFFICES ASSUME j - 1 < k PROVE FALSE
      OBVIOUS
    <3>2. k \in Messages
      BY <1>1, <1>2, <2>1, <3>1
    <3>3. MessageEnd(j - 1) < MessageEnd(k)
      BY <1>1, <2>1, <3>1, <3>2
    <3> QED
      BY <1>1, <1>2, <2>1, <3>3
  <2>3. ~(k < j - 1)
    <3>1. SUFFICES ASSUME k < j - 1 PROVE FALSE
      OBVIOUS
    <3>2. j - 1 \in Messages
      BY <1>1, <1>2, <2>1, <3>1
    <3>3. MessageEnd(k) < MessageEnd(j - 1)
      BY <1>1, <1>2, <3>1, <3>2
    <3> QED
      BY <1>1, <1>2, <2>1, <3>3
  <2> QED
    BY <1>1, <1>2, <2>1, <2>2, <2>3
<1>4. ASSUME endOfHeaders PROVE k + 1 \in Messages /\ Response(k + 1)
  <2>1. PICK j \in Messages : HeaderEnd(j) \in front + 1..read
    BY <1>4 DEF endOfHeaders
  <2>2. MessageEnd(j) > MessageEnd(k) /\ j \in 0..l
    BY <1>1, <1>2, <2>1
  <2>3. ~(j <= k)
    <3>1. SUFFICES ASSUME j <= k PROVE FALSE
      OBVIOUS
    <3>2. j = k \/ (j < k /\ k \in Messages)
      BY <1>1, <1>2, <3>1
    <3> QED
      BY <1>1, <1>2, <2>2, <3>2
  <2>4. k + 1 \in Messages /\ k + 1 - 1 = k
    BY <1>1, <1>2, <2>2, <2>3
  <2>5. msg(k + 1).kind \in {"ok", "bad"}
    BY <2>4 DEF OnlyOf
  <2> QED
    BY <1>2, <1>4, <2>4, <2>5 DEF Response, Begins
<1> QED
  BY <1>3, <1>4

-----------------------------------------------------------------------------
(***************************************************************************)
(* The initial states, and the steps.                                      *)
(***************************************************************************)

\* The initial states.
LEMMA InitRInv == ResponseInit => RInv
<1> SUFFICES ASSUME ResponseInit PROVE RInv
  OBVIOUS
<1>1. exchange \in Exchanges /\ fResponseBytesAlreadySeen = 0 /\ read = 0 /\ received = 0 /\ sent = 0
      /\ Queue = <<>> /\ looping = FALSE /\ numExtraBytesAfterResponse = 0
      /\ answers = [r \in Ids |-> NotTold]
  BY DEF ResponseInit, Queue
<1>2. Size \in Nat \ {0} /\ Requests \in Nat
  BY SizeAssumption
<1>3. front = 0
  BY <1>1 DEF front
<1>4. Len(exchange.messages) \in Nat /\ MessageEnd(Len(exchange.messages)) \in Nat
      /\ \A k \in Messages : MessageEnd(k - 1) \in Nat
  <2>1. Len(exchange.messages) \in Nat /\ Messages = 1..Len(exchange.messages)
    BY <1>1, MessageTypes
  <2>2. Len(exchange.messages) \in 0..Len(exchange.messages)
        /\ \A k \in Messages : k - 1 \in 0..Len(exchange.messages)
    BY <2>1
  <2> QED
    BY <1>1, <2>1, <2>2, MessagesApart
<1>5. <<>> \in Seq(1..0) /\ Len(<<>>) = 0
  BY EmptySeq
<1>6. ResponseTypes
  <2>1. \A r \in Ids : answers[r].msg \in {-1, 0} \cup Messages
    BY <1>1 DEF NotTold
  <2>2. fRequestsAwaitingResponse \in Seq(1..sent)
    BY <1>1, <1>5 DEF Queue
  <2>3. fResponseBytesAlreadySeen \in 0..Lesser(read, Size - 1)
    BY <1>1, <1>2 DEF Lesser
  <2>4. DOMAIN answers = Ids /\ sent \in 0..Requests /\ looping \in BOOLEAN
    <3>1. DOMAIN answers = Ids /\ looping \in BOOLEAN
      BY <1>1
    <3>2. sent \in 0..Requests
      BY <1>1, <1>2
    <3> QED
      BY <3>1, <3>2
  <2>5. received \in 0..MessageEnd(Len(exchange.messages)) /\ read \in 0..received
        /\ numExtraBytesAfterResponse \in 0..read
    BY <1>1, <1>4
  <2> QED
    BY <2>1, <2>2, <2>3, <2>4, <2>5 DEF ResponseTypes
<1>7. AskedBefore
  BY <1>1, <1>4 DEF AskedBefore
<1>8. Waiting
  BY <1>1, <1>5 DEF Waiting, Sorted
<1>9. Kept /\ Told
  <2>1. \A k \in Messages : k # 0
    BY <1>1, MessageTypes
  <2> QED
    BY <1>1, <2>1 DEF Kept, Told, Fitting, Own, NotTold
<1>10. Expected
  <2>1. \A k \in Messages : IsResponse(k) => msg(k).cseq \in Nat \ {0}
    BY <1>1, <1>2, MessageTypes, AnswersAscend
  <2> QED
    BY <1>1, <2>1 DEF Expected
<1>11. InStep
  <2>1. 0 \in 0..Len(exchange.messages) /\ MessageEnd(0) = 0
    BY <1>4 DEF MessageEnd
  <2>2. <<>> = [i \in 1..sent - 0 |-> 0 + i]
    BY <1>1
  <2> QED
    BY <1>1, <1>3, <2>1, <2>2 DEF InStep, Queue
<1> QED
  BY <1>1, <1>6, <1>7, <1>8, <1>9, <1>10, <1>11 DEF RInv

\* A request that is sent is the last one in the queue.
LEMMA SubmitRInv == RInv /\ Submit => RInv'
<1> SUFFICES ASSUME RInv, Submit PROVE RInv'
  OBVIOUS
<1> DEFINE q == Queue
           n == Len(q)
           l == Len(exchange.messages)
<1>1. /\ sent < Requests /\ sent' = sent + 1 /\ Queue' = Append(q, sent + 1)
      /\ exchange.pipelined \/ \A r \in 1..sent : answers[r] # NotTold
      /\ UNCHANGED <<exchange, received, read, fResponseBytesAlreadySeen, numExtraBytesAfterResponse,
                     looping, answers>>
  BY DEF Submit, Queue, input
<1>2. /\ Requests \in Nat /\ sent \in Nat /\ q \in Seq(1..sent) /\ 1..sent \subseteq Ids
      /\ n \in Nat /\ \A i \in 1..n : q[i] \in 1..sent
  BY Numbers DEF RInv
<1>3. sent + 1 \in Ids /\ 1..sent \subseteq 1..sent + 1 /\ sent + 1 \in 1..sent + 1
  BY <1>1, <1>2 DEF Ids
<1>4. q \in Seq(1..sent + 1)
  <2>1. q \in [1..n -> 1..sent + 1]
    BY <1>2, <1>3, LenProperties
  <2> QED
    BY <1>2, <2>1
<1>5. /\ Queue' \in Seq(1..sent') /\ Len(Queue') = n + 1 /\ Queue'[n + 1] = sent + 1
      /\ \A i \in 1..n : Queue'[i] = q[i]
  <2>1. /\ Append(q, sent + 1) \in Seq(1..sent + 1) /\ Len(Append(q, sent + 1)) = n + 1
        /\ \A i \in 1..n : Append(q, sent + 1)[i] = q[i]
        /\ Append(q, sent + 1)[n + 1] = sent + 1
    BY <1>3, <1>4, AppendProperties
  <2> QED
    BY <1>1, <2>1
<1>6. front' = front
  BY <1>1 DEF front
<1>7. Waiting'
  <2>1. Sorted(q) /\ \A i, j \in 1..n : i < j => q[i] < q[j]
    BY DEF RInv, Waiting, Sorted
  <2>2. \A r \in Ids : r > sent \/ Among(r, q) => answers[r] = NotTold
    BY DEF RInv, Waiting
  <2> HIDE DEF q, n
  <2>3. Sorted(Queue')
    <3>1. ASSUME NEW i \in 1..n + 1, NEW j \in 1..n + 1, i < j PROVE Queue'[i] < Queue'[j]
      <4>1. i \in 1..n /\ Queue'[i] = q[i] /\ q[i] \in 1..sent
        BY <1>2, <1>5, <3>1
      <4>2. CASE j \in 1..n
        BY <1>5, <2>1, <3>1, <4>1, <4>2
      <4>3. CASE j = n + 1
        BY <1>2, <1>5, <4>1, <4>3
      <4> QED
        BY <1>2, <4>2, <4>3
    <3> QED
      BY <1>5, <3>1 DEF Sorted
  <2>4. ASSUME NEW r \in Ids, r > sent' \/ Among(r, Queue') PROVE answers'[r] = NotTold
    <3>1. CASE r > sent'
      BY <1>1, <1>2, <2>2, <3>1 DEF Ids
    <3>2. CASE Among(r, Queue')
      <4>1. PICK i \in 1..n + 1 : Queue'[i] = r
        BY <1>5, <3>2 DEF Among
      <4>2. CASE i \in 1..n
        <5>1. Among(r, q)
          BY <1>5, <4>1, <4>2 DEF Among, n
        <5> QED
          BY <1>1, <2>2, <5>1
      <4>3. CASE i = n + 1
        <5>1. r > sent
          BY <1>2, <1>5, <4>1, <4>3
        <5> QED
          BY <1>1, <2>2, <5>1
      <4> QED
        BY <1>2, <4>1, <4>2, <4>3
    <3> QED
      BY <2>4, <3>1, <3>2
  <2>5. ASSUME ~exchange.pipelined PROVE n + 1 <= 1
    <3>1. ASSUME 1 \in 1..n PROVE FALSE
      <4>1. q[1] \in 1..sent /\ q[1] \in Ids /\ Among(q[1], q)
        BY <1>2, <3>1 DEF Among, n
      <4> QED
        BY <1>1, <2>2, <2>5, <4>1
    <3> QED
      BY <1>2, <3>1
  <2> QED
    BY <1>1, <1>5, <2>3, <2>4, <2>5 DEF Waiting
<1>8. ResponseTypes'
  <2>1. fRequestsAwaitingResponse' \in Seq(1..sent')
    BY <1>5 DEF Queue
  <2>2. sent' \in 0..Requests
    BY <1>1, <1>2
  <2> QED
    BY <1>1, <2>1, <2>2, SameExchange DEF RInv, ResponseTypes
<1>9. AskedBefore' /\ Kept' /\ Told'
  <2>1. AskedBefore'
    <3>1. \A k \in Messages : msg(k).cseq \in Nat
      BY <1>2, MessageTypes DEF RInv
    <3> QED
      BY <1>1, <1>2, <3>1, SameExchange DEF RInv, AskedBefore
  <2> QED
    BY <1>1, <2>1, SameExchange DEF RInv, Kept, Told
<1>10. Expected'
  <2>1. ASSUME exchange.pipelined, Tame, NEW k \in Messages, IsResponse(k), front <= MessageEnd(k - 1),
               msg(k).cseq <= sent + 1
        PROVE  Among(msg(k).cseq, Queue')
    <3>1. msg(k).cseq \in Nat
      BY <1>2, MessageTypes DEF RInv
    <3>2. CASE msg(k).cseq = sent + 1
      <4>1. n + 1 \in 1..n + 1
        BY <1>2
      <4> QED
        BY <1>5, <3>2, <4>1 DEF Among
    <3>3. CASE msg(k).cseq <= sent
      <4>1. PICK i \in 1..n : q[i] = msg(k).cseq
        BY <2>1, <3>3 DEF RInv, Expected, Among
      <4>2. i \in 1..n + 1
        BY <1>2
      <4> QED
        BY <1>5, <4>1, <4>2 DEF Among
    <3> QED
      BY <1>2, <2>1, <3>1, <3>2, <3>3
  <2> QED
    BY <1>1, <1>6, <2>1, SameExchange DEF Expected, IsResponse
<1>11. InStep'
  <2>1. ASSUME OnlyOf({"ok", "bad"})
        PROVE  \E k \in 0..l : front = MessageEnd(k) /\ Queue' = [i \in 1..sent' - k |-> k + i]
    <3>1. PICK k \in 0..l : Behind(k) /\ k <= sent /\ n = sent - k
      BY <2>1, AnsweredInTurn
    <3>2. q = [i \in 1..sent - k |-> k + i] /\ front = MessageEnd(k) /\ l \in Nat
      BY <3>1, MessageTypes DEF RInv, Behind
    <3> HIDE DEF q, n, l
    <3>3. Len(Queue') = sent' - k
      BY <1>1, <1>2, <1>5, <3>1, <3>2
    <3>4. ASSUME NEW i \in 1..sent' - k PROVE Queue'[i] = k + i
      <4>1. CASE i \in 1..n
        BY <1>5, <3>1, <3>2, <4>1
      <4>2. CASE i = n + 1
        BY <1>2, <1>5, <3>1, <3>2, <4>2
      <4> QED
        BY <1>1, <1>2, <3>1, <3>2, <4>1, <4>2
    <3>5. Queue' = [i \in 1..Len(Queue') |-> Queue'[i]]
      <4>1. Queue' \in [1..Len(Queue') -> 1..sent']
        BY <1>5, LenProperties
      <4> QED
        BY <4>1
    <3> QED
      BY <3>2, <3>3, <3>4, <3>5
  <2>2. OnlyOf({"ok", "bad"})' => OnlyOf({"ok", "bad"})
    BY <1>1, SameExchange
  <2>3. \A k \in 0..l : MessageEnd(k)' = MessageEnd(k)
    BY <1>1, SameExchange
  <2>4. l' = l
    BY <1>1
  <2> HIDE DEF l
  <2>5. OnlyOf({"ok", "bad"})' =>
          \E k \in 0..l' : front' = MessageEnd(k)' /\ Queue' = [i \in 1..sent' - k |-> k + i]
    BY <1>6, <2>1, <2>2, <2>3, <2>4
  <2> QED
    BY <2>5 DEF InStep, Queue, l
<1> QED
  BY <1>1, <1>7, <1>8, <1>9, <1>10, <1>11 DEF RInv

\* Bytes that arrive, that are read, and that are no header yet.
LEMMA QuietStepRInv == RInv /\ (Receive \/ ReadSome \/ HeadersIncomplete) => RInv'
<1> SUFFICES ASSUME RInv, Receive \/ ReadSome \/ HeadersIncomplete PROVE RInv'
  OBVIOUS
<1>1. /\ Size \in Nat \ {0} /\ received \in Nat /\ read \in Nat /\ read <= received
      /\ fResponseBytesAlreadySeen \in Nat /\ fResponseBytesAlreadySeen <= read
      /\ fResponseBytesAlreadySeen < Size /\ front \in Nat
      /\ received <= MessageEnd(Len(exchange.messages))
  BY Numbers DEF RInv
<1>2. MessageEnd(Len(exchange.messages)) \in Nat /\ \A k \in Messages : msg(k).cseq \in Nat
  <2>1. Len(exchange.messages) \in 0..Len(exchange.messages)
    BY MessageTypes DEF RInv
  <2> QED
    BY <2>1, MessageTypes, MessagesApart, SizeAssumption DEF RInv
<1>3. CASE Receive
  <2>1. PICK m \in received + 1..MessageEnd(Len(exchange.messages)) :
          received' = m /\ \A k \in Messages : MessageEnd(k - 1) < m => msg(k).cseq <= sent
    BY <1>3 DEF Receive
  <2>2. UNCHANGED <<exchange, sent, read, fResponseBytesAlreadySeen, numExtraBytesAfterResponse, looping,
                    fRequestsAwaitingResponse, answers>>
    BY <1>3 DEF Receive
  <2>3. front' = front
    BY <2>2 DEF front
  <2>4. AskedBefore' /\ Kept'
    BY <2>1, <2>2, SameExchange DEF RInv, AskedBefore, Kept
  <2>5. ResponseTypes'
    <3>1. received' \in 0..MessageEnd(Len(exchange.messages)) /\ read \in 0..received'
      BY <1>1, <1>2, <2>1
    <3> QED
      BY <2>2, <3>1, SameExchange DEF RInv, ResponseTypes
  <2> QED
    BY <1>1, <2>2, <2>3, <2>4, <2>5, QuietRInv
<1>4. CASE ReadSome
  <2> DEFINE m == newBytesRead
  <2>1. /\ read < received /\ m < Size - fResponseBytesAlreadySeen
        /\ m = Lesser(Size - fResponseBytesAlreadySeen, received - read)
        /\ read' = read + m /\ fResponseBytesAlreadySeen' = fResponseBytesAlreadySeen + m
        /\ numExtraBytesAfterResponse' = 0 /\ looping' = TRUE
        /\ UNCHANGED <<exchange, sent, received, fRequestsAwaitingResponse, answers>>
    BY <1>4 DEF ReadSome, CanRead, newBytesRead, fResponseBufferBytesLeft
  <2> HIDE DEF m
  <2>2. m \in Nat /\ m = received - read
    BY <1>1, <2>1 DEF Lesser
  <2>3. front' = front
    BY <1>1, <2>1, <2>2 DEF front
  <2>4. AskedBefore' /\ Kept'
    BY <2>1, SameExchange DEF RInv, AskedBefore, Kept
  <2>5. ResponseTypes'
    <3>1. read' \in 0..received /\ fResponseBytesAlreadySeen' \in 0..Lesser(read', Size - 1)
          /\ numExtraBytesAfterResponse' \in 0..read'
      BY <1>1, <2>1, <2>2 DEF Lesser
    <3> QED
      BY <2>1, <3>1, SameExchange DEF RInv, ResponseTypes
  <2> QED
    BY <1>1, <2>1, <2>3, <2>4, <2>5, QuietRInv
<1>5. CASE HeadersIncomplete
  <2>1. looping' = FALSE
        /\ UNCHANGED <<exchange, sent, received, read, fResponseBytesAlreadySeen,
                       numExtraBytesAfterResponse, fRequestsAwaitingResponse, answers>>
    BY <1>5 DEF HeadersIncomplete, input
  <2>2. front' = front
    BY <2>1 DEF front
  <2>3. AskedBefore' /\ Kept' /\ ResponseTypes'
    BY <2>1, SameExchange DEF RInv, AskedBefore, Kept, ResponseTypes
  <2> QED
    BY <1>1, <2>1, <2>2, <2>3, QuietRInv
<1> QED
  BY <1>3, <1>4, <1>5

\* What was read is dropped: at least one response has been in it, when requests are
\* pipelined, and the oldest request fails.
LEMMA ReadTooMuchRInv == RInv /\ ReadTooMuch => RInv'
<1> SUFFICES ASSUME RInv, ReadTooMuch PROVE RInv'
  OBVIOUS
<1> DEFINE q == Queue
           n == Len(q)
           l == Len(exchange.messages)
<1>1. /\ Size \in Nat \ {0} /\ received \in Nat /\ read \in Nat /\ read <= received
      /\ fResponseBytesAlreadySeen \in Nat /\ fResponseBytesAlreadySeen <= read
      /\ fResponseBytesAlreadySeen < Size /\ front \in Nat /\ front = read - fResponseBytesAlreadySeen
      /\ received <= MessageEnd(l) /\ numExtraBytesAfterResponse \in Nat
      /\ numExtraBytesAfterResponse <= read /\ sent \in Nat
      /\ q \in Seq(1..sent) /\ 1..sent \subseteq Nat /\ n \in Nat /\ \A i \in 1..n : q[i] \in 1..sent
  BY Numbers DEF RInv
<1>2. /\ ~looping /\ read' = read + newBytesRead /\ fResponseBytesAlreadySeen' = 0
      /\ newBytesRead = Size - fResponseBytesAlreadySeen
      /\ newBytesRead = Lesser(Size - fResponseBytesAlreadySeen, received - read)
      /\ UNCHANGED <<exchange, sent, received, numExtraBytesAfterResponse, looping>>
  BY DEF ReadTooMuch, CanRead, newBytesRead, fResponseBufferBytesLeft
<1>3. \/ q = <<>> /\ Queue' = q /\ answers' = answers
      \/ q # <<>> /\ Queue' = Tail(q) /\ answers' = [answers EXCEPT ![Head(q)] = Error]
  BY DEF ReadTooMuch, Queue
<1>4. /\ read' = front + Size /\ front' = front + Size /\ read' <= received /\ read' \in Nat
  BY <1>1, <1>2 DEF Lesser, front
<1>5. ~OnlyOf({"ok", "bad"})
  <2>1. SUFFICES ASSUME OnlyOf({"ok", "bad"}) PROVE FALSE
    OBVIOUS
  <2>2. received - front < Size
    BY <2>1, AnsweredInTurn
  <2> QED
    BY <1>1, <1>4, <2>2
<1> DEFINE d == IF q = <<>> THEN 0 ELSE 1
<1>6. /\ d \in 0..n /\ Queue' = Rest(q, d)
      /\ \/ answers' = answers
         \/ d > 0 /\ answers' = [answers EXCEPT ![q[d]] = Error]
      /\ n > 0 => d = 1
  <2>1. CASE q = <<>>
    <3>1. n = 0 /\ SubSeq(q, 1, 0) = <<>>
      BY <2>1, SubSeqEmpty
    <3> QED
      BY <1>3, <2>1, <3>1 DEF Rest
  <2>2. CASE q # <<>>
    <3>1. n > 0 /\ d = 1
      BY <1>1, <2>2, EmptySeq
    <3>2. Tail(q) = SubSeq(q, 2, n)
      BY <1>1, <2>2, TailIsSubSeq
    <3>3. Head(q) = q[1]
      BY <1>1, <2>2
    <3>4. Rest(q, 1) = SubSeq(q, 2, n)
      BY DEF Rest
    <3>5. Queue' = Tail(q) /\ answers' = [answers EXCEPT ![Head(q)] = Error]
      BY <1>3, <2>2
    <3> HIDE DEF q, n, d
    <3>6. d \in 0..n /\ d > 0 /\ (n > 0 => d = 1)
      BY <1>1, <3>1
    <3>7. Queue' = Rest(q, d)
      BY <3>1, <3>2, <3>4, <3>5
    <3>8. answers' = [answers EXCEPT ![q[d]] = Error]
      BY <3>1, <3>3, <3>5
    <3> QED
      BY <3>6, <3>7, <3>8
  <2> QED
    BY <2>1, <2>2
<1>7. \A r : Fitting(r, Error)
  <2>1. -1 \notin Messages
    BY MessageTypes DEF RInv
  <2> QED
    BY <2>1 DEF Fitting, Own, Error
<1>8. Queue' \in Seq(1..sent') /\ Waiting' /\ Told'
  <2> HIDE DEF d
  <2>1. UNCHANGED <<exchange, sent>>
    BY <1>2
  <2> QED
    BY <1>6, <1>7, <2>1, TakesRequests
<1>9. ResponseTypes'
  <2>1. fRequestsAwaitingResponse' \in Seq(1..sent')
    BY <1>8 DEF Queue
  <2>2. /\ read' \in 0..received /\ fResponseBytesAlreadySeen' \in 0..Lesser(read', Size - 1)
        /\ numExtraBytesAfterResponse \in 0..read'
    BY <1>1, <1>2, <1>4 DEF Lesser
  <2>3. DOMAIN answers' = Ids /\ \A r \in Ids : answers'[r].msg \in {-1, 0} \cup Messages
    BY <1>2, <1>8, SameExchange DEF Told, Fitting
  <2> QED
    BY <1>2, <2>1, <2>2, <2>3, SameExchange DEF RInv, ResponseTypes
<1>10. AskedBefore' /\ Kept'
  BY <1>2, SameExchange DEF RInv, AskedBefore, Kept
<1>11. Expected'
  <2>1. ASSUME exchange.pipelined, Tame, NEW k \in Messages, IsResponse(k), front' <= MessageEnd(k - 1),
               msg(k).cseq <= sent
        PROVE  Among(msg(k).cseq, Rest(q, d))
    <3>1. /\ Messages = 1..l /\ l \in Nat /\ \A i \in 0..l : MessageEnd(i) \in Nat
          /\ \A i \in Messages : msg(i).cseq \in Nat
          /\ \A m \in Messages, i \in 0..l : i < m => MessageEnd(i) < MessageEnd(m)
      BY MessageTypes, MessagesApart, SizeAssumption DEF RInv
    <3>2. l \in 0..l /\ k - 1 \in 0..l
      BY <3>1
    <3> DEFINE last == MessageEnd(l)
               start == MessageEnd(k - 1)
    <3>a. /\ front \in Nat /\ Size \in Nat /\ received \in Nat /\ last \in Nat /\ start \in Nat
           /\ front + Size <= received /\ received <= last /\ front + Size <= start
      BY <1>1, <1>4, <2>1, <3>1, <3>2
    <3> HIDE DEF last, start
    <3>3. front \in 0..MessageEnd(l) - Size
      <4>1. front \in 0..last - Size
        BY <3>a
      <4> QED
        BY <4>1 DEF last
    <3>4. PICK j \in Messages : IsResponse(j) /\ MessageEnd(j - 1) \in front..front + Size - 1
      BY <2>1, <3>3 DEF Tame, IsResponse
    <3>5. MessageEnd(j - 1) < received /\ front <= MessageEnd(j - 1)
          /\ MessageEnd(j - 1) < MessageEnd(k - 1) /\ j - 1 \in 0..l
      <4>1. j - 1 \in 0..l /\ MessageEnd(j - 1) \in Nat
        BY <3>1
      <4>2. MessageEnd(j - 1) < received /\ front <= MessageEnd(j - 1) /\ MessageEnd(j - 1) < start
        BY <3>4, <3>a, <4>1
      <4> QED
        BY <4>1, <4>2 DEF start
    <3>6. msg(j).cseq <= sent
      BY <3>5 DEF RInv, AskedBefore
    <3>7. Among(msg(j).cseq, q)
      BY <2>1, <3>4, <3>5, <3>6 DEF RInv, Expected
    <3>8. front <= MessageEnd(k - 1)
      <4>1. front <= start
        BY <3>a
      <4> QED
        BY <4>1 DEF start
    <3>9. Among(msg(k).cseq, q)
      BY <2>1, <3>8 DEF RInv, Expected
    <3>10. j < k
      <4>1. SUFFICES ASSUME k <= j PROVE FALSE
        BY <3>1
      <4>2. j = k \/ (k - 1 < j - 1 /\ j - 1 \in Messages)
        BY <3>1, <4>1
      <4> QED
        BY <3>1, <3>2, <3>5, <4>2
    <3>11. msg(j).cseq < msg(k).cseq
      BY <2>1, <3>4, <3>10, AnswersAscend DEF RInv
    <3>12. PICK x \in 1..n : q[x] = msg(j).cseq
      BY <3>7 DEF Among
    <3>13. PICK y \in 1..n : q[y] = msg(k).cseq
      BY <3>9 DEF Among
    <3>14. Sorted(q) /\ \A i, m \in 1..n : i < m => q[i] < q[m]
      BY DEF RInv, Waiting, Sorted
    <3>15. \A r : Among(r, Rest(q, d)) <=> \E p \in d + 1..n : q[p] = r
      <4> HIDE DEF d
      <4> QED
        BY <1>1, <1>6, <3>14, RestSorted
    <3> HIDE DEF q, n, d
    <3>16. ~(y <= x)
      <4>1. SUFFICES ASSUME y <= x PROVE FALSE
        OBVIOUS
      <4>2. CASE y = x
        BY <3>1, <3>11, <3>12, <3>13, <4>2
      <4>3. CASE y # x
        <5>1. q[y] < q[x]
          BY <3>14, <4>1, <4>3
        <5> QED
          BY <3>1, <3>11, <3>12, <3>13, <5>1
      <4> QED
        BY <4>2, <4>3
    <3>17. d = 1 /\ y \in d + 1..n
      BY <1>1, <1>6, <3>16
    <3> QED
      BY <3>13, <3>15, <3>17
  <2> HIDE DEF q, d
  <2> QED
    BY <1>2, <1>6, <2>1, SameExchange DEF Expected, IsResponse
<1>12. InStep'
  <2>1. ~OnlyOf({"ok", "bad"})'
    BY <1>2, <1>5, SameExchange
  <2> QED
    BY <2>1 DEF InStep
<1> QED
  BY <1>2, <1>8, <1>9, <1>10, <1>11, <1>12 DEF RInv

\* What begins the buffer is no response that can be matched: all of it is dropped, or,
\* behind a response that was, none.
LEMMA DiscardRInv ==
  ASSUME RInv, NoResponse \/ \E k \in Messages : BadHeader(k)
  PROVE  RInv'
<1>1. /\ looping /\ fResponseBytesAlreadySeen' = numExtraBytesAfterResponse
      /\ numExtraBytesAfterResponse' = numExtraBytesAfterResponse
      /\ answers' = answers /\ looping' = FALSE
      /\ UNCHANGED <<exchange, sent, received, read, fRequestsAwaitingResponse>>
  BY DEF NoResponse, BadHeader, Conclude, More, input
<1>2. numExtraBytesAfterResponse \in {0, fResponseBytesAlreadySeen}
  BY <1>1 DEF RInv, Kept
<1>3. /\ Size \in Nat \ {0} /\ read \in Nat /\ fResponseBytesAlreadySeen \in Nat
      /\ fResponseBytesAlreadySeen <= read /\ fResponseBytesAlreadySeen < Size
      /\ front = read - fResponseBytesAlreadySeen
  BY Numbers DEF RInv
<1>4. front' >= front
  <2>1. front' = read - numExtraBytesAfterResponse
    BY <1>1 DEF front
  <2> QED
    BY <1>2, <1>3, <2>1
<1>5. ~OnlyOf({"ok", "bad"})
  <2>1. SUFFICES ASSUME OnlyOf({"ok", "bad"}) PROVE FALSE
    OBVIOUS
  <2>2. PICK k \in 0..Len(exchange.messages) : Behind(k)
    BY <2>1, AnsweredInTurn
  <2>3. CASE NoResponse
    BY <2>1, <2>2, <2>3, TurnIsTheNext DEF NoResponse
  <2>4. ASSUME NEW j \in Messages, BadHeader(j) PROVE FALSE
    BY <2>1, <2>4 DEF BadHeader, OnlyOf
  <2> QED
    BY <2>3, <2>4
<1>6. AskedBefore' /\ Kept'
  BY <1>1, SameExchange DEF RInv, AskedBefore, Kept
<1>7. ResponseTypes'
  <2>1. fResponseBytesAlreadySeen' \in 0..Lesser(read, Size - 1)
    BY <1>1, <1>2, <1>3 DEF Lesser
  <2> QED
    BY <1>1, <2>1, SameExchange DEF RInv, ResponseTypes
<1> QED
  BY <1>1, <1>4, <1>5, <1>6, <1>7, QuietRInv

\* What Match() leaves of the queue.
LEMMA MatchOfTurn ==
  ASSUME RInv, NEW k \in Messages, Response(k)
  PROVE  /\ \E d \in 0..Len(Queue) : Cuts(Match(msg(k).cseq), msg(k).cseq, d)
         /\ msg(k).cseq \in Nat /\ msg(k).cseq > 0
<1>1. Queue \in Seq(1..sent) /\ 1..sent \subseteq Nat \ {0}
  BY Numbers DEF RInv
<1>2. Sorted(Queue)
  BY DEF RInv, Waiting
<1>3. IsResponse(k) /\ msg(k).cseq \in Nat
  BY ResponseBegins
<1>4. msg(k).cseq > 0
  BY <1>3, AnswersAscend DEF RInv
<1> QED
  BY <1>1, <1>2, <1>3, <1>4, MatchCuts

\* A body is incomplete: its request goes back to the head of the queue.
LEMMA BodyIncompleteRInv == ASSUME RInv, NEW k \in Messages, BodyIncomplete(k) PROVE RInv'
<1> DEFINE q == Queue
           n == Len(q)
           c == msg(k).cseq
           m == Match(c)
<1>1. /\ Response(k) /\ looping' = FALSE
      /\ Queue' = IF m.found = 0 THEN m.queue ELSE <<m.found>> \o m.queue
      /\ UNCHANGED <<exchange, sent, received, read, fResponseBytesAlreadySeen,
                     numExtraBytesAfterResponse, answers>>
  BY DEF BodyIncomplete, Matched, input, Queue
<1>2. PICK d \in 0..n : Cuts(m, c, d)
  BY <1>1, MatchOfTurn
<1>3. q \in Seq(1..sent) /\ n \in Nat /\ \A i \in 1..n : q[i] \in 1..sent /\ q[i] # 0
  BY Numbers DEF RInv
<1>4. /\ m.queue = Rest(q, d)
      /\ (m.found = 0 /\ d = n) \/ (d > 0 /\ m.found = q[d])
      /\ Among(c, q) \/ (n <= 1 /\ m.found # 0) => d > 0 /\ m.found = c /\ q[d] = c
  BY <1>2 DEF Cuts
<1> DEFINE e == IF m.found = 0 THEN d ELSE d - 1
<1> HIDE DEF q, n, m
<1>5. e \in 0..n /\ Queue' = Rest(q, e)
  <2>1. CASE m.found = 0
    BY <1>1, <1>2, <1>4, <2>1
  <2>2. CASE m.found # 0
    <3>1. d \in 1..n /\ m.found = q[d] /\ e = d - 1
      BY <1>2, <1>3, <1>4, <2>2
    <3>2. Queue' = <<q[d]>> \o SubSeq(q, d + 1, n)
      BY <1>1, <1>4, <2>2, <3>1 DEF Rest, n
    <3>3. d \in 1..Len(q) /\ n \in d..Len(q) /\ e \in 0..n /\ e + 1 = d
      BY <1>3, <3>1 DEF n
    <3>4. SubSeq(q, d, n) = <<q[d]>> \o SubSeq(q, d + 1, n)
      BY <1>3, <3>3, SubSeqRecursiveFirst
    <3> QED
      BY <3>2, <3>3, <3>4 DEF Rest, n
  <2> QED
    BY <2>1, <2>2
<1> HIDE DEF e, c
<1>6. front' = front
  BY <1>1 DEF front
<1>7. Queue' \in Seq(1..sent') /\ Waiting' /\ Told'
  BY <1>1, <1>5, TakesRequests DEF q, n
<1>8. AskedBefore' /\ Kept' /\ ResponseTypes'
  <2>1. fRequestsAwaitingResponse' \in Seq(1..sent')
    BY <1>7 DEF Queue
  <2> QED
    BY <1>1, <2>1, SameExchange DEF RInv, AskedBefore, Kept, ResponseTypes
<1>9. Expected'
  <2>1. ASSUME exchange.pipelined, Tame, NEW i \in Messages, IsResponse(i), front <= MessageEnd(i - 1),
               msg(i).cseq <= sent
        PROVE  Among(msg(i).cseq, Queue')
    <3>1. d > 0 /\ q[d] = c /\ m.found = q[d]
      BY <1>1, <1>2, <2>1, FindsOwn DEF q, n, c, m
    <3>2. d \in 1..n /\ e = d - 1
      BY <1>2, <1>3, <3>1 DEF e
    <3>3. i >= k
      <4>1. SUFFICES ASSUME i < k PROVE FALSE
        BY MessageTypes DEF RInv
      <4>2. front = MessageEnd(k - 1)
        BY <1>1, ResponseBegins
      <4>3. i - 1 \in 0..Len(exchange.messages) /\ k - 1 \in Messages /\ i - 1 < k - 1
            /\ k - 1 \in 0..Len(exchange.messages)
        <5> DEFINE l == Len(exchange.messages)
        <5>1. l \in Nat /\ Messages = 1..l
          BY MessageTypes DEF RInv
        <5> HIDE DEF l
        <5>2. i - 1 \in 0..l /\ k - 1 \in Messages /\ i - 1 < k - 1 /\ k - 1 \in 0..l
          BY <4>1, <5>1
        <5> QED
          BY <5>2 DEF l
      <4>4. MessageEnd(i - 1) < MessageEnd(k - 1) /\ MessageEnd(i - 1) \in Nat /\ MessageEnd(k - 1) \in Nat
        BY <4>3, MessagesApart DEF RInv
      <4> QED
        BY <2>1, <4>2, <4>4
    <3>4. i > k \/ i = k
      BY <3>3, MessageTypes DEF RInv
    <3>5. Among(msg(i).cseq, Rest(q, e))
      BY <1>1, <2>1, <3>1, <3>2, <3>4, OthersWait DEF q, n, c
    <3> QED
      BY <1>5, <3>5
  <2> QED
    BY <1>1, <1>6, <2>1, SameExchange DEF Expected, IsResponse
<1>10. InStep'
  <2>1. ASSUME OnlyOf({"ok", "bad"}) PROVE Queue' = q
    <3>1. PICK j \in 0..Len(exchange.messages) : Behind(j) /\ j <= sent /\ n = sent - j
      BY <2>1, AnsweredInTurn DEF n, q
    <3>2. k = j + 1 /\ c = k
      BY <1>1, <2>1, <3>1, TurnIsTheNext DEF OnlyOf, c
    <3>3. q = [i \in 1..sent - j |-> j + i]
      BY <3>1 DEF Behind, q
    <3>4. j \in Nat /\ sent \in Nat /\ c <= sent
      <4>1. c <= sent
        BY <1>1, ResponseBegins DEF c
      <4> QED
        BY <3>1, <4>1, MessageTypes, Numbers DEF RInv
    <3>5. 1 \in 1..n /\ q[1] = c
      BY <3>1, <3>2, <3>3, <3>4
    <3>6. Among(c, q)
      BY <3>5 DEF Among, n
    <3>7. d > 0 /\ m.found = c /\ q[d] = c
      BY <1>4, <3>6
    <3>8. q[d] = j + d
      BY <1>2, <1>3, <3>1, <3>3, <3>7
    <3>9. d = 1
      BY <1>2, <1>3, <3>2, <3>4, <3>7, <3>8
    <3>10. m.found # 0 /\ e = 0
      BY <3>2, <3>4, <3>7, <3>9 DEF e
    <3>11. Rest(q, 0) = q
      <4>1. SubSeq(q, 1, Len(q)) = q
        BY <1>3, SubSeqFull
      <4> QED
        BY <4>1 DEF Rest
    <3> QED
      BY <1>5, <3>10, <3>11
  <2>2. OnlyOf({"ok", "bad"})' => OnlyOf({"ok", "bad"}) /\ Queue' = Queue /\ InStep
    BY <1>1, <2>1, SameExchange DEF RInv, q
  <2> QED
    BY <1>1, <1>6, <2>2, SameExchange DEF InStep, Queue
<1> QED
  BY <1>1, <1>7, <1>8, <1>9, <1>10 DEF RInv

\* A response that does not fit the buffer: in a tame exchange only without pipelining.
LEMMA BodyTooLongRInv == ASSUME RInv, NEW k \in Messages, BodyTooLong(k) PROVE RInv'
<1> DEFINE q == Queue
           n == Len(q)
           c == msg(k).cseq
           m == Match(c)
<1>1. /\ Response(k) /\ looping /\ looping' = FALSE /\ Queue' = m.queue
      /\ numExtraBytesNeeded(k) > Size - fResponseBytesAlreadySeen
      /\ answers' = IF m.found = 0 THEN answers ELSE [answers EXCEPT ![m.found] = Error]
      /\ fResponseBytesAlreadySeen' = numExtraBytesAfterResponse
      /\ UNCHANGED <<exchange, sent, received, read, numExtraBytesAfterResponse>>
  BY DEF BodyTooLong, Matched, input, Queue, Conclude, More, fResponseBufferBytesLeft
<1>2. PICK d \in 0..n : Cuts(m, c, d)
  BY <1>1, MatchOfTurn
<1>3. /\ m.queue = Rest(q, d)
      /\ (m.found = 0 /\ d = n) \/ (d > 0 /\ m.found = q[d])
  BY <1>2 DEF Cuts
<1>4. /\ Size \in Nat \ {0} /\ read \in Nat /\ fResponseBytesAlreadySeen \in Nat
      /\ fResponseBytesAlreadySeen <= read /\ fResponseBytesAlreadySeen < Size
      /\ front = read - fResponseBytesAlreadySeen /\ front \in Nat
  BY Numbers DEF RInv
<1> HIDE DEF q, n, m
<1>5. MessageEnd(k) - front > Size /\ front = MessageEnd(k - 1)
  <2>1. front = MessageEnd(k - 1)
    BY <1>1, ResponseBegins
  <2>2. HeaderEnd(k) \in Nat /\ MessageEnd(k) \in Nat
    <3>1. k \in 0..Len(exchange.messages)
      BY MessageTypes DEF RInv
    <3> QED
      BY <3>1, MessagesApart DEF RInv
  <2>3. numExtraBytesNeeded(k) = MessageEnd(k) - HeaderEnd(k) - (read - HeaderEnd(k))
    BY DEF numExtraBytesNeeded, contentLength, numBodyBytes
  <2>4. MessageEnd(k) - HeaderEnd(k) - (read - HeaderEnd(k)) = MessageEnd(k) - read
    BY <1>4, <2>2
  <2>5. MessageEnd(k) - read > Size - fResponseBytesAlreadySeen
    BY <1>1, <2>3, <2>4
  <2>6. MessageEnd(k) - front > Size
    BY <1>4, <2>2, <2>5
  <2> QED
    BY <2>1, <2>6
<1>6. ~(exchange.pipelined /\ Tame)
  <2>1. SUFFICES ASSUME exchange.pipelined, Tame PROVE FALSE
    OBVIOUS
  <2>2. MessageEnd(k) - MessageEnd(k - 1) <= Size
    BY <2>1, TameFits
  <2>3. MessageEnd(k) \in Nat
    <3>1. k \in 0..Len(exchange.messages)
      BY MessageTypes DEF RInv
    <3> QED
      BY <3>1, MessagesApart DEF RInv
  <2> QED
    BY <1>4, <1>5, <2>2, <2>3
<1>7. ~OnlyOf({"ok", "bad"})
  <2>1. SUFFICES ASSUME OnlyOf({"ok", "bad"}) PROVE FALSE
    OBVIOUS
  <2>2. PICK j \in 0..Len(exchange.messages) :
          Behind(j) /\ (j + 1 \in Messages => MessageEnd(j + 1) - front < Size)
    BY <2>1, AnsweredInTurn
  <2>3. k = j + 1
    BY <1>1, <2>1, <2>2, TurnIsTheNext
  <2>4. MessageEnd(k) \in Nat
    <3>1. k \in 0..Len(exchange.messages)
      BY MessageTypes DEF RInv
    <3> QED
      BY <3>1, MessagesApart DEF RInv
  <2> QED
    BY <1>4, <1>5, <2>2, <2>3, <2>4
<1>8. \A r : Fitting(r, Error)
  <2>1. -1 \notin Messages
    BY MessageTypes DEF RInv
  <2> QED
    BY <2>1 DEF Fitting, Own, Error
<1>9. Queue' \in Seq(1..sent') /\ Waiting' /\ Told'
  <2>1. answers' = answers \/ (d > 0 /\ answers' = [answers EXCEPT ![q[d]] = Error])
    BY <1>1, <1>3
  <2>2. d \in 0..Len(Queue) /\ Queue' = Rest(Queue, d)
    BY <1>1, <1>2, <1>3 DEF q, n
  <2> QED
    BY <1>1, <1>8, <2>1, <2>2, TakesRequests DEF q
<1>10. AskedBefore' /\ Kept'
  BY <1>1, SameExchange DEF RInv, AskedBefore, Kept
<1>11. ResponseTypes'
  <2>1. fRequestsAwaitingResponse' \in Seq(1..sent')
    BY <1>9 DEF Queue
  <2>2. fResponseBytesAlreadySeen' \in 0..Lesser(read, Size - 1)
    <3>1. numExtraBytesAfterResponse \in {0, fResponseBytesAlreadySeen}
      BY <1>1 DEF RInv, Kept
    <3> QED
      BY <1>1, <1>4, <3>1 DEF Lesser
  <2>3. DOMAIN answers' = Ids /\ \A r \in Ids : answers'[r].msg \in {-1, 0} \cup Messages
    BY <1>1, <1>9, SameExchange DEF Told, Fitting
  <2> QED
    BY <1>1, <2>1, <2>2, <2>3, SameExchange DEF RInv, ResponseTypes
<1>12. Expected' /\ InStep'
  <2>1. ~(exchange.pipelined /\ Tame)' /\ ~OnlyOf({"ok", "bad"})'
    BY <1>1, <1>6, <1>7, SameExchange
  <2> QED
    BY <2>1 DEF Expected, InStep
<1> QED
  BY <1>1, <1>9, <1>10, <1>11, <1>12 DEF RInv

\* A whole response is taken out of the buffer, and its request of the queue.
LEMMA CompleteRInv == ASSUME RInv, NEW k \in Messages, Complete(k) PROVE RInv'
<1> DEFINE q == Queue
           n == Len(q)
           l == Len(exchange.messages)
           c == msg(k).cseq
           m == Match(c)
           success == msg(k).kind = "ok" \/ m.found = 0
           answer == [msg |-> k, body |-> Body(k)]
<1> HIDE DEF answer
<1>1. /\ Response(k) /\ Queue' = m.queue /\ numExtraBytesNeeded(k) <= 0
      /\ answers' = IF m.found = 0 THEN answers
                    ELSE [answers EXCEPT ![m.found] = IF success THEN answer ELSE Error]
      /\ fResponseBytesAlreadySeen' = Extra(k) /\ numExtraBytesAfterResponse' = Extra(k)
      /\ looping' = (Extra(k) > 0 /\ success)
      /\ UNCHANGED <<exchange, sent, received, read>>
  BY DEF Complete, Matched, input, Queue, Conclude, More, answer
<1>2. PICK d \in 0..n : Cuts(m, c, d)
  BY <1>1, MatchOfTurn
<1>3. /\ m.queue = Rest(q, d)
      /\ (m.found = 0 /\ d = n) \/ (d > 0 /\ m.found = q[d])
      /\ Among(c, q) \/ (n <= 1 /\ m.found # 0) => d > 0 /\ m.found = c /\ q[d] = c
  BY <1>2 DEF Cuts
<1>4. /\ Size \in Nat \ {0} /\ read \in Nat /\ fResponseBytesAlreadySeen \in Nat
      /\ fResponseBytesAlreadySeen <= read /\ fResponseBytesAlreadySeen < Size
      /\ front = read - fResponseBytesAlreadySeen /\ front \in Nat /\ sent \in Nat
      /\ q \in Seq(1..sent) /\ n \in Nat /\ \A i \in 1..n : q[i] \in 1..sent
  BY Numbers DEF RInv
<1>5. /\ Messages = 1..l /\ l \in Nat /\ k \in 1..l
      /\ HeaderEnd(k) \in Nat /\ HeaderEnd(k) <= MessageEnd(k)
      /\ \A i \in 0..l : MessageEnd(i) \in Nat
      /\ \A o \in Messages, i \in 0..l : i < o => MessageEnd(i) < MessageEnd(o)
  BY MessageTypes, MessagesApart DEF RInv
<1> HIDE DEF q, n, m, c, l, success
<1>6. /\ Extra(k) = read - MessageEnd(k) /\ MessageEnd(k) <= read /\ MessageEnd(k) \in Nat
      /\ front < MessageEnd(k) /\ Body(k) = HeaderEnd(k) + 1..MessageEnd(k)
  <2>1. MessageEnd(k) \in Nat /\ MessageEnd(k - 1) < MessageEnd(k)
    BY <1>5
  <2>2. Extra(k) = read - HeaderEnd(k) - (MessageEnd(k) - HeaderEnd(k))
        /\ numExtraBytesNeeded(k) = MessageEnd(k) - HeaderEnd(k) - (read - HeaderEnd(k))
    BY DEF Extra, numBodyBytes, contentLength, numExtraBytesNeeded
  <2>3. Extra(k) = read - MessageEnd(k) /\ numExtraBytesNeeded(k) = MessageEnd(k) - read
    <3>1. read \in Nat /\ HeaderEnd(k) \in Nat /\ MessageEnd(k) \in Nat
      BY <1>4, <1>5, <2>1
    <3>2. \A x, y, z \in Nat : x - y - (z - y) = x - z
      OBVIOUS
    <3> QED
      BY <2>2, <3>1, <3>2
  <2>6. MessageEnd(k) <= read
    BY <1>1, <1>4, <2>1, <2>3
  <2>4. read - Extra(k) = MessageEnd(k)
    BY <1>4, <2>1, <2>3
  <2>5. front = MessageEnd(k - 1)
    BY <1>1, ResponseBegins
  <2> QED
    BY <2>1, <2>3, <2>4, <2>5, <2>6 DEF Body
<1>7. front' = MessageEnd(k)
  <2>1. front' = read - Extra(k)
    BY <1>1 DEF front
  <2> QED
    BY <1>4, <1>6, <2>1
<1>8. ASSUME m.found # 0 PROVE Fitting(m.found, IF success THEN answer ELSE Error)
  <2>1. Fitting(m.found, Error)
    <3>1. -1 \notin Messages
      BY <1>5
    <3> QED
      BY <3>1 DEF Fitting, Own, Error
  <2>2. ASSUME success PROVE Fitting(m.found, answer)
    <3>1. msg(k).kind = "ok"
      BY <1>8, <2>2 DEF success
    <3>2. Tame => m.found = c
      BY <1>1, <1>2, <1>8, FindsOwn DEF q, n, c, m
    <3>3. answer.msg = k /\ answer.body = HeaderEnd(k) + 1..MessageEnd(k)
      BY <1>6 DEF answer
    <3> QED
      BY <3>1, <3>2, <3>3 DEF Fitting, Own, c
  <2> QED
    BY <2>1, <2>2
<1>9. Queue' \in Seq(1..sent') /\ Waiting' /\ Told'
  <2> DEFINE verdict == IF success THEN answer ELSE Error
  <2>1. answers' = answers \/ (d > 0 /\ m.found # 0 /\ answers' = [answers EXCEPT ![q[d]] = verdict])
    BY <1>1, <1>3
  <2>2. d \in 0..Len(Queue) /\ Queue' = Rest(Queue, d)
    BY <1>1, <1>2, <1>3 DEF q, n
  <2>3. d > 0 /\ m.found # 0 => Fitting(q[d], verdict)
    BY <1>3, <1>8
  <2> HIDE DEF verdict
  <2> QED
    BY <1>1, <2>1, <2>2, <2>3, TakesRequests DEF q
<1>10. AskedBefore' /\ Kept'
  BY <1>1, SameExchange DEF RInv, AskedBefore, Kept
<1>11. ResponseTypes'
  <2>1. fRequestsAwaitingResponse' \in Seq(1..sent')
    BY <1>9 DEF Queue
  <2>2. Extra(k) \in Nat /\ Extra(k) <= read /\ Extra(k) < Size
    BY <1>4, <1>6
  <2>3. fResponseBytesAlreadySeen' \in 0..Lesser(read, Size - 1) /\ numExtraBytesAfterResponse' \in 0..read
    BY <1>1, <1>4, <2>2 DEF Lesser
  <2>4. DOMAIN answers' = Ids /\ \A r \in Ids : answers'[r].msg \in {-1, 0} \cup Messages
    BY <1>1, <1>9, SameExchange DEF Told, Fitting
  <2>5. looping' \in BOOLEAN
    BY <1>1
  <2> QED
    BY <1>1, <2>1, <2>3, <2>4, <2>5, SameExchange DEF RInv, ResponseTypes
<1>12. Expected'
  <2>1. ASSUME exchange.pipelined, Tame, NEW i \in Messages, IsResponse(i),
               front' <= MessageEnd(i - 1), msg(i).cseq <= sent
        PROVE  Among(msg(i).cseq, Queue')
    <3>1. d > 0 /\ q[d] = c /\ m.found = q[d]
      BY <1>1, <1>2, <2>1, FindsOwn DEF q, n, c, m
    <3>2. d \in 1..n
      BY <1>2, <1>4, <3>1
    <3>3. i > k
      <4>1. SUFFICES ASSUME i <= k PROVE FALSE
        BY <1>5
      <4>2. i - 1 \in 0..l /\ i - 1 < k
        BY <1>5, <4>1
      <4>3. MessageEnd(i - 1) < MessageEnd(k) /\ MessageEnd(i - 1) \in Nat
        BY <1>5, <4>2
      <4> QED
        BY <1>6, <1>7, <2>1, <4>3
    <3>4. Among(msg(i).cseq, Rest(q, d))
      BY <1>1, <2>1, <3>1, <3>2, <3>3, OthersWait DEF q, n, c
    <3> QED
      BY <1>1, <1>3, <3>4
  <2>2. exchange' = exchange /\ sent' = sent
    BY <1>1
  <2>3. /\ Messages' = Messages /\ Tame' = Tame
        /\ \A i : msg(i)' = msg(i) /\ MessageEnd(i)' = MessageEnd(i)
    BY <2>2, SameExchange
  <2> QED
    BY <2>1, <2>2, <2>3 DEF Expected, IsResponse
<1>13. InStep'
  <2>1. ASSUME OnlyOf({"ok", "bad"}) PROVE Queue' = [i \in 1..sent - k |-> k + i]
    <3>1. PICK j \in 0..Len(exchange.messages) : Behind(j) /\ j <= sent /\ n = sent - j
      BY <2>1, AnsweredInTurn DEF n, q
    <3>2. k = j + 1 /\ c = k
      BY <1>1, <2>1, <3>1, TurnIsTheNext DEF OnlyOf, c
    <3>3. q = [i \in 1..sent - j |-> j + i]
      BY <3>1 DEF Behind, q
    <3>4. j \in Nat /\ c <= sent
      <4>1. c <= sent
        BY <1>1, ResponseBegins DEF c
      <4> QED
        BY <1>5, <3>1, <4>1 DEF l
    <3>5. 1 \in 1..n /\ q[1] = c
      BY <1>4, <3>1, <3>2, <3>3, <3>4
    <3>6. Among(c, q)
      BY <3>5 DEF Among, n
    <3>7. d > 0 /\ q[d] = c
      BY <1>3, <3>6
    <3>8. q[d] = j + d
      BY <1>2, <1>4, <3>1, <3>3, <3>7
    <3>9. d = 1
      BY <1>2, <1>4, <3>2, <3>4, <3>7, <3>8
    <3>10. /\ Rest(q, 1) \in Seq(1..sent) /\ Len(Rest(q, 1)) = n - 1
           /\ \A i \in 1..n - 1 : Rest(q, 1)[i] = q[1 + i]
      <4>1. 1 \in 0..Len(q)
        BY <3>5 DEF n
      <4> QED
        BY <1>4, <4>1, RestProperties DEF n
    <3>11. n - 1 = sent - k
      BY <1>4, <3>1, <3>2, <3>4
    <3>12. ASSUME NEW i \in 1..sent - k PROVE Rest(q, 1)[i] = k + i
      <4>1. 1 + i \in 1..sent - j /\ j + (1 + i) = k + i
        BY <1>4, <3>1, <3>2, <3>4
      <4> QED
        BY <3>3, <3>10, <3>11, <4>1
    <3>13. Rest(q, 1) = [i \in 1..sent - k |-> Rest(q, 1)[i]]
      <4>1. Rest(q, 1) \in [1..sent - k -> 1..sent]
        BY <3>10, <3>11, LenProperties
      <4> QED
        BY <4>1
    <3>14. Queue' = Rest(q, 1)
      BY <1>1, <1>3, <3>9
    <3> QED
      BY <3>12, <3>13, <3>14
  <2>2. k \in 0..l /\ MessageEnd(k)' = MessageEnd(k) /\ l' = l
    BY <1>1, <1>5, SameExchange DEF l
  <2>3. OnlyOf({"ok", "bad"})' => OnlyOf({"ok", "bad"})
    BY <1>1, SameExchange
  <2>4. OnlyOf({"ok", "bad"})' =>
          \E j \in 0..l' : front' = MessageEnd(j)' /\ Queue' = [i \in 1..sent' - j |-> j + i]
    BY <1>1, <1>7, <2>1, <2>2, <2>3
  <2> QED
    BY <2>4 DEF InStep, Queue, l
<1> QED
  BY <1>1, <1>9, <1>10, <1>11, <1>12, <1>13 DEF RInv

\* Every step.
LEMMA NextRInv == RInv /\ [ResponseNext]_rvars => RInv'
<1> SUFFICES ASSUME RInv, [ResponseNext]_rvars PROVE RInv'
  OBVIOUS
<1>1. CASE UNCHANGED rvars
  <2>1. UNCHANGED <<exchange, sent, received, read, fResponseBytesAlreadySeen,
                    numExtraBytesAfterResponse, looping, fRequestsAwaitingResponse, answers>>
    BY <1>1 DEF rvars, input
  <2>2. front' = front
    BY <2>1 DEF front
  <2>3. AskedBefore' /\ Kept' /\ ResponseTypes'
    BY <2>1, SameExchange DEF RInv, AskedBefore, Kept, ResponseTypes
  <2>4. front \in Nat
    BY Numbers DEF RInv
  <2> QED
    BY <2>1, <2>2, <2>3, <2>4, QuietRInv
<1>2. CASE Submit
  BY <1>2, SubmitRInv
<1>3. CASE Receive \/ ReadSome \/ HeadersIncomplete
  BY <1>3, QuietStepRInv
<1>4. CASE ReadTooMuch
  BY <1>4, ReadTooMuchRInv
<1>5. CASE NoResponse \/ \E k \in Messages : BadHeader(k)
  BY <1>5, DiscardRInv
<1>6. ASSUME NEW k \in Messages, BodyIncomplete(k) \/ BodyTooLong(k) \/ Complete(k) PROVE RInv'
  BY <1>6, BodyIncompleteRInv, BodyTooLongRInv, CompleteRInv
<1> QED
  BY <1>1, <1>2, <1>3, <1>4, <1>5, <1>6 DEF ResponseNext, handleResponseBytes, Turn

-----------------------------------------------------------------------------
(***************************************************************************)
(* The results.                                                            *)
(***************************************************************************)

\* What the invariant says.
LEMMA RInvAnswers == RInv => OwnAnswer /\ InStep
BY DEF RInv, Told, Fitting, Own, OwnAnswer

\* A handler that is told of success has its own response, with just the body of it
\* (handleResponseBytes()): for any buffer, any number of requests and any messages, in
\* whatever pieces they come, if requests are not pipelined, or if as many bytes as fill
\* the buffer always contain the beginning of a response.
THEOREM OwnResponse == ResponseSpec => []OwnAnswer
BY InitRInv, NextRInv, RInvAnswers, PTL DEF ResponseSpec

\* The buffer begins where a response does, and those that wait are the requests whose
\* responses have not been taken out of it, in their order (handleResponseBytes(), the
\* bytes kept behind a response): for any responses, accepted or not, that fit.
THEOREM StaysInStep == ResponseSpec => []InStep
BY InitRInv, NextRInv, RInvAnswers, PTL DEF ResponseSpec

=============================================================================
