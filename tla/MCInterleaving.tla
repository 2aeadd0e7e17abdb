--------------------------- MODULE MCInterleaving ---------------------------
(***************************************************************************)
(* Interleaving with two subsessions (channels 0 to 3), sizes of two       *)
(* binary digits, and room for two bytes of RTCP.                          *)
(***************************************************************************)
EXTENDS Interleaving

Packet(ch, data) == [to |-> ch, data |-> data]
Answer(i) == [to |-> RTSP, data |-> <<65>>, setup |-> i]
Text == [to |-> RTSP, data |-> <<66>>, setup |-> RTSP]

\* Packets of all lengths, with text between them, on the channels of both.
SteadyWorld ==
  [wire |-> <<Text, Answer(0), Packet(0, <<7, 36>>), Packet(1, <<8, 9>>), Answer(1), Packet(2, <<>>),
              Packet(2, <<36, 0, 1>>), Packet(3, <<5>>), Text>>,
   early |-> FALSE, stops |-> FALSE, breaks |-> FALSE, stalls |-> FALSE]

\* The application pauses and closes while packets that look like others arrive.
StoppingWorld ==
  [wire |-> <<Answer(0), Packet(0, <<36, 1>>), Answer(1), Packet(1, <<1, 7, 254>>), Packet(2, <<36>>)>>,
   early |-> TRUE, stops |-> TRUE, breaks |-> FALSE, stalls |-> FALSE]

\* A subsession is set up twice, while it is open or after it was closed.
ReopeningWorld ==
  [wire |-> <<Answer(0), Packet(0, <<36>>), Answer(0), Packet(1, <<1, 7>>)>>,
   early |-> TRUE, stops |-> TRUE, breaks |-> FALSE, stalls |-> FALSE]

\* The connection is lost at any byte; also, while the application acts.
BreakingWorld ==
  [wire |-> <<Answer(0), Packet(0, <<36, 9>>), Packet(1, <<8>>)>>,
   early |-> FALSE, stops |-> FALSE, breaks |-> TRUE, stalls |-> FALSE]

FailingWorld ==
  [wire |-> <<Answer(0), Packet(0, <<5>>)>>, early |-> TRUE, stops |-> TRUE, breaks |-> TRUE, stalls |-> FALSE]

\* Reports time out, and packets for RTCP come all the same; also, while the application
\* pauses and closes, and a SETUP is answered again.
StallingWorld ==
  [wire |-> <<Answer(0), Packet(1, <<8>>), Answer(1), Packet(2, <<9>>), Packet(0, <<36>>)>>,
   early |-> FALSE, stops |-> FALSE, breaks |-> FALSE, stalls |-> TRUE]

DetachingWorld ==
  [wire |-> <<Answer(0), Packet(0, <<36>>), Text, Answer(0), Text>>,
   early |-> TRUE, stops |-> TRUE, breaks |-> FALSE, stalls |-> TRUE]

MCWorlds == {SteadyWorld, StoppingWorld, ReopeningWorld, BreakingWorld, FailingWorld,
             StallingWorld, DetachingWorld}
TwoSubsessions == {0, 1}
=============================================================================
